------------------------ MODULE ActivationCode_proofs ------------------------
(***************************************************************************)
(* Proofs about SignupService and ActivationCode, for every value of their *)
(* constants: first the requests of SignupService alone, then those of     *)
(* ActivationCode, whose invariant extends the one of the sign-ups.        *)
(***************************************************************************)
EXTENDS ActivationCode, HostStore_proofs, FiniteSetTheorems


-----------------------------------------------------------------------------
(* The UserSignups that are built.                                         *)

LEMMA NewSignupType ==
  ASSUME NEW t \in Claims, NEW verdict, NEW required \in BOOLEAN, NEW score \in Opt({"low", "ok"})
  PROVE  /\ NewSignup(t, verdict, <<required, score>>) \in Signup
         /\ "rejected" \in NewSignup(t, verdict, <<required, score>>).states <=> verdict = "rejected"
<1>1. /\ NewStates(verdict, required) \subseteq States
      /\ "rejected" \in NewStates(verdict, required) <=> verdict = "rejected"
  BY DEF NewStates, States
<1>2. /\ NewSignup(t, verdict, <<required, score>>).states = NewStates(verdict, required)
      /\ NewSignup(t, verdict, <<required, score>>).score = score
  BY DEF NewSignup
<1> QED
  BY <1>1, <1>2 DEF NewSignup, Signup, Opt

LEMMA WithEventType ==
  ASSUME NEW s \in Signup, NEW e \in Events
  PROVE  /\ WithEvent(s, e) \in Signup
         /\ "rejected" \in WithEvent(s, e).states <=> "rejected" \in s.states
<1>1. PICK S \in SUBSET States :
        /\ WithEvent(s, e) = [s EXCEPT !.states = S, !.event = e]
        /\ "rejected" \in S <=> "rejected" \in s.states
  <2>1. CASE e \in VerifyingEvents
    <3> DEFINE S == s.states \ {"deactivated"}
    <3>1. WithEvent(s, e) = [s EXCEPT !.states = S, !.event = e]
      BY <2>1 DEF WithEvent
    <3>2. S \in SUBSET States
      BY DEF Signup
    <3> QED
      BY <3>1, <3>2
  <2>2. CASE e \notin VerifyingEvents
    <3> DEFINE S == ((s.states \cup SetApprovedManually.add) \ SetApprovedManually.del) \ {"deactivated"}
    <3>1. WithEvent(s, e) = [s EXCEPT !.states = S, !.event = e]
      BY <2>2 DEF WithEvent
    <3>2. S \in SUBSET States
      BY DEF Signup, SetApprovedManually, States
    <3>3. "rejected" \in S <=> "rejected" \in s.states
      BY DEF SetApprovedManually
    <3> QED
      BY <3>1, <3>2, <3>3
  <2> QED
    BY <2>1, <2>2
<1> DEFINE x == [s EXCEPT !.states = S]
<1>2. /\ x \in Signup /\ x.states = S
      /\ WithEvent(s, e) = [x EXCEPT !.event = e]
  BY <1>1 DEF Signup
<1> HIDE DEF x
<1>3. [x EXCEPT !.event = e] \in Signup /\ [x EXCEPT !.event = e].states = S
  BY <1>2 DEF Signup, Opt
<1> QED
  BY <1>1, <1>2, <1>3

LEMMA ReactivatedType ==
  ASSUME NEW old \in Signup, NEW new \in Signup
  PROVE  /\ Reactivated(old, new) \in Signup
         /\ Reactivated(old, new).states = new.states
         /\ Reactivated(old, new).activated = old.activated
BY DEF Reactivated, Signup

LEMMA AuditedType ==
  ASSUME NEW s \in Signup, NEW t \in Opt(Claims)
  PROVE  /\ Audited(s, t) \in Signup
         /\ Audited(s, t) # s => t \in Claims
<1>1. CASE t = None
  BY <1>1 DEF Audited
<1>2. CASE t # None
  <2>1. Audited(s, t) = [s EXCEPT !.claims = t, !.emailHash = t] /\ t \in Claims
    BY <1>2 DEF Audited, Opt
  <2> DEFINE x == [s EXCEPT !.claims = t]
  <2>2. x \in Signup /\ Audited(s, t) = [x EXCEPT !.emailHash = t]
    BY <2>1 DEF Signup, Opt
  <2> HIDE DEF x
  <2>3. [x EXCEPT !.emailHash = t] \in Signup
    BY <2>1, <2>2 DEF Signup, Opt
  <2> QED
    BY <2>1, <2>2, <2>3
<1> QED
  BY <1>1, <1>2

LEMMA AssessmentsType ==
  ASSUME NEW u, NEW a \in Assessments(u)
  PROVE  \E required \in BOOLEAN, score \in Opt({"low", "ok"}) : a = <<required, score>>
<1>1. CASE a = <<FALSE, None>> \/ a = <<TRUE, None>>
  BY <1>1 DEF Opt
<1>2. CASE a \in BOOLEAN \X {"low", "ok"}
  BY <1>2 DEF Opt
<1> QED
  BY <1>1, <1>2 DEF Assessments

-----------------------------------------------------------------------------
(* What a step does to the handlers.                                       *)

\* What stays of a request while it is handled.
SameRequest(r) ==
  /\ req'[r].kind = req[r].kind /\ req'[r].at = req[r].at /\ req'[r].user = req[r].user
  /\ req'[r].token = req[r].token /\ req'[r].event = req[r].event

LEMMA HandlerStable ==
  ASSUME LogGrows, NEW r \in Requests, HandlerTypeOK(r), SameRequest(r),
         req'[r].pc \in {"verify", "build", "write"} => req[r].pc \in {"verify", "build", "write"},
         req'[r].pc \in {"read", "put"} => req[r].pc \in {"read", "put"},
         req'[r].pc \in {"write", "put"} => draft'[r] # None,
         req'[r].pc # "done" => req'[r].answer = None,
         \/ req'[r].base = req[r].base /\ (req'[r].pc = "put" => req[r].pc = "put")
         \/ /\ req'[r].base \in 1 .. Len(log[req[r].user])
            /\ req[r].token \in Claims
            /\ log[req[r].user][req'[r].base] # Absent
  PROVE  HandlerTypeOK(r)'
<1>1. \A i \in 1 .. Len(log[req[r].user]) :
        i \in 1 .. Len(log'[req[r].user]) /\ log'[req[r].user][i] = log[req[r].user][i]
  BY DEF LogGrows, HandlerTypeOK
<1> QED
  BY <1>1 DEF HandlerTypeOK, SameRequest, Base

\* A step of one handler keeps the types when it keeps those of the store and of that
\* handler.
LEMMA RequestStepType ==
  ASSUME TypeOK, StoreTypeOK', LogGrows, NEW r \in Requests,
         req' = [req EXCEPT ![r] = req'[r]], req'[r] \in Request,
         draft' = [draft EXCEPT ![r] = draft'[r]], draft'[r] \in Opt(Signup),
         req'[r].pc # "idle", HandlerTypeOK(r)'
  PROVE  TypeOK'
<1>1. req' \in [Requests -> Request] /\ draft' \in [Requests -> Opt(Signup)]
  BY DEF TypeOK
<1>2. ASSUME NEW q \in Requests
      PROVE  IF req'[q].pc = "idle" THEN req'[q] = Idle ELSE HandlerTypeOK(q)'
  <2>1. CASE q = r
    BY <2>1
  <2>2. CASE q # r
    <3>1. req'[q] = req[q] /\ draft'[q] = draft[q]
      BY <2>2 DEF TypeOK
    <3>2. CASE req[q].pc = "idle"
      BY <3>1, <3>2 DEF TypeOK
    <3>3. CASE req[q].pc # "idle"
      BY <3>1, <3>3, HandlerStable DEF TypeOK, HandlerTypeOK, SameRequest
    <3> QED
      BY <3>2, <3>3
  <2> QED
    BY <2>1, <2>2
<1> QED
  BY <1>1, <1>2 DEF TypeOK

\* What the operators that change req make of it.
LEMMA AnswerType ==
  ASSUME TypeOK, NEW r \in Requests, NEW a \in SignupAnswers \cup GetAnswers, Answer(r, a)
  PROVE  /\ req' = [req EXCEPT ![r] = req'[r]]
         /\ req'[r] \in Request /\ req'[r].pc = "done" /\ req'[r].answer = a
         /\ SameRequest(r) /\ req'[r].base = req[r].base /\ req'[r].verdict = req[r].verdict
<1>1. /\ req'[r] = [req[r] EXCEPT !.pc = "done", !.answer = a]
      /\ req' = [req EXCEPT ![r] = req'[r]]
      /\ req[r] \in Request
  BY DEF Answer, TypeOK
<1> QED
  BY <1>1 DEF Request, SameRequest, Opt

LEMMA RetryType ==
  ASSUME TypeOK, NEW r \in Requests, Retry(r)
  PROVE  /\ req' = [req EXCEPT ![r] = req'[r]]
         /\ req'[r] \in Request /\ req'[r].pc \in {"read", "done"}
         /\ req'[r].pc # "done" => req'[r].answer = req[r].answer
         /\ SameRequest(r) /\ req'[r].base = req[r].base
<1>1. CASE req[r].tries + 1 < MaxTries
  <2>1. /\ req'[r] = [req[r] EXCEPT !.pc = "read", !.tries = req[r].tries + 1]
        /\ req' = [req EXCEPT ![r] = req'[r]]
        /\ req[r] \in Request
    BY <1>1 DEF Retry, TypeOK
  <2>2. req[r].tries + 1 \in Nat
    BY <2>1 DEF Request
  <2> QED
    BY <2>1, <2>2 DEF Request, SameRequest
<1>2. CASE ~(req[r].tries + 1 < MaxTries)
  <2>1. Answer(r, "internal") /\ "internal" \in SignupAnswers
    BY <1>2 DEF Retry, SignupAnswers
  <2> QED
    BY <2>1, AnswerType
<1> QED
  BY <1>1, <1>2

LEMMA ReportType ==
  ASSUME TypeOK, NEW r \in Requests, NEW s \in Opt(Signup), Report(r, s)
  PROVE  /\ req' = [req EXCEPT ![r] = req'[r]]
         /\ req'[r] \in Request /\ req'[r].pc = "done"
         /\ SameRequest(r) /\ req'[r].base = req[r].base
<1>1. PICK a \in IF s = None THEN {"none"} ELSE Status(s, req[r].token) : Answer(r, a)
  BY DEF Report
<1>2. a \in GetAnswers
  BY <1>1 DEF Status, GetAnswers
<1> QED
  BY <1>1, <1>2, AnswerType

-----------------------------------------------------------------------------
(* Decisions and answers of one request.                                   *)

DecisionOK(r) ==
  /\ req[r].pc \in {"verify", "build", "write"} => MaySignUp(Base(r))
  /\ req[r].pc = "write" =>
       /\ "rejected" \in draft[r].states <=> req[r].verdict = "rejected"
       /\ Base(r) # Absent => draft[r].activated = Base(r).activated

AnswerOK(r) == LET q == req[r] IN
  /\ q.kind = "signup" /\ q.answer = "accepted" =>
       \E i \in q.base + 1 .. Len(log[q.user]) :
         log[q.user][i] = draft[r] /\ "rejected" \notin draft[r].states
  /\ q.kind = "signup" /\ q.answer = "rejected" =>
       \E s \in Versions(q.user) : "rejected" \in s.states

LEMMA RequestsOK ==
  DecisionsHold /\ AnswerMeansWritten <=> \A r \in Requests : DecisionOK(r) /\ AnswerOK(r)
BY DEF DecisionsHold, AnswerMeansWritten, DecisionOK, AnswerOK

\* Versions are still there after a step.
LEMMA VersionsGrow ==
  ASSUME StoreTypeOK, LogGrows, NEW u \in Users, NEW s \in Versions(u)
  PROVE  s \in Versions(u)'
<1>1. PICK i \in 1 .. Len(log[u]) : log[u][i] = s /\ s # Absent
  <2>1. DOMAIN log[u] = 1 .. Len(log[u])
    BY DEF StoreTypeOK
  <2> QED
    BY <2>1 DEF Versions
<1> QED
  BY <1>1 DEF LogGrows, Versions

\* Others' steps leave a request all right.
LEMMA RequestStable ==
  ASSUME IInv, TypeOK', LogGrows, NEW q \in Requests, req'[q] = req[q], draft'[q] = draft[q]
  PROVE  DecisionOK(q)' /\ AnswerOK(q)'
<1>1. DecisionOK(q) /\ AnswerOK(q)
  BY RequestsOK DEF IInv
<1>2. CASE req[q].pc = "idle"
  <2>1. req[q].kind = None
    BY <1>2 DEF IInv, TypeOK, Idle
  <2>2. None # "signup"
    BY NoneAssumption
  <2> QED
    BY <1>2, <2>1, <2>2 DEF DecisionOK, AnswerOK
<1>3. CASE req[q].pc # "idle"
  <2>1. HandlerTypeOK(q) /\ StoreTypeOK /\ StoreTypeOK'
    BY <1>3 DEF IInv, TypeOK
  <2>2. Base(q)' = Base(q)
    BY <2>1 DEF HandlerTypeOK, LogGrows, Base
  <2>3. DecisionOK(q)'
    BY <1>1, <2>2 DEF DecisionOK
  <2>4. req[q].user \in Users /\ req[q].base \in 1 .. Len(log[req[q].user])
    BY <2>1 DEF HandlerTypeOK
  <2>5. \A i \in req[q].base + 1 .. Len(log[req[q].user]) :
          /\ i \in req[q].base + 1 .. Len(log'[req[q].user])
          /\ log'[req[q].user][i] = log[req[q].user][i]
    <3> DEFINE m == Len(log[req[q].user])
               n == Len(log'[req[q].user])
    <3>1. n >= m /\ \A i \in 1 .. m : log'[req[q].user][i] = log[req[q].user][i]
      BY <2>4 DEF LogGrows
    <3>2. m \in Nat /\ n \in Nat
      BY <2>1, <2>4 DEF StoreTypeOK
    <3> HIDE DEF m, n
    <3>3. ASSUME NEW i \in req[q].base + 1 .. m
          PROVE  i \in req[q].base + 1 .. n /\ i \in 1 .. m
      BY <2>4, <3>1, <3>2
    <3> QED
      BY <3>1, <3>3 DEF m, n
  <2>6. \A s \in Versions(req[q].user) : s \in Versions(req[q].user)'
    BY <2>1, <2>4, VersionsGrow
  <2>7. AnswerOK(q)'
    BY <1>1, <2>5, <2>6 DEF AnswerOK
  <2> QED
    BY <2>3, <2>7
<1> QED
  BY <1>2, <1>3

\* A step of one handler keeps the invariant when it keeps what is said of that handler.
LEMMA StepOK ==
  ASSUME IInv, TypeOK', LogGrows, NEW r \in Requests,
         req' = [req EXCEPT ![r] = req'[r]], draft' = [draft EXCEPT ![r] = draft'[r]],
         DecisionOK(r)', AnswerOK(r)'
  PROVE  IInv'
<1>1. ASSUME NEW q \in Requests
      PROVE  DecisionOK(q)' /\ AnswerOK(q)'
  <2>1. CASE q = r
    BY <2>1
  <2>2. CASE q # r
    <3>1. req'[q] = req[q] /\ draft'[q] = draft[q]
      BY <2>2 DEF IInv, TypeOK
    <3> QED
      BY <3>1, RequestStable
  <2> QED
    BY <2>1, <2>2
<1> QED
  BY <1>1 DEF IInv, DecisionsHold, AnswerMeansWritten, DecisionOK, AnswerOK

-----------------------------------------------------------------------------
(* One lemma per action: it keeps the invariant.                           *)

LEMMA StartType ==
  ASSUME TypeOK, NEW r \in Requests, NEW p \in Replicas, NEW u \in Users,
         NEW t \in Opt(Claims), NEW e \in Opt(EventCodes), NEW kind, NEW pc,
         NEW a \in Opt(SignupAnswers),
         \/ kind = "signup" /\ pc \in {"verify", "done"} /\ t \in Claims
         \/ kind = "get" /\ pc = "read",
         pc # "done" => a = None,
         Start(r, kind, p, u, t, e, pc, a),
         UNCHANGED <<storeVars, draft>>
  PROVE  /\ TypeOK' /\ LogGrows
         /\ req' = [req EXCEPT ![r] = req'[r]]
         /\ req'[r].kind = kind /\ req'[r].user = u /\ req'[r].pc = pc
         /\ req'[r].base = seen[p][u] /\ req'[r].answer = a
<1>1. /\ req' = [req EXCEPT ![r] = req'[r]]
      /\ req'[r] = [Idle EXCEPT !.pc = pc, !.kind = kind, !.at = p, !.user = u,
                                !.token = t, !.event = e, !.base = seen[p][u], !.answer = a]
  BY DEF Start, TypeOK
<1>2. seen[p][u] \in 1 .. Len(log[u]) /\ seen[p][u] \in Nat
  BY DEF TypeOK, StoreTypeOK
<1>3. req'[r] = [pc |-> pc, kind |-> kind, at |-> p, user |-> u, token |-> t, event |-> e,
                 base |-> seen[p][u], verdict |-> None, tries |-> 0, answer |-> a]
  BY <1>1 DEF Idle
<1>4. req'[r] \in Request
  BY <1>2, <1>3 DEF Request, Opt
<1>5. HandlerTypeOK(r)'
  BY <1>2, <1>3 DEF HandlerTypeOK, storeVars
<1>6. StoreTypeOK' /\ LogGrows
  BY StoreUnchanged DEF TypeOK
<1>7. draft' = [draft EXCEPT ![r] = draft'[r]] /\ draft'[r] \in Opt(Signup)
  BY DEF TypeOK
<1> QED
  BY <1>1, <1>3, <1>4, <1>5, <1>6, <1>7, RequestStepType

LEMMA SignupStartOK ==
  ASSUME IInv, NEW r \in Requests, NEW p \in Replicas, NEW u \in Users, NEW t \in Claims,
         NEW e \in Opt(EventCodes), SignupStart(r, p, u, t, e)
  PROVE  IInv'
<1> DEFINE s == Cached(p, u)
           pc == IF MaySignUp(s) THEN "verify" ELSE "done"
           a == IF MaySignUp(s) THEN None ELSE IF "rejected" \in s.states THEN "rejected"
                ELSE "conflict"
<1>1. /\ Start(r, "signup", p, u, t, e, pc, a) /\ UNCHANGED <<storeVars, draft>>
      /\ pc # "done" => a = None
  BY DEF SignupStart
<1>2. a \in Opt(SignupAnswers) /\ pc \in {"verify", "done"} /\ t \in Opt(Claims)
  BY DEF SignupAnswers, Opt
<1>3. TypeOK /\ StoreTypeOK
  BY DEF IInv, TypeOK
<1>4. /\ TypeOK' /\ LogGrows
      /\ req' = [req EXCEPT ![r] = req'[r]]
      /\ req'[r].kind = "signup" /\ req'[r].user = u /\ req'[r].pc = pc
      /\ req'[r].base = seen[p][u] /\ req'[r].answer = a
  BY <1>1, <1>2, <1>3, StartType
<1>5. draft' = [draft EXCEPT ![r] = draft'[r]]
  BY <1>1, <1>3 DEF TypeOK
<1>6. Base(r)' = s
  BY <1>1, <1>4 DEF Base, Cached, storeVars
<1>7. DecisionOK(r)'
  BY <1>4, <1>6 DEF DecisionOK
<1>8. AnswerOK(r)'
  <2>1. a # "accepted"
    BY NoneAssumption DEF SignupAnswers
  <2>2. ASSUME a = "rejected"
        PROVE  s \in Versions(u)' /\ "rejected" \in s.states
    <3>1. ~MaySignUp(s) /\ "rejected" \in s.states
      BY <2>2, NoneAssumption DEF SignupAnswers
    <3>2. s # Absent /\ seen[p][u] \in 1 .. Len(log[u])
      BY <1>3, <3>1 DEF MaySignUp, StoreTypeOK
    <3> QED
      BY <1>1, <1>3, <3>1, <3>2 DEF Versions, Cached, storeVars, StoreTypeOK
  <2> HIDE DEF a, s
  <2> QED
    BY <1>4, <2>1, <2>2 DEF AnswerOK
<1> QED
  BY <1>4, <1>5, <1>7, <1>8, StepOK

LEMMA GetStartOK ==
  ASSUME IInv, NEW r \in Requests, NEW p \in Replicas, NEW u \in Users, NEW t \in Opt(Claims),
         GetStart(r, p, u, t)
  PROVE  IInv'
<1>1. Start(r, "get", p, u, t, None, "read", None) /\ UNCHANGED <<storeVars, draft>>
  BY DEF GetStart
<1>2. None \in Opt(EventCodes) /\ None \in Opt(SignupAnswers) /\ TypeOK
  BY DEF IInv, Opt
<1>3. /\ TypeOK' /\ LogGrows
      /\ req' = [req EXCEPT ![r] = req'[r]]
      /\ req'[r].kind = "get" /\ req'[r].pc = "read"
  BY <1>1, <1>2, StartType
<1>4. draft' = [draft EXCEPT ![r] = draft'[r]]
  BY <1>1, <1>2 DEF TypeOK
<1>5. DecisionOK(r)' /\ AnswerOK(r)'
  BY <1>3 DEF DecisionOK, AnswerOK
<1> QED
  BY <1>3, <1>4, <1>5, StepOK

\* The facts about a handler at work.
LEMMA HandlerFacts ==
  ASSUME IInv, NEW r \in Requests, req[r].pc # "idle"
  PROVE  /\ TypeOK /\ StoreTypeOK /\ HandlerTypeOK(r) /\ DecisionOK(r) /\ AnswerOK(r)
         /\ req[r] \in Request /\ draft[r] \in Opt(Signup)
         /\ req[r].user \in Users /\ req[r].base \in 1 .. Len(log[req[r].user])
         /\ Base(r) \in Signup \cup {Absent}
<1>1. TypeOK /\ StoreTypeOK /\ HandlerTypeOK(r) /\ DecisionOK(r) /\ AnswerOK(r)
  BY RequestsOK DEF IInv, TypeOK
<1>2. req[r].user \in Users /\ req[r].base \in 1 .. Len(log[req[r].user])
  BY <1>1 DEF HandlerTypeOK
<1>3. Base(r) \in Signup \cup {Absent}
  BY <1>1, <1>2, LatestType DEF Base
<1> QED
  BY <1>1, <1>2, <1>3 DEF TypeOK

LEMMA SignupVerifyOK ==
  ASSUME IInv, NEW r \in Requests, SignupVerify(r)
  PROVE  IInv'
<1>1. PICK v \in Verdicts : req' = [req EXCEPT ![r].pc = "build", ![r].verdict = v]
  BY DEF SignupVerify
<1>2. req[r].pc = "verify" /\ UNCHANGED <<storeVars, draft>>
  BY DEF SignupVerify
<1>3. /\ TypeOK /\ StoreTypeOK /\ HandlerTypeOK(r) /\ DecisionOK(r) /\ AnswerOK(r)
      /\ req[r] \in Request /\ draft[r] \in Opt(Signup)
  BY <1>2, HandlerFacts
<1>4. StoreTypeOK' /\ LogGrows
  BY <1>2, <1>3, StoreUnchanged
<1>5. /\ req'[r] = [req[r] EXCEPT !.pc = "build", !.verdict = v]
      /\ req' = [req EXCEPT ![r] = req'[r]]
  BY <1>1, <1>3 DEF TypeOK
<1>6. v \in Opt({"accepted", "phone", "rejected"})
  BY DEF Verdicts, Opt
<1>7. /\ req'[r] \in Request /\ req'[r].pc = "build" /\ SameRequest(r)
      /\ req'[r].base = req[r].base /\ req'[r].answer = req[r].answer
  BY <1>3, <1>5, <1>6 DEF Request, SameRequest
<1>8. draft' = [draft EXCEPT ![r] = draft'[r]] /\ draft'[r] \in Opt(Signup)
  BY <1>2, <1>3 DEF TypeOK
<1>9. HandlerTypeOK(r)'
  <2>1. req[r].answer = None
    BY <1>2, <1>3 DEF HandlerTypeOK
  <2> QED
    BY <1>2, <1>3, <1>4, <1>7, <2>1, HandlerStable
<1>10. TypeOK'
  BY <1>3, <1>4, <1>5, <1>7, <1>8, <1>9, RequestStepType
<1>11. DecisionOK(r)' /\ AnswerOK(r)'
  BY <1>2, <1>3, <1>7 DEF DecisionOK, AnswerOK, Base, SameRequest, storeVars, Versions
<1> QED
  BY <1>4, <1>5, <1>8, <1>10, <1>11, StepOK

\* A request that is refused, or fails, without having written.
LEMMA RefusedOK ==
  ASSUME IInv, NEW r \in Requests, req[r].pc # "idle", UNCHANGED <<storeVars, draft>>,
         NEW a \in (SignupAnswers \cup GetAnswers) \ {"accepted", "rejected"}, Answer(r, a)
  PROVE  IInv'
<1>1. /\ TypeOK /\ StoreTypeOK /\ HandlerTypeOK(r)
      /\ draft[r] \in Opt(Signup)
  BY HandlerFacts
<1>2. StoreTypeOK' /\ LogGrows
  BY <1>1, StoreUnchanged
<1>3. /\ req' = [req EXCEPT ![r] = req'[r]]
      /\ req'[r] \in Request /\ req'[r].pc = "done" /\ req'[r].answer = a
      /\ SameRequest(r) /\ req'[r].base = req[r].base
  BY <1>1, AnswerType
<1>4. HandlerTypeOK(r)'
  BY <1>1, <1>2, <1>3, HandlerStable
<1>5. draft' = [draft EXCEPT ![r] = draft'[r]] /\ draft'[r] \in Opt(Signup)
  BY <1>1 DEF TypeOK
<1>6. TypeOK'
  BY <1>1, <1>2, <1>3, <1>4, <1>5, RequestStepType
<1>7. DecisionOK(r)' /\ AnswerOK(r)'
  BY <1>3 DEF DecisionOK, AnswerOK
<1> QED
  BY <1>2, <1>3, <1>5, <1>6, <1>7, StepOK

LEMMA SignupBuildOK ==
  ASSUME IInv, NEW r \in Requests, NEW valid \in SUBSET Events, SignupBuild(r, valid)
  PROVE  IInv'
<1> DEFINE u == req[r].user
           e == req[r].event
<1>1. req[r].pc = "build" /\ UNCHANGED storeVars
  BY DEF SignupBuild
<1>2. /\ TypeOK /\ StoreTypeOK /\ HandlerTypeOK(r) /\ DecisionOK(r)
      /\ req[r] \in Request /\ Base(r) \in Signup \cup {Absent}
      /\ req[r].answer = None
  BY <1>1, HandlerFacts DEF HandlerTypeOK
<1>3. CASE Answer(r, "forbidden") /\ UNCHANGED draft
  BY <1>1, <1>3, RefusedOK DEF SignupAnswers
<1>4. CASE Answer(r, "banned") /\ UNCHANGED draft
  BY <1>1, <1>4, RefusedOK DEF SignupAnswers
<1>5. CASE Answer(r, "badEvent") /\ UNCHANGED draft
  BY <1>1, <1>5, RefusedOK DEF SignupAnswers
<1>6. ASSUME NEW a \in Assessments(u), e = None \/ e \in valid, NEW new,
             new = IF e = None THEN NewSignup(req[r].token, req[r].verdict, a)
                   ELSE WithEvent(NewSignup(req[r].token, req[r].verdict, a), e),
             Goto(r, "write"),
             draft' = [draft EXCEPT ![r] = IF Base(r) = Absent THEN new ELSE Reactivated(Base(r), new)]
      PROVE  IInv'
  <2> DEFINE fresh == NewSignup(req[r].token, req[r].verdict, a)
             written == IF Base(r) = Absent THEN new ELSE Reactivated(Base(r), new)
  <2>1. req[r].token \in Claims
    BY <1>1, <1>2 DEF HandlerTypeOK
  <2>fresh. fresh \in Signup /\ ("rejected" \in fresh.states <=> req[r].verdict = "rejected")
    <3>1. PICK required \in BOOLEAN, score \in Opt({"low", "ok"}) : a = <<required, score>>
      BY <1>6, AssessmentsType
    <3> QED
      BY <2>1, <3>1, NewSignupType
  <2>2. new \in Signup /\ ("rejected" \in new.states <=> req[r].verdict = "rejected")
    <3>1. CASE e = None
      BY <1>6, <2>fresh, <3>1
    <3>2. CASE e # None
      BY <1>6, <2>fresh, <3>2, WithEventType
    <3> QED
      BY <3>1, <3>2
  <2> HIDE DEF fresh
  <2>3. /\ written \in Signup
        /\ "rejected" \in written.states <=> req[r].verdict = "rejected"
        /\ Base(r) # Absent => written.activated = Base(r).activated
    BY <1>2, <2>2, ReactivatedType
  <2>4. draft' = [draft EXCEPT ![r] = written] /\ draft'[r] = written
    BY <1>2, <1>6 DEF TypeOK
  <2> HIDE DEF written
  <2>5. /\ req'[r] = [req[r] EXCEPT !.pc = "write"]
        /\ req' = [req EXCEPT ![r] = req'[r]]
    BY <1>2, <1>6 DEF Goto, TypeOK
  <2>6. /\ req'[r] \in Request /\ req'[r].pc = "write" /\ SameRequest(r)
        /\ req'[r].base = req[r].base /\ req'[r].answer = req[r].answer
        /\ req'[r].verdict = req[r].verdict
    BY <1>2, <2>5 DEF Request, SameRequest
  <2>7. StoreTypeOK' /\ LogGrows
    BY <1>1, <1>2, StoreUnchanged
  <2>8. draft'[r] # None /\ draft'[r] \in Opt(Signup)
    BY <2>3, <2>4, NoneAssumption DEF Opt
  <2>9. HandlerTypeOK(r)'
    BY <1>1, <1>2, <2>6, <2>7, <2>8, HandlerStable
  <2>10. TypeOK'
    BY <1>2, <2>4, <2>5, <2>6, <2>7, <2>8, <2>9, RequestStepType
  <2>11. Base(r)' = Base(r)
    BY <1>1, <2>6 DEF Base, SameRequest, storeVars
  <2>12. DecisionOK(r)'
    BY <1>1, <1>2, <2>3, <2>4, <2>6, <2>11 DEF DecisionOK
  <2>13. AnswerOK(r)'
    <3>1. req[r].answer # "accepted" /\ req[r].answer # "rejected"
      BY <1>2, NoneAssumption DEF SignupAnswers
    <3> QED
      BY <2>6, <3>1 DEF AnswerOK
  <2> QED
    BY <2>4, <2>5, <2>7, <2>10, <2>12, <2>13, StepOK
<1> QED
  BY <1>3, <1>4, <1>5, <1>6 DEF SignupBuild

\* The write of a sign-up: at most the latest version is followed by the draft.
LEMMA DraftWritten ==
  ASSUME IInv, NEW r \in Requests, req[r].pc = "write",
         Writable(r), NewVersion(req[r].user, draft[r]), UNCHANGED <<banned, now>>
  PROVE  /\ StoreTypeOK' /\ LogGrows
         /\ draft[r] \in Signup
         /\ log'[req[r].user] = Append(log[req[r].user], draft[r])
<1>1. /\ StoreTypeOK /\ HandlerTypeOK(r)
      /\ draft[r] \in Opt(Signup) /\ req[r].user \in Users
  BY HandlerFacts
<1>2. draft[r] \in Signup
  BY <1>1 DEF HandlerTypeOK, Opt
<1> QED
  BY <1>1, <1>2, NewVersionType

LEMMA SignupWriteOK ==
  ASSUME IInv, NEW r \in Requests, SignupWrite(r)
  PROVE  IInv'
<1>1. req[r].pc = "write" /\ UNCHANGED <<banned, now, draft>> /\ Answer(r, Outcome(r))
  BY DEF SignupWrite
<1>2. /\ TypeOK /\ StoreTypeOK /\ HandlerTypeOK(r) /\ DecisionOK(r)
      /\ draft[r] \in Opt(Signup)
      /\ req[r].user \in Users /\ req[r].base \in 1 .. Len(log[req[r].user])
  BY <1>1, HandlerFacts
<1>3. CASE ~Writable(r)
  <2>1. Outcome(r) = "conflict" /\ UNCHANGED <<log, seen>>
    BY <1>3 DEF Outcome, SignupWrite
  <2> QED
    BY <1>1, <2>1, RefusedOK DEF SignupAnswers, storeVars
<1>4. CASE Writable(r)
  <2>1. NewVersion(req[r].user, draft[r])
    BY <1>4 DEF SignupWrite
  <2>2. /\ StoreTypeOK' /\ LogGrows
        /\ draft[r] \in Signup
        /\ log'[req[r].user] = Append(log[req[r].user], draft[r])
    BY <1>1, <1>4, <2>1, DraftWritten
  <2>3. /\ Outcome(r) \in {"accepted", "rejected"}
        /\ Outcome(r) = "rejected" <=> "rejected" \in draft[r].states
    BY <1>1, <1>2, <1>4 DEF Outcome, DecisionOK
  <2>4. /\ req' = [req EXCEPT ![r] = req'[r]]
        /\ req'[r] \in Request /\ req'[r].pc = "done" /\ req'[r].answer = Outcome(r)
        /\ SameRequest(r) /\ req'[r].base = req[r].base
    BY <1>1, <1>2, <2>3, AnswerType DEF SignupAnswers
  <2>5. HandlerTypeOK(r)'
    BY <1>2, <2>2, <2>4, HandlerStable
  <2>6. draft' = [draft EXCEPT ![r] = draft'[r]] /\ draft'[r] \in Opt(Signup)
    BY <1>1, <1>2 DEF TypeOK
  <2>7. TypeOK'
    BY <1>2, <2>2, <2>4, <2>5, <2>6, RequestStepType
  <2>8. DecisionOK(r)'
    BY <2>4 DEF DecisionOK
  <2>9. AnswerOK(r)'
    <3> DEFINE u == req[r].user
               n == Len(log[u]) + 1
    <3>a. /\ log'[u] = Append(log[u], draft[r]) /\ log[u] \in Seq(Signup \cup {Absent})
          /\ draft[r] \in Signup
      BY <1>2, <2>2 DEF StoreTypeOK
    <3>b. n = Len(log'[u]) /\ n \in Nat /\ log'[u][n] = draft[r]
      BY <3>a
    <3>1. /\ n \in req[r].base + 1 .. Len(log'[u]) /\ n \in DOMAIN log'[u]
          /\ log'[u][n] = draft[r] /\ draft[r] # Absent
      BY <1>2, <2>2, <3>a, <3>b, HostStoreAssumption DEF StoreTypeOK
    <3>2. req'[r].user = u /\ req'[r].base = req[r].base /\ draft'[r] = draft[r]
      BY <1>1, <2>4 DEF SameRequest
    <3> HIDE DEF n
    <3>3. draft[r] \in {log'[u][i] : i \in DOMAIN log'[u]} \ {Absent}
      BY <3>1
    <3>4. Versions(req[r].user)' = {log'[u][i] : i \in DOMAIN log'[u]} \ {Absent}
      BY <3>2 DEF Versions
    <3> QED
      BY <2>3, <2>4, <3>1, <3>2, <3>3, <3>4 DEF AnswerOK
  <2> QED
    BY <2>2, <2>4, <2>6, <2>7, <2>8, <2>9, StepOK
<1> QED
  BY <1>3, <1>4

LEMMA SignupWriteErrorOK ==
  ASSUME IInv, NEW r \in Requests, SignupWriteError(r)
  PROVE  IInv'
<1>1. req[r].pc = "write" /\ UNCHANGED <<banned, now, draft>> /\ Answer(r, "internal")
  BY DEF SignupWriteError
<1>2. /\ TypeOK /\ StoreTypeOK /\ HandlerTypeOK(r) /\ draft[r] \in Opt(Signup)
  BY <1>1, HandlerFacts
<1>3. StoreTypeOK' /\ LogGrows
  <2>1. CASE UNCHANGED <<log, seen>>
    BY <1>1, <1>2, <2>1, StoreUnchanged DEF storeVars
  <2>2. CASE Writable(r) /\ NewVersion(req[r].user, draft[r])
    BY <1>1, <2>2, DraftWritten
  <2> QED
    BY <2>1, <2>2 DEF SignupWriteError
<1>4. /\ req' = [req EXCEPT ![r] = req'[r]]
      /\ req'[r] \in Request /\ req'[r].pc = "done" /\ req'[r].answer = "internal"
      /\ SameRequest(r) /\ req'[r].base = req[r].base
  BY <1>1, <1>2, AnswerType DEF SignupAnswers
<1>5. HandlerTypeOK(r)'
  BY <1>2, <1>3, <1>4, HandlerStable
<1>6. draft' = [draft EXCEPT ![r] = draft'[r]] /\ draft'[r] \in Opt(Signup)
  BY <1>1, <1>2 DEF TypeOK
<1>7. TypeOK'
  BY <1>2, <1>3, <1>4, <1>5, <1>6, RequestStepType
<1>8. DecisionOK(r)' /\ AnswerOK(r)'
  BY <1>4 DEF DecisionOK, AnswerOK
<1> QED
  BY <1>3, <1>4, <1>6, <1>7, <1>8, StepOK

\* A step of GetSignup leaves the sign-ups all right.
LEMMA GetStepOK ==
  ASSUME IInv, NEW r \in Requests, req[r].pc \in {"read", "put"}, StoreTypeOK', LogGrows,
         req' = [req EXCEPT ![r] = req'[r]], req'[r] \in Request,
         req'[r].pc \in {"read", "put", "done"}, SameRequest(r),
         req'[r].pc # "done" => req'[r].answer = None,
         draft' = [draft EXCEPT ![r] = draft'[r]], draft'[r] \in Opt(Signup),
         req'[r].pc = "put" => draft'[r] # None,
         \/ req'[r].base = req[r].base /\ req'[r].pc # "put"
         \/ /\ req'[r].base \in 1 .. Len(log[req[r].user])
            /\ req[r].token \in Claims
            /\ log[req[r].user][req'[r].base] # Absent
  PROVE  IInv'
<1>1. TypeOK /\ HandlerTypeOK(r) /\ req[r].kind = "get"
  BY HandlerFacts DEF HandlerTypeOK
<1>2. HandlerTypeOK(r)'
  BY <1>1, HandlerStable
<1>3. TypeOK'
  BY <1>1, <1>2, RequestStepType
<1>4. DecisionOK(r)' /\ AnswerOK(r)'
  BY <1>1 DEF DecisionOK, AnswerOK, SameRequest
<1> QED
  BY <1>3, <1>4, StepOK

\* A failed try keeps what was read, and is followed by another or by an answer.
LEMMA GetRetryOK ==
  ASSUME IInv, NEW r \in Requests, req[r].pc = "put", StoreTypeOK', LogGrows,
         Retry(r), UNCHANGED draft
  PROVE  IInv'
<1>1. TypeOK /\ HandlerTypeOK(r) /\ req[r].answer = None /\ draft[r] \in Opt(Signup)
  BY HandlerFacts DEF HandlerTypeOK
<1>2. draft' = [draft EXCEPT ![r] = draft'[r]] /\ draft'[r] \in Opt(Signup)
  BY <1>1 DEF TypeOK
<1> QED
  BY <1>1, <1>2, RetryType, GetStepOK

LEMMA GetConflictOK ==
  ASSUME IInv, NEW r \in Requests, GetConflict(r)
  PROVE  IInv'
<1>1. req[r].pc = "put" /\ Retry(r) /\ UNCHANGED storeVars /\ UNCHANGED draft
  BY DEF GetConflict
<1>2. StoreTypeOK' /\ LogGrows
  BY <1>1, HandlerFacts, StoreUnchanged
<1> QED
  BY <1>1, <1>2, GetRetryOK

\* The write of an audit: the draft follows the latest version.
LEMMA AuditWritten ==
  ASSUME IInv, NEW r \in Requests, req[r].pc = "put",
         NewVersion(req[r].user, draft[r]), UNCHANGED <<banned, now>>
  PROVE  StoreTypeOK' /\ LogGrows /\ draft[r] \in Signup
<1>1. StoreTypeOK /\ HandlerTypeOK(r) /\ draft[r] \in Opt(Signup) /\ req[r].user \in Users
  BY HandlerFacts
<1>2. draft[r] \in Signup
  BY <1>1 DEF HandlerTypeOK, Opt
<1> QED
  BY <1>1, <1>2, NewVersionType

LEMMA GetPutErrorOK ==
  ASSUME IInv, NEW r \in Requests, GetPutError(r)
  PROVE  IInv'
<1>1. req[r].pc = "put" /\ Retry(r) /\ UNCHANGED <<banned, now, draft>>
  BY DEF GetPutError
<1>2. StoreTypeOK' /\ LogGrows
  <2>1. CASE UNCHANGED <<log, seen>>
    BY <1>1, <2>1, HandlerFacts, StoreUnchanged DEF storeVars
  <2>2. CASE NewVersion(req[r].user, draft[r])
    BY <1>1, <2>2, AuditWritten
  <2> QED
    BY <2>1, <2>2 DEF GetPutError
<1> QED
  BY <1>1, <1>2, GetRetryOK

LEMMA GetPutOK ==
  ASSUME IInv, NEW r \in Requests, GetPut(r)
  PROVE  IInv'
<1>1. /\ req[r].pc = "put" /\ UNCHANGED <<banned, now, draft>>
      /\ NewVersion(req[r].user, draft[r]) /\ Report(r, draft[r])
  BY DEF GetPut
<1>2. StoreTypeOK' /\ LogGrows
  BY <1>1, AuditWritten
<1>3. TypeOK /\ draft[r] \in Opt(Signup)
  BY <1>1, HandlerFacts
<1>4. draft' = [draft EXCEPT ![r] = draft'[r]] /\ draft'[r] \in Opt(Signup)
  BY <1>1, <1>3 DEF TypeOK
<1> QED
  BY <1>1, <1>2, <1>3, <1>4, ReportType, GetStepOK

LEMMA GetReadOK ==
  ASSUME IInv, NEW r \in Requests, GetRead(r)
  PROVE  IInv'
<1> DEFINE s == Fetched(r)
           audited == Audited(s, req[r].token)
<1>1. req[r].pc = "read" /\ UNCHANGED storeVars
  BY DEF GetRead
<1>2. /\ TypeOK /\ StoreTypeOK /\ HandlerTypeOK(r)
      /\ req[r] \in Request /\ draft[r] \in Opt(Signup)
      /\ req[r].user \in Users /\ req[r].at \in Replicas /\ req[r].token \in Opt(Claims)
      /\ req[r].answer = None
  BY <1>1, HandlerFacts DEF HandlerTypeOK, Request
<1>3. s \in Signup \cup {Absent}
  BY <1>2, LatestType DEF Fetched
<1>4. StoreTypeOK' /\ LogGrows
  BY <1>1, <1>2, StoreUnchanged
<1>5. CASE Report(r, draft[r]) /\ UNCHANGED draft
  <2>1. draft' = [draft EXCEPT ![r] = draft'[r]] /\ draft'[r] \in Opt(Signup)
    BY <1>2, <1>5 DEF TypeOK
  <2> QED
    BY <1>1, <1>2, <1>4, <1>5, <2>1, ReportType, GetStepOK
<1>6. CASE s # Absent /\ draft' = [draft EXCEPT ![r] = audited]
  <2>1. s \in Signup
    BY <1>3, <1>6
  <2>2. audited \in Signup /\ (audited # s => req[r].token \in Claims)
    BY <1>2, <2>1, AuditedType
  <2>3. /\ draft' = [draft EXCEPT ![r] = draft'[r]]
        /\ draft'[r] \in Opt(Signup) /\ draft'[r] # None
    BY <1>2, <1>6, <2>2, NoneAssumption DEF TypeOK, Opt
  <2>4. CASE Report(r, s)
    <3>1. s \in Opt(Signup)
      BY <2>1 DEF Opt
    <3> QED
      BY <1>1, <1>2, <1>4, <2>3, <2>4, <3>1, ReportType, GetStepOK
  <2>5. CASE /\ audited # s
             /\ req' = [req EXCEPT ![r].pc = "put", ![r].base = seen[req[r].at][req[r].user]]
    <3> DEFINE v == seen[req[r].at][req[r].user]
    <3>1. v \in 1 .. Len(log[req[r].user]) /\ v \in Nat /\ log[req[r].user][v] # Absent
      BY <1>2, <1>6 DEF StoreTypeOK, Fetched, Cached
    <3>2. /\ req'[r] = [req[r] EXCEPT !.pc = "put", !.base = v]
          /\ req' = [req EXCEPT ![r] = req'[r]]
      BY <1>2, <2>5 DEF TypeOK
    <3> HIDE DEF v
    <3>3. /\ req'[r] \in Request /\ req'[r].pc = "put" /\ SameRequest(r)
          /\ req'[r].base = v /\ req'[r].answer = None
      BY <1>2, <3>1, <3>2 DEF Request, SameRequest
    <3> QED
      BY <1>1, <1>4, <2>2, <2>3, <2>5, <3>1, <3>2, <3>3, GetStepOK
  <2> QED
    BY <1>6, <2>4, <2>5 DEF GetRead
<1> QED
  BY <1>5, <1>6 DEF GetRead

-----------------------------------------------------------------------------
(* The invariant is inductive.                                             *)

LEMMA InactiveType ==
  ASSUME NEW t \in Claims
  PROVE  Inactive(t) \in Signup
<1> DEFINE new == NewSignup(t, None, <<FALSE, None>>)
           x == [new EXCEPT !.activated = 1]
<1>1. new \in Signup
  BY NewSignupType DEF Opt
<1> HIDE DEF new
<1>2. 1 \in Opt(Nat)
  BY DEF Opt
<1>3. x \in Signup
  BY <1>1, <1>2 DEF Signup
<1>4. Inactive(t) = [Deactivated(x) EXCEPT !.status = "deactivated"]
  BY DEF Inactive, new
<1> HIDE DEF x
<1>5. Deactivated(x) \in Signup
  BY <1>3, OperatorType
<1> QED
  BY <1>4, <1>5 DEF Signup

\* The store starts with one version of each UserSignup, in every cache.
StoreStarts ==
  /\ log = [u \in Users |-> log[u]]
  /\ \A u \in Users : \E s \in Signup \cup {Absent} : log[u] = <<s>>
  /\ seen = [p \in Replicas |-> [u \in Users |-> 1]]
  /\ banned = {} /\ now = 0

LEMMA FirstVersions == StoreStarts => StoreTypeOK
<1> SUFFICES ASSUME StoreStarts
             PROVE  StoreTypeOK
  OBVIOUS
<1>1. ASSUME NEW u \in Users
      PROVE  log[u] \in Seq(Signup \cup {Absent}) /\ Len(log[u]) = 1
  <2>1. PICK s \in Signup \cup {Absent} : log[u] = <<s>>
    BY DEF StoreStarts
  <2> QED
    BY <2>1
<1>2. seen = [p \in Replicas |-> [u \in Users |-> 1]] /\ banned = {} /\ now = 0
  BY DEF StoreStarts
<1>3. /\ seen \in [Replicas -> [Users -> Nat]]
      /\ \A p \in Replicas, u \in Users : seen[p][u] = 1
  BY <1>2
<1>4. ASSUME NEW u \in Users
      PROVE  Len(log[u]) > 0 /\ \A p \in Replicas : seen[p][u] \in 1 .. Len(log[u])
  <2>1. Len(log[u]) = 1 /\ 1 \in 1 .. 1
    BY <1>1
  <2> QED
    BY <1>3, <2>1
<1>5. log = [u \in Users |-> log[u]]
  BY DEF StoreStarts
<1>6. log \in [Users -> Seq(Signup \cup {Absent})]
  BY <1>1, <1>5
<1> QED
  BY <1>2, <1>3, <1>4, <1>6 DEF StoreTypeOK

LEMMA InitOK == Init => IInv
<1> SUFFICES ASSUME Init
             PROVE  IInv
  OBVIOUS
<1>1. \A u \in Users : \E s \in Signup \cup {Absent} : log[u] = <<s>>
  BY InactiveType DEF Init
<1>2. log = [u \in Users |-> log[u]]
  BY DEF Init
<1>3. StoreTypeOK
  BY <1>1, <1>2, FirstVersions DEF Init, StoreStarts
<1>4. Idle \in Request /\ Idle.pc = "idle" /\ Idle.kind = None
  BY DEF Idle, Request, Opt
<1>5. /\ \A r \in Requests : req[r] = Idle
      /\ req \in [Requests -> Request] /\ draft \in [Requests -> Opt(Signup)]
  BY <1>4 DEF Init, Opt
<1>6. TypeOK
  BY <1>3, <1>4, <1>5 DEF TypeOK
<1>7. None # "signup"
  BY NoneAssumption
<1>8. \A r \in Requests : DecisionOK(r) /\ AnswerOK(r)
  BY <1>4, <1>5, <1>7 DEF DecisionOK, AnswerOK
<1> QED
  BY <1>6, <1>8, RequestsOK DEF IInv

LEMMA NextOK == IInv /\ [Next]_vars => IInv'
<1> SUFFICES ASSUME IInv, [Next]_vars
             PROVE  IInv'
  OBVIOUS
<1>1. ASSUME StoreTypeOK', LogGrows, UNCHANGED signupVars
      PROVE  IInv'
  <2>1. UNCHANGED <<req, draft>> /\ TypeOK
    BY <1>1 DEF signupVars, IInv
  <2>2. ASSUME NEW r \in Requests, req[r].pc # "idle"
        PROVE  HandlerTypeOK(r)'
    BY <1>1, <2>1, <2>2, HandlerStable DEF TypeOK, HandlerTypeOK, SameRequest
  <2>3. TypeOK'
    BY <1>1, <2>1, <2>2 DEF TypeOK
  <2>4. ASSUME NEW r \in Requests
        PROVE  DecisionOK(r)' /\ AnswerOK(r)'
    BY <1>1, <2>1, <2>3, RequestStable
  <2> QED
    BY <2>3, <2>4 DEF IInv, DecisionsHold, AnswerMeansWritten, DecisionOK, AnswerOK
<1>2. CASE UNCHANGED vars
  <2>1. UNCHANGED storeVars /\ UNCHANGED signupVars /\ StoreTypeOK
    BY <1>2 DEF vars, storeVars, signupVars, IInv, TypeOK
  <2> QED
    BY <1>1, <2>1, StoreUnchanged
<1>3. ASSUME NEW r \in Requests, Arrive(r)
      PROVE  IInv'
  <2>1. ASSUME NEW p \in Replicas, NEW u \in Users, NEW t \in Claims, SignupStart(r, p, u, t, None)
        PROVE  IInv'
    BY <2>1, SignupStartOK DEF Opt
  <2>2. ASSUME NEW p \in Replicas, NEW u \in Users, NEW t \in Opt(Claims), GetStart(r, p, u, t)
        PROVE  IInv'
    BY <2>2, GetStartOK
  <2> QED
    BY <1>3, <2>1, <2>2 DEF Arrive
<1>4. ASSUME NEW r \in Requests, Handle(r)
      PROVE  IInv'
  BY <1>4, SignupVerifyOK, SignupBuildOK, SignupWriteOK, SignupWriteErrorOK,
     GetReadOK, GetPutOK, GetConflictOK, GetPutErrorOK DEF Handle, SignupHandle
<1>5. CASE StoreNext /\ UNCHANGED signupVars
  BY <1>1, <1>5, StoreStepType DEF IInv, TypeOK
<1> QED
  BY <1>2, <1>3, <1>4, <1>5 DEF Next, Finished

\* Every version of a UserSignup is a UserSignup, and a handler writes over a version that
\* exists with a draft it has built or audited, whatever the caches, conflicts and
\* failures (pkg/signup/service/signup_service.go).
THEOREM TypeCorrect == Spec => []TypeOK
<1> QED
  BY InitOK, NextOK, PTL DEF Spec, IInv

\* A sign-up that was answered accepted or rejected is on record as such
\* (signup_service.go:349-361).
THEOREM AnswersAreWritten == Spec => []AnswerMeansWritten
<1> QED
  BY InitOK, NextOK, PTL DEF Spec, IInv

\* What a handler decided on still holds when it writes (signup_service.go:365-385).
THEOREM DecisionsAreKept == Spec => []DecisionsHold
<1> QED
  BY InitOK, NextOK, PTL DEF Spec, IInv

-----------------------------------------------------------------------------
(* What is overwritten.                                                    *)

\* A step of request q leaves the other requests where they are.
LEMMA OnlyOwnRequest ==
  ASSUME TypeOK, NEW q \in Requests, Arrive(q) \/ Handle(q), NEW r \in Requests, r # q
  PROVE  req'[r] = req[r]
<1>1. req \in [Requests -> Request]
  BY DEF TypeOK
<1>2. CASE Arrive(q)
  <2>1. PICK x : req' = [req EXCEPT ![q] = x]
    BY <1>2 DEF Arrive, SignupStart, GetStart, Start
  <2> QED
    BY <1>1, <2>1
<1>3. CASE Handle(q)
  <2>1. ASSUME NEW pc, Goto(q, pc)
        PROVE  req'[r] = req[r]
    BY <1>1, <2>1 DEF Goto
  <2>2. ASSUME NEW a, Answer(q, a)
        PROVE  req'[r] = req[r]
    BY <1>1, <2>2 DEF Answer
  <2>3. ASSUME NEW s, Report(q, s)
        PROVE  req'[r] = req[r]
    BY <2>2, <2>3 DEF Report
  <2>4. ASSUME Retry(q)
        PROVE  req'[r] = req[r]
    BY <1>1, <2>2, <2>4 DEF Retry
  <2>5. CASE SignupHandle(q, {})
    BY <1>1, <2>1, <2>2, <2>5 DEF SignupHandle, SignupVerify, SignupBuild, SignupWrite, SignupWriteError
  <2>6. CASE GetRead(q)
    BY <1>1, <2>3, <2>6 DEF GetRead
  <2>7. CASE GetPut(q) \/ GetConflict(q) \/ GetPutError(q)
    BY <2>3, <2>4, <2>7 DEF GetPut, GetConflict, GetPutError
  <2> QED
    BY <1>3, <2>5, <2>6, <2>7 DEF Handle
<1> QED
  BY <1>2, <1>3

\* Only the write of a sign-up takes its handler from the write to the end.
LEMMA OverwritesByWriting ==
  ASSUME TypeOK, [Next]_vars, NEW r \in Requests, Overwrites(r)
  PROVE  SignupWrite(r) \/ SignupWriteError(r)
<1>1. req[r].pc = "write" /\ req'[r] # req[r]
  BY DEF Overwrites
<1>2. req' # req
  BY <1>1
<1>3. PICK q \in Requests : Arrive(q) \/ Handle(q)
  BY <1>2 DEF Next, vars, signupVars, Finished
<1>4. q = r
  BY <1>1, <1>3, OnlyOwnRequest
<1>5. ~Arrive(r)
  BY <1>1 DEF Arrive, SignupStart, GetStart, MayStart
<1> QED
  BY <1>1, <1>3, <1>4, <1>5 DEF Handle, SignupHandle, SignupVerify, SignupBuild, GetRead, GetPut,
                                GetConflict, GetPutError

\* Signup overwrites only what is not rejected and what was reported to be deactivated,
\* and keeps the count of the activations (signup_service.go:365-385, 413-424).
THEOREM OverwritesAreRight == Spec => OthersLeftAlone
<1>1. ASSUME IInv, [Next]_vars, NEW r \in Requests, Overwrites(r)
      PROVE  LET u == req[r].user IN
               /\ "rejected" \notin Latest(u).states
               /\ Latest(u).status = "deactivated"
               /\ Latest(u)'.activated = Latest(u).activated
  <2> DEFINE u == req[r].user
  <2>1. /\ req[r].pc = "write" /\ log'[u] # log[u] /\ Latest(u) # Absent
        /\ TypeOK /\ StoreTypeOK /\ DecisionOK(r)
        /\ u \in Users /\ draft[r] \in Opt(Signup)
        /\ req[r] \in Request
    BY <1>1, HandlerFacts DEF Overwrites
  <2>2. SignupWrite(r) \/ SignupWriteError(r)
    BY <1>1, <2>1, OverwritesByWriting
  <2>3. /\ Writable(r) /\ NewVersion(u, draft[r])
        /\ UNCHANGED <<banned, now>>
    BY <2>1, <2>2 DEF SignupWrite, SignupWriteError
  <2>4. Base(r) # Absent /\ Base(r) = Latest(u)
    BY <2>1, <2>3 DEF Writable, IsCurrent, Base, Latest
  <2>5. /\ "rejected" \notin Latest(u).states
        /\ Latest(u).status = "deactivated"
        /\ draft[r].activated = Latest(u).activated
    BY <2>1, <2>4 DEF DecisionOK, MaySignUp
  <2>6. Len(log'[u]) = Len(log[u]) + 1 /\ log'[u][Len(log[u]) + 1] = draft[r]
    BY <1>1, <2>1, <2>3, DraftWritten, HostStoreAssumption DEF StoreTypeOK
  <2>7. req'[r].user = u
    <3>1. PICK a : Answer(r, a)
      BY <2>2 DEF SignupWrite, SignupWriteError
    <3> QED
      BY <2>1, <3>1 DEF Answer, TypeOK, Request
  <2>8. Latest(u)' = draft[r]
    BY <2>6, <2>7 DEF Latest
  <2> QED
    BY <2>5, <2>8
<1>2. IInv /\ [Next]_vars =>
        [\A r \in Requests : Overwrites(r) =>
           LET u == req[r].user IN
             /\ "rejected" \notin Latest(u).states
             /\ Latest(u).status = "deactivated"
             /\ Latest(u)'.activated = Latest(u).activated]_vars
  BY <1>1
<1> QED
  BY <1>2, InitOK, NextOK, PTL DEF Spec, OthersLeftAlone

-----------------------------------------------------------------------------
(* What GetSignup tells of, where no UserSignup is deleted: the one that a  *)
(* handler holds was there, and the next try finds it or a later version.  *)

\* A step only adds UserSignups, and moves the caches forward.
Advance ==
  \A u \in Users : /\ log'[u] = log[u] \/ \E s \in Signup : log'[u] = Append(log[u], s)
                   /\ \A p \in Replicas : seen'[p][u] >= seen[p][u]

\* Only the first version says that there is none.
AbsentFirst == \A u \in Users : \A i \in 2 .. Len(log[u]) : log[u][i] # Absent

Told == {"pending", "incomplete", "active", "banned", "rejected"}

\* What a handler of GetSignup holds, and what it has told.
AuditOK(r) ==
  LET q == req[r] IN
    /\ q.pc = "idle" => draft[r] = None
    /\ q.pc \in {"read", "put"} /\ draft[r] # None => Fetched(r) # Absent
    /\ q.pc = "put" => draft[r] = Audited(Base(r), q.token)
    /\ q.pc = "done" /\ q.kind = "get" /\ q.answer \in Told =>
         /\ draft[r] \in Versions(q.user)
         /\ q.token # None => draft[r].claims = q.token /\ draft[r].emailHash = q.token

AuditInv == IInv /\ AbsentFirst /\ \A r \in Requests : AuditOK(r)

LEMMA WriteAdvances ==
  ASSUME StoreTypeOK, NEW u \in Users, NEW s \in Signup, NewVersion(u, s)
  PROVE  Advance
<1>1. log'[u] = Append(log[u], s) /\ \A v \in Users \ {u} : log'[v] = log[v]
  BY DEF NewVersion, StoreTypeOK
<1>2. ASSUME NEW p \in Replicas, NEW v \in Users
      PROVE  seen'[p][v] >= seen[p][v]
  BY DEF NewVersion, StoreTypeOK
<1> QED
  BY <1>1, <1>2 DEF Advance

LEMMA QuietAdvances ==
  ASSUME StoreTypeOK, UNCHANGED <<log, seen>>
  PROVE  Advance
BY DEF Advance, StoreTypeOK

LEMMA StoreAdvances ==
  ASSUME StoreTypeOK, StoreNext, "delete" \notin External
  PROVE  Advance
<1>1. ASSUME NEW u \in Users, NEW s \in Signup, OperatorWrites(u, s)
      PROVE  Advance
  BY <1>1, WriteAdvances DEF OperatorWrites
<1>2. ASSUME NEW p \in Replicas, NEW u \in Users, InformerSync(p, u)
      PROVE  Advance
  <2>1. UNCHANGED log /\ \A q \in Replicas, v \in Users : seen'[q][v] >= seen[q][v]
    BY <1>2 DEF InformerSync, StoreTypeOK
  <2> QED
    BY <2>1 DEF Advance
<1>3. \A u \in Users : Latest(u) # Absent => Latest(u) \in Signup
  BY LatestType
<1> QED
  BY <1>1, <1>2, <1>3, OperatorType, QuietAdvances
     DEF StoreNext, Tick, BanPhone, BanUser, OperatorApproves, OperatorDeactivates,
         OperatorReports, AdminApproves, OperatorDeletes

LEMMA NextAdvances ==
  ASSUME IInv, [Next]_vars, "delete" \notin External
  PROVE  Advance
<1>1. StoreTypeOK
  BY DEF IInv, TypeOK
<1>2. ASSUME NEW r \in Requests, Handle(r), ~UNCHANGED <<log, seen>>
      PROVE  Advance
  <2>1. CASE SignupWrite(r) \/ SignupWriteError(r)
    <3>1. /\ req[r].pc = "write" /\ Writable(r) /\ NewVersion(req[r].user, draft[r])
          /\ UNCHANGED <<banned, now>> /\ req[r].user \in Users
      BY <1>2, <2>1, HandlerFacts DEF SignupWrite, SignupWriteError
    <3> QED
      BY <1>1, <3>1, DraftWritten, WriteAdvances
  <2>2. CASE GetPut(r) \/ GetPutError(r)
    <3>1. /\ req[r].pc = "put" /\ NewVersion(req[r].user, draft[r])
          /\ UNCHANGED <<banned, now>> /\ req[r].user \in Users
      BY <1>2, <2>2, HandlerFacts DEF GetPut, GetPutError
    <3> QED
      BY <1>1, <3>1, AuditWritten, WriteAdvances
  <2> QED
    BY <1>2, <2>1, <2>2
       DEF Handle, SignupHandle, SignupVerify, SignupBuild, GetRead, GetConflict, storeVars
<1>3. ASSUME NEW r \in Requests, Arrive(r)
      PROVE  UNCHANGED <<log, seen>>
  BY <1>3 DEF Arrive, SignupStart, GetStart, storeVars
<1> QED
  BY <1>1, <1>2, <1>3, QuietAdvances, StoreAdvances DEF Next, Finished, vars

LEMMA AbsentFirstStep ==
  ASSUME StoreTypeOK, AbsentFirst, Advance
  PROVE  AbsentFirst'
<1>1. ASSUME NEW u \in Users, NEW i \in 2 .. Len(log'[u])
      PROVE  log'[u][i] # Absent
  <2>1. CASE log'[u] = log[u]
    BY <1>1, <2>1 DEF AbsentFirst
  <2>2. ASSUME NEW s \in Signup, log'[u] = Append(log[u], s)
        PROVE  log'[u][i] # Absent
    <3>1. log[u] \in Seq(Signup \cup {Absent}) /\ s # Absent
      BY HostStoreAssumption DEF StoreTypeOK
    <3>2. CASE i \in 2 .. Len(log[u])
      BY <2>2, <3>1, <3>2 DEF AbsentFirst
    <3>3. CASE i = Len(log[u]) + 1
      BY <2>2, <3>1, <3>3
    <3> QED
      BY <1>1, <2>2, <3>1, <3>2, <3>3
  <2> QED
    BY <2>1, <2>2 DEF Advance
<1> QED
  BY <1>1 DEF AbsentFirst

\* What a cache once had, it has in the same or a later version.
LEMMA FetchedStays ==
  ASSUME StoreTypeOK, StoreTypeOK', LogGrows, AbsentFirst, AbsentFirst', Advance, NEW u \in Users,
         NEW p \in Replicas, log[u][seen[p][u]] # Absent
  PROVE  log'[u][seen'[p][u]] # Absent
<1>1. /\ seen[p][u] \in 1 .. Len(log[u]) /\ seen'[p][u] \in 1 .. Len(log'[u])
      /\ seen'[p][u] >= seen[p][u] /\ seen[p][u] \in Nat /\ seen'[p][u] \in Nat
      /\ \A i \in 1 .. Len(log[u]) : log'[u][i] = log[u][i]
      /\ \A i \in 2 .. Len(log'[u]) : log'[u][i] # Absent
  BY DEF StoreTypeOK, LogGrows, Advance, AbsentFirst
<1>2. CASE seen'[p][u] >= 2
  <2>1. seen'[p][u] \in 2 .. Len(log'[u])
    BY <1>1, <1>2
  <2> QED
    BY <1>1, <2>1
<1>3. CASE seen'[p][u] = 1
  <2>1. seen[p][u] = 1
    BY <1>1, <1>3
  <2> QED
    BY <1>1, <1>3, <2>1
<1> QED
  BY <1>1, <1>2, <1>3

\* Steps that leave a request alone.
LEMMA AuditStable ==
  ASSUME AuditInv, IInv', LogGrows, AbsentFirst', Advance, NEW r \in Requests,
         req'[r] = req[r], draft'[r] = draft[r]
  PROVE  AuditOK(r)'
<1>1. AuditOK(r) /\ StoreTypeOK /\ StoreTypeOK' /\ AbsentFirst
  BY DEF AuditInv, IInv, TypeOK
<1>2. CASE req[r].pc = "idle"
  BY <1>1, <1>2 DEF AuditOK
<1>3. CASE req[r].pc # "idle"
  <2>1. /\ req[r].user \in Users /\ req[r].at \in Replicas /\ req[r].base \in 1 .. Len(log[req[r].user])
    BY <1>3, HandlerFacts DEF AuditInv, HandlerTypeOK
  <2>2. Base(r)' = Base(r)
    BY <2>1 DEF Base, LogGrows
  <2>3. Fetched(r) # Absent => Fetched(r)' # Absent
    BY <1>1, <2>1, FetchedStays DEF Fetched, Cached
  <2>4. ASSUME NEW s \in Versions(req[r].user)
        PROVE  s \in Versions(req[r].user)'
    BY <1>1, <2>1, VersionsGrow
  <2> QED
    BY <1>1, <1>3, <2>2, <2>3, <2>4 DEF AuditOK
<1> QED
  BY <1>2, <1>3

LEMMA ToldAnswers == None \notin Told /\ "none" \notin Told /\ "internal" \notin Told
BY NoneAssumption DEF Told, GetAnswers

LEMMA AuditedClaims ==
  ASSUME NEW s \in Signup, NEW t \in Claims
  PROVE  Audited(s, t).claims = t /\ Audited(s, t).emailHash = t /\ Audited(s, t).states = s.states
<1>1. t # None
  BY NoneAssumption
<1> QED
  BY <1>1 DEF Audited, Signup

LEMMA GetReadAudits ==
  ASSUME AuditInv, IInv', NEW r \in Requests, GetRead(r)
  PROVE  AuditOK(r)'
<1> DEFINE s == Fetched(r)
           audited == Audited(s, req[r].token)
<1>1. /\ req[r].pc = "read" /\ UNCHANGED storeVars /\ UNCHANGED <<log, seen>>
  BY DEF GetRead, storeVars
<1>2. /\ TypeOK /\ StoreTypeOK /\ HandlerTypeOK(r) /\ AuditOK(r)
      /\ req[r] \in Request /\ draft[r] \in Opt(Signup)
      /\ req[r].user \in Users /\ req[r].at \in Replicas /\ req[r].token \in Opt(Claims)
      /\ req[r].answer = None /\ req[r].kind = "get"
  BY <1>1, HandlerFacts DEF AuditInv, HandlerTypeOK, Request
<1>3. s \in Signup \cup {Absent}
  BY <1>2, LatestType DEF Fetched
<1>4. CASE s = Absent /\ Report(r, draft[r]) /\ UNCHANGED draft
  <2>1. draft[r] = None
    BY <1>1, <1>2, <1>4 DEF AuditOK
  <2>2. Answer(r, "none")
    BY <1>4, <2>1 DEF Report
  <2>3. req'[r].pc = "done" /\ req'[r].answer = "none"
    BY <1>2, <2>2, AnswerType DEF GetAnswers
  <2> QED
    BY <2>3, ToldAnswers DEF AuditOK
<1>5. CASE s # Absent /\ draft' = [draft EXCEPT ![r] = audited]
  <2>1. s \in Signup /\ draft'[r] = audited
    BY <1>2, <1>3, <1>5 DEF TypeOK
  <2>2. CASE audited = s /\ Report(r, s)
    <3>1. s \in Opt(Signup)
      BY <2>1 DEF Opt
    <3>2. req'[r].pc = "done" /\ SameRequest(r)
      BY <1>2, <2>2, <3>1, ReportType
    <3>3. /\ req'[r].user = req[r].user /\ req'[r].token = req[r].token
      BY <3>2 DEF SameRequest
    <3>4. req[r].token # None => s.claims = req[r].token /\ s.emailHash = req[r].token
      BY <1>2, <2>1, <2>2, AuditedClaims DEF Opt
    <3>5. ASSUME NEW u, u = req[r].user
          PROVE  s \in Versions(u)'
      <4>1. seen[req[r].at][u] \in DOMAIN log[u] /\ log[u][seen[req[r].at][u]] = s
        BY <1>2, <3>5 DEF Fetched, Cached, StoreTypeOK
      <4> QED
        BY <1>1, <1>5, <4>1 DEF Versions
    <3> QED
      BY <2>1, <2>2, <3>2, <3>3, <3>4, <3>5 DEF AuditOK
  <2>3. CASE /\ audited # s
             /\ req' = [req EXCEPT ![r].pc = "put", ![r].base = seen[req[r].at][req[r].user]]
    <3>1. /\ req'[r].pc = "put" /\ req'[r].base = seen[req[r].at][req[r].user]
          /\ req'[r].at = req[r].at /\ req'[r].user = req[r].user /\ req'[r].token = req[r].token
      BY <1>2, <2>3 DEF TypeOK, Request
    <3>2. Fetched(r)' = s
      BY <1>1, <3>1 DEF Fetched, Cached
    <3>3. Base(r)' = s
      BY <1>1, <3>1 DEF Fetched, Cached, Base
    <3> HIDE DEF s
    <3>4. draft'[r] = Audited(s, req[r].token)
      BY <2>1
    <3> QED
      BY <1>5, <3>1, <3>2, <3>3, <3>4 DEF AuditOK
  <2> QED
    BY <1>5, <2>2, <2>3 DEF GetRead
<1> QED
  BY <1>4, <1>5 DEF GetRead

LEMMA GetPutAudits ==
  ASSUME AuditInv, IInv', NEW r \in Requests, GetPut(r)
  PROVE  AuditOK(r)'
<1>1. /\ req[r].pc = "put" /\ NewVersion(req[r].user, draft[r]) /\ Report(r, draft[r])
      /\ UNCHANGED <<banned, now>> /\ UNCHANGED draft
  BY DEF GetPut
<1>2. /\ TypeOK /\ StoreTypeOK /\ HandlerTypeOK(r) /\ AuditOK(r)
      /\ req[r] \in Request /\ draft[r] \in Signup /\ Base(r) \in Signup
      /\ req[r].user \in Users /\ req[r].token \in Claims
  BY <1>1, HandlerFacts, AuditWritten DEF AuditInv, HandlerTypeOK
<1>3. draft[r] \in Opt(Signup)
  BY <1>2 DEF Opt
<1>4. req'[r].pc = "done" /\ SameRequest(r)
  BY <1>1, <1>2, <1>3, ReportType
<1>5. draft[r].claims = req[r].token /\ draft[r].emailHash = req[r].token
  BY <1>1, <1>2, AuditedClaims DEF AuditOK
<1>6. ASSUME NEW u \in Users, u = req[r].user
      PROVE  draft[r] \in Versions(u)'
  <2>1. log'[u] = Append(log[u], draft[r]) /\ log[u] \in Seq(Signup \cup {Absent})
        /\ draft[r] # Absent
    BY <1>1, <1>2, <1>6, NewVersionType, HostStoreAssumption DEF StoreTypeOK
  <2> QED
    BY <1>2, <2>1 DEF Versions
<1>7. req'[r].user = req[r].user /\ req'[r].token = req[r].token
  BY <1>4 DEF SameRequest
<1> QED
  BY <1>1, <1>2, <1>4, <1>5, <1>6, <1>7 DEF AuditOK

LEMMA GetRetryAudits ==
  ASSUME AuditInv, IInv', LogGrows, AbsentFirst', Advance, NEW r \in Requests,
         GetConflict(r) \/ GetPutError(r)
  PROVE  AuditOK(r)'
<1>1. req[r].pc = "put" /\ Retry(r) /\ UNCHANGED draft
  BY DEF GetConflict, GetPutError
<1>2. /\ TypeOK /\ StoreTypeOK /\ HandlerTypeOK(r) /\ AuditOK(r) /\ StoreTypeOK' /\ AbsentFirst
      /\ req[r] \in Request /\ req[r].user \in Users /\ req[r].at \in Replicas
  BY <1>1, HandlerFacts DEF AuditInv, HandlerTypeOK, IInv, TypeOK
<1>3. Fetched(r) # Absent
  BY <1>1, <1>2 DEF AuditOK, HandlerTypeOK
<1>4. req'[r].pc \in {"read", "done"} /\ SameRequest(r)
  BY <1>1, <1>2, RetryType
<1>5. req'[r].pc = "done" => req'[r].answer = "internal"
  <2>1. CASE req[r].tries + 1 < MaxTries
    BY <1>1, <1>2, <2>1 DEF Retry, TypeOK, Request
  <2>2. CASE ~(req[r].tries + 1 < MaxTries)
    BY <1>1, <1>2, <2>2, AnswerType DEF Retry, GetAnswers
  <2> QED
    BY <2>1, <2>2
<1>6. ASSUME NEW u \in Users, NEW p \in Replicas, u = req[r].user, p = req[r].at
      PROVE  log'[u][seen'[p][u]] # Absent
  BY <1>2, <1>3, <1>6, FetchedStays DEF Fetched, Cached
<1>7. Fetched(r)' # Absent
  BY <1>2, <1>4, <1>6 DEF Fetched, Cached, SameRequest
<1> QED
  BY <1>4, <1>5, <1>7, ToldAnswers DEF AuditOK

LEMMA SignupAudits ==
  ASSUME AuditInv, NEW r \in Requests, SignupHandle(r, {})
  PROVE  AuditOK(r)'
<1>1. /\ req[r].pc \in {"verify", "build", "write"} /\ TypeOK /\ HandlerTypeOK(r)
      /\ req[r] \in Request
  BY HandlerFacts
     DEF SignupHandle, SignupVerify, SignupBuild, SignupWrite, SignupWriteError, AuditInv
<1>2. req'[r].pc \in {"build", "write", "done"} /\ req'[r].kind = req[r].kind
  BY <1>1 DEF SignupHandle, SignupVerify, SignupBuild, SignupWrite, SignupWriteError, Answer, Goto,
              TypeOK, Request
<1>3. req[r].kind = "signup"
  BY <1>1 DEF HandlerTypeOK
<1> QED
  BY <1>2, <1>3 DEF AuditOK

LEMMA ArriveAudits ==
  ASSUME AuditInv, NEW r \in Requests, Arrive(r)
  PROVE  AuditOK(r)'
<1>1. AuditOK(r) /\ TypeOK
  BY DEF AuditInv, IInv
<1>2. ASSUME NEW kind, NEW p, NEW u, NEW t, NEW e, NEW pc, NEW a, Start(r, kind, p, u, t, e, pc, a)
      PROVE  req'[r].pc = pc /\ req'[r].kind = kind
  <2> DEFINE d == [Idle EXCEPT !.pc = pc, !.kind = kind, !.at = p, !.user = u, !.token = t,
                               !.event = e, !.base = seen[p][u], !.answer = a]
  <2>1. req'[r] = d
    BY <1>1, <1>2 DEF Start, TypeOK
  <2>2. d.pc = pc /\ d.kind = kind
    BY DEF Idle
  <2> HIDE DEF d
  <2> QED
    BY <2>1, <2>2
<1>3. ASSUME NEW p \in Replicas, NEW u \in Users, NEW t \in Claims, SignupStart(r, p, u, t, None)
      PROVE  AuditOK(r)'
  <2>1. PICK pc \in {"verify", "done"}, a \in {None, "rejected", "conflict"} :
          Start(r, "signup", p, u, t, None, pc, a)
    BY <1>3 DEF SignupStart
  <2>2. req'[r].pc = pc /\ req'[r].kind = "signup"
    BY <1>2, <2>1
  <2> QED
    BY <2>2 DEF AuditOK
<1>4. ASSUME NEW p \in Replicas, NEW u \in Users, NEW t \in Opt(Claims), GetStart(r, p, u, t)
      PROVE  AuditOK(r)'
  <2>1. Start(r, "get", p, u, t, None, "read", None) /\ req[r].pc = "idle" /\ UNCHANGED draft
    BY <1>4 DEF GetStart, MayStart
  <2>2. req'[r].pc = "read" /\ draft'[r] = None
    BY <1>1, <1>2, <2>1 DEF AuditOK
  <2> QED
    BY <2>2 DEF AuditOK
<1> QED
  BY <1>3, <1>4 DEF Arrive

LEMMA OnlyOwnDraft ==
  ASSUME TypeOK, NEW q \in Requests, Arrive(q) \/ Handle(q), NEW r \in Requests, r # q
  PROVE  draft'[r] = draft[r]
BY DEF TypeOK, Arrive, SignupStart, GetStart, Handle, SignupHandle, SignupVerify, SignupBuild, SignupWrite,
       SignupWriteError, GetRead, GetPut, GetConflict, GetPutError

LEMMA AuditNextOK ==
  ASSUME AuditInv, [Next]_vars, "delete" \notin External
  PROVE  AuditInv'
<1>1. IInv /\ IInv' /\ TypeOK /\ StoreTypeOK /\ Advance
  BY NextOK, NextAdvances DEF AuditInv, IInv, TypeOK
<1>2. LogGrows
  <2>1. ASSUME NEW u \in Users
        PROVE  /\ Len(log'[u]) >= Len(log[u])
               /\ \A i \in 1 .. Len(log[u]) : log'[u][i] = log[u][i]
    BY <1>1 DEF Advance, StoreTypeOK
  <2> QED
    BY <2>1 DEF LogGrows
<1>3. AbsentFirst'
  BY <1>1, AbsentFirstStep DEF AuditInv
<1>4. ASSUME NEW r \in Requests, req'[r] = req[r], draft'[r] = draft[r]
      PROVE  AuditOK(r)'
  BY <1>1, <1>2, <1>3, <1>4, AuditStable
<1>5. CASE UNCHANGED <<req, draft>>
  BY <1>1, <1>3, <1>4, <1>5 DEF AuditInv
<1>6. ASSUME NEW q \in Requests, Arrive(q) \/ Handle(q)
      PROVE  AuditInv'
  <2>1. AuditOK(q)'
    BY <1>1, <1>2, <1>3, <1>6, ArriveAudits, SignupAudits, GetReadAudits, GetPutAudits, GetRetryAudits
       DEF Handle
  <2>2. ASSUME NEW r \in Requests, r # q
        PROVE  AuditOK(r)'
    BY <1>1, <1>4, <1>6, <2>2, OnlyOwnRequest, OnlyOwnDraft
  <2> QED
    BY <1>1, <1>3, <2>1, <2>2 DEF AuditInv
<1> QED
  BY <1>5, <1>6 DEF Next, Finished, vars, signupVars

LEMMA AuditInitOK == Init => AuditInv
<1> SUFFICES ASSUME Init
             PROVE  AuditInv
  OBVIOUS
<1>1. IInv
  BY InitOK
<1>2. \A u \in Users : Len(log[u]) = 1
  BY DEF Init
<1>3. AbsentFirst
  BY <1>2 DEF AbsentFirst
<1> QED
  BY <1>1, <1>3 DEF Init, AuditInv, AuditOK, Idle

\* A UserSignup that GetSignup tells of was stored just like that, with the claims of the
\* token, unless UserSignups are deleted (signup_service.go:439-466).
THEOREM AuditsTakeEffect ==
  ASSUME "delete" \notin External
  PROVE  Spec => []AuditTakesEffect
<1>1. AuditInv /\ [Next]_vars => AuditInv'
  BY AuditNextOK
<1>2. ASSUME AuditInv
      PROVE  AuditTakesEffect
  <2>1. ASSUME NEW r \in Requests, req[r].kind = "get", req[r].answer \in Told
        PROVE  /\ draft[r] \in Versions(req[r].user)
               /\ req[r].token # None => /\ draft[r].claims = req[r].token
                                         /\ draft[r].emailHash = req[r].token
    <3>1. req[r].pc = "done"
      BY <1>2, <2>1, ToldAnswers, HandlerFacts, NoneAssumption
         DEF AuditInv, HandlerTypeOK, IInv, TypeOK, Idle
    <3> QED
      BY <1>2, <2>1, <3>1 DEF AuditInv, AuditOK
  <2> QED
    BY <2>1 DEF AuditTakesEffect, Told
<1> QED
  BY <1>1, <1>2, AuditInitOK, PTL DEF Spec

-----------------------------------------------------------------------------
(* Rejections last, where no UserSignup is deleted.                        *)

RejectedIn(s) == s # Absent /\ "rejected" \in s.states

\* Who was rejected once is rejected in the latest version.
RejectionsLast ==
  \A u \in Users : (\E s \in Versions(u) : "rejected" \in s.states) => RejectedIn(Latest(u))

\* A write that keeps the rejection of the version it is based on.
LEMMA WriteKeepsRejections ==
  ASSUME StoreTypeOK, RejectionsLast, NEW u \in Users, NEW s \in Signup, NewVersion(u, s),
         RejectedIn(Latest(u)) => "rejected" \in s.states
  PROVE  RejectionsLast'
<1>1. /\ log'[u] = Append(log[u], s) /\ log[u] \in Seq(Signup \cup {Absent}) /\ s # Absent
      /\ \A v \in Users \ {u} : log'[v] = log[v]
  BY HostStoreAssumption DEF NewVersion, StoreTypeOK
<1>2. Latest(u)' = s
  BY <1>1 DEF Latest
<1>3. Versions(u)' = (Versions(u) \cup {s})
  BY <1>1 DEF Versions
<1>4. (\E x \in Versions(u)' : "rejected" \in x.states) => RejectedIn(Latest(u))'
  BY <1>1, <1>2, <1>3 DEF RejectionsLast, RejectedIn
<1>5. \A v \in Users \ {u} : Versions(v)' = Versions(v) /\ Latest(v)' = Latest(v)
  BY <1>1 DEF Versions, Latest
<1>6. \A v \in Users \ {u} :
        (\E x \in Versions(v)' : "rejected" \in x.states) => RejectedIn(Latest(v))'
  BY <1>5 DEF RejectionsLast, RejectedIn
<1> QED
  BY <1>4, <1>6 DEF RejectionsLast

LEMMA StoreKeepsRejections ==
  ASSUME StoreTypeOK, RejectionsLast, StoreNext, "delete" \notin External
  PROVE  RejectionsLast'
<1>1. CASE UNCHANGED log
  BY <1>1 DEF RejectionsLast, RejectedIn, Versions, Latest
<1>2. ASSUME NEW u \in Users, NEW s \in Signup, OperatorWrites(u, s),
             RejectedIn(Latest(u)) => "rejected" \in s.states
      PROVE  RejectionsLast'
  BY <1>2, WriteKeepsRejections DEF OperatorWrites
<1>3. ASSUME NEW s \in Signup, NEW u
      PROVE  /\ Approved(s).states = s.states
             /\ "rejected" \in s.states => /\ "rejected" \in Deactivated(s).states
                                           /\ "rejected" \in ApprovedManually(s).states
             /\ \A c \in Conditions(u, s) : Reported(s, c).states = s.states
  BY DEF Approved, Deactivated, ApprovedManually, SetApprovedManually, Reported, Signup
<1>4. \A u \in Users : Latest(u) # Absent => Latest(u) \in Signup
  BY LatestType
<1>5. ASSUME NEW u \in Users, OperatorApproves(u)
      PROVE  RejectionsLast'
  BY <1>2, <1>3, <1>4, <1>5, OperatorType DEF OperatorApproves, RejectedIn
<1>6. ASSUME NEW u \in Users, OperatorDeactivates(u)
      PROVE  RejectionsLast'
  BY <1>2, <1>3, <1>4, <1>6, OperatorType DEF OperatorDeactivates, RejectedIn
<1>7. ASSUME NEW u \in Users, OperatorReports(u)
      PROVE  RejectionsLast'
  BY <1>2, <1>3, <1>4, <1>7, OperatorType DEF OperatorReports, RejectedIn
<1>8. ASSUME NEW u \in Users, AdminApproves(u)
      PROVE  RejectionsLast'
  BY <1>2, <1>3, <1>4, <1>8, OperatorType DEF AdminApproves, RejectedIn
<1> QED
  BY <1>1, <1>5, <1>6, <1>7, <1>8
     DEF StoreNext, InformerSync, Tick, BanPhone, BanUser, OperatorDeletes

LEMMA HandleKeepsRejections ==
  ASSUME AuditInv, RejectionsLast, NEW r \in Requests, Handle(r)
  PROVE  RejectionsLast'
<1>1. StoreTypeOK /\ IInv
  BY DEF AuditInv, IInv, TypeOK
<1>2. CASE UNCHANGED log
  BY <1>2 DEF RejectionsLast, RejectedIn, Versions, Latest
<1>3. CASE SignupWrite(r) \/ SignupWriteError(r)
  <2>1. CASE Writable(r) /\ NewVersion(req[r].user, draft[r]) /\ UNCHANGED <<banned, now>>
    <3>1. /\ req[r].pc = "write" /\ draft[r] \in Signup /\ req[r].user \in Users /\ DecisionOK(r)
      BY <1>1, <1>3, <2>1, HandlerFacts, DraftWritten DEF SignupWrite, SignupWriteError
    <3>2. ~RejectedIn(Latest(req[r].user))
      BY <2>1, <3>1 DEF Writable, IsCurrent, DecisionOK, MaySignUp, RejectedIn, Base, Latest
    <3> QED
      BY <1>1, <2>1, <3>1, <3>2, WriteKeepsRejections
  <2> QED
    BY <1>2, <1>3, <2>1 DEF SignupWrite, SignupWriteError
<1>4. CASE GetPut(r) \/ GetPutError(r)
  <2>1. CASE /\ IsCurrent(req[r].user, req[r].base) /\ NewVersion(req[r].user, draft[r])
             /\ UNCHANGED <<banned, now>>
    <3>1. req[r].pc = "put"
      BY <1>4 DEF GetPut, GetPutError
    <3>2. /\ draft[r] \in Signup /\ req[r].user \in Users /\ AuditOK(r) /\ Base(r) \in Signup
          /\ req[r].token \in Claims
      BY <1>1, <2>1, <3>1, HandlerFacts, AuditWritten DEF AuditInv, HandlerTypeOK
    <3>3. draft[r].states = Latest(req[r].user).states
      <4>1. Base(r) = Latest(req[r].user)
        BY <2>1 DEF IsCurrent, Base, Latest
      <4> QED
        BY <3>1, <3>2, <4>1, AuditedClaims DEF AuditOK
    <3> QED
      BY <1>1, <2>1, <3>2, <3>3, WriteKeepsRejections DEF RejectedIn
  <2> QED
    BY <1>2, <1>4, <2>1 DEF GetPut, GetPutError
<1> QED
  BY <1>2, <1>3, <1>4
     DEF Handle, SignupHandle, SignupVerify, SignupBuild, GetRead, GetConflict, storeVars

LEMMA RejectionsNextOK ==
  ASSUME AuditInv, RejectionsLast, [Next]_vars, "delete" \notin External
  PROVE  RejectionsLast'
<1>1. CASE UNCHANGED log
  BY <1>1 DEF RejectionsLast, RejectedIn, Versions, Latest
<1>2. CASE \E r \in Requests : Arrive(r)
  BY <1>1, <1>2 DEF Arrive, SignupStart, GetStart, storeVars
<1>3. CASE \E r \in Requests : Handle(r)
  BY <1>3, HandleKeepsRejections
<1>4. CASE StoreNext
  BY <1>4, StoreKeepsRejections DEF AuditInv, IInv, TypeOK
<1> QED
  BY <1>1, <1>2, <1>3, <1>4 DEF Next, Finished, vars

LEMMA RejectionsInitOK == Init => RejectionsLast
<1> SUFFICES ASSUME Init
             PROVE  RejectionsLast
  OBVIOUS
<1>1. \A u \in Users : Versions(u) \subseteq {Latest(u)} /\ Absent \notin Versions(u)
  BY DEF Init, Versions, Latest
<1> QED
  BY <1>1 DEF RejectionsLast, RejectedIn

\* The account verifier is not called again for a user who was told of the rejection, by a
\* replica whose cache has caught up, when UserSignups are not deleted
\* (signup_service.go:350 and 366).
THEOREM VerifierIsNotAskedAgain ==
  ASSUME "delete" \notin External
  PROVE  Spec => VerifierNotAskedAgain
<1> DEFINE RejectInv == AuditInv /\ RejectionsLast
<1>1. Init => RejectInv
  BY AuditInitOK, RejectionsInitOK
<1>2. RejectInv /\ [Next]_vars => RejectInv'
  BY AuditNextOK, RejectionsNextOK DEF AuditInv
<1>3. ASSUME RejectInv, [Next]_vars, NEW r \in Requests, req[r].pc = "idle", req'[r].pc = "verify",
             NEW q \in Requests, req[q].kind = "signup", req[q].user = req'[r].user,
             req[q].answer = "rejected",
             seen[req'[r].at][req'[r].user] = Len(log[req'[r].user])
      PROVE  FALSE
  <2>1. IInv /\ TypeOK /\ AnswerMeansWritten
    BY <1>3 DEF AuditInv, IInv
  <2>2. Arrive(r)
    <3>1. req' # req
      BY <1>3
    <3>2. PICK x \in Requests : Arrive(x) \/ Handle(x)
      BY <1>3, <3>1 DEF Next, vars, signupVars, Finished
    <3>3. x = r
      BY <1>3, <2>1, <3>2, OnlyOwnRequest
    <3> QED
      BY <1>3, <3>2, <3>3
         DEF Handle, SignupHandle, SignupVerify, SignupBuild, SignupWrite, SignupWriteError,
             GetRead, GetPut, GetConflict, GetPutError
  <2>3. ASSUME NEW kind, NEW p, NEW u, NEW t, NEW e, NEW pc, NEW a, Start(r, kind, p, u, t, e, pc, a)
        PROVE  req'[r].pc = pc /\ req'[r].user = u /\ req'[r].at = p
    <3> DEFINE d == [Idle EXCEPT !.pc = pc, !.kind = kind, !.at = p, !.user = u, !.token = t,
                                 !.event = e, !.base = seen[p][u], !.answer = a]
    <3>1. req'[r] = d
      BY <2>1, <2>3 DEF Start, TypeOK
    <3>2. d.pc = pc /\ d.user = u /\ d.at = p
      BY DEF Idle
    <3> HIDE DEF d
    <3> QED
      BY <3>1, <3>2
  <2>4. PICK p \in Replicas, u \in Users : \E t \in Claims : SignupStart(r, p, u, t, None)
    <3>1. ASSUME NEW p \in Replicas, NEW u \in Users, NEW t \in Opt(Claims), GetStart(r, p, u, t)
          PROVE  FALSE
      BY <1>3, <2>3, <3>1 DEF GetStart
    <3> QED
      BY <2>2, <3>1 DEF Arrive
  <2>5. req'[r].user = u /\ req'[r].at = p /\ MaySignUp(Cached(p, u))
    BY <1>3, <2>3, <2>4 DEF SignupStart
  <2>6. Cached(p, u) = Latest(u)
    BY <1>3, <2>5 DEF Cached, Latest
  <2>7. RejectedIn(Latest(u))
    BY <1>3, <2>1, <2>5 DEF AnswerMeansWritten, RejectionsLast
  <2> QED
    BY <2>5, <2>6, <2>7 DEF MaySignUp, RejectedIn
<1>4. RejectInv /\ [Next]_vars =>
        [\A r \in Requests : req[r].pc = "idle" /\ req'[r].pc = "verify" =>
           LET u == req'[r].user IN
             seen[req'[r].at][u] = Len(log[u]) =>
               \A q \in Requests : req[q].kind = "signup" /\ req[q].user = u =>
                 req[q].answer # "rejected"]_vars
  BY <1>3
<1> HIDE DEF RejectInv
<1> QED
  BY <1>1, <1>2, <1>4, PTL DEF Spec, VerifierNotAskedAgain

-----------------------------------------------------------------------------
(* The invariant: that of SignupService for the sign-ups an activation may *)
(* become, and for the activations the versions they hold.                 *)

Attends(a) ==
  \E i \in act[a].base + 1 .. Len(log[act[a].user]) :
    LET s == log[act[a].user][i] IN
      /\ s # Absent
      /\ s.event = act[a].code
      /\ "deactivated" \notin s.states
      /\ act[a].code \notin VerifyingEvents => "approved" \in s.states

\* An activation that has no error approves the user.
ActivationOK(a) == LET q == act[a] IN
  /\ q.pc # "idle" => /\ q.user \in Users /\ q.at \in Replicas
                      /\ q.base \in 1 .. Len(log[q.user])
  /\ q.pc # "done" => q.answer = None
  /\ q.pc = "put" => /\ q.copy \in 1 .. Len(log[q.user]) /\ log[q.user][q.copy] # Absent
                     /\ q.approve => q.code \in Events
                     /\ q.error = None => q.approve
  /\ q.answer = "ok" => q.pc = "done" /\ Attends(a)

ActivationInv ==
  /\ IInv
  /\ act \in [Activations -> Activation]
  /\ \A a \in Activations : ActivationOK(a)

SameActivation(a) ==
  /\ act'[a].user = act[a].user /\ act'[a].at = act[a].at /\ act'[a].code = act[a].code
  /\ act'[a].base = act[a].base

LEMMA AttendsStable ==
  ASSUME StoreTypeOK, LogGrows, NEW a \in Activations, Attends(a), SameActivation(a),
         act[a].user \in Users, act[a].base \in Nat
  PROVE  Attends(a)'
<1> DEFINE u == act[a].user
           m == Len(log[u])
           n == Len(log'[u])
<1>1. n >= m /\ \A i \in 1 .. m : log'[u][i] = log[u][i]
  BY DEF LogGrows
<1>2. m \in Nat /\ n \in Nat
  BY DEF LogGrows, StoreTypeOK
<1> HIDE DEF m, n
<1>3. \A i \in act[a].base + 1 .. m : i \in act[a].base + 1 .. n /\ log'[u][i] = log[u][i]
  BY <1>1, <1>2
<1> QED
  BY <1>3 DEF Attends, SameActivation, m, n

\* Steps that leave an activation alone leave it all right.
LEMMA ActivationStable ==
  ASSUME ActivationInv, LogGrows, NEW a \in Activations, act'[a] = act[a]
  PROVE  ActivationOK(a)'
<1>1. ActivationOK(a) /\ act[a] \in Activation /\ StoreTypeOK
  BY DEF ActivationInv, IInv, TypeOK
<1>2. CASE act[a].pc = "idle"
  BY <1>1, <1>2 DEF ActivationOK
<1>3. CASE act[a].pc # "idle"
  <2>1. act[a].user \in Users /\ act[a].base \in Nat /\ SameActivation(a)
    BY <1>1, <1>3 DEF ActivationOK, Activation, SameActivation
  <2>2. Attends(a) => Attends(a)'
    BY <1>1, <2>1, AttendsStable
  <2>3. Len(log'[act[a].user]) >= Len(log[act[a].user])
        /\ \A i \in 1 .. Len(log[act[a].user]) : /\ log'[act[a].user][i] = log[act[a].user][i]
                                               /\ i \in 1 .. Len(log'[act[a].user])
    BY <1>1, <2>1 DEF LogGrows, StoreTypeOK
  <2> QED
    BY <1>1, <2>1, <2>2, <2>3 DEF ActivationOK
<1> QED
  BY <1>2, <1>3

LEMMA ActivationStepOK ==
  ASSUME ActivationInv, IInv', LogGrows, NEW a \in Activations, act' = [act EXCEPT ![a] = act'[a]],
         act'[a] \in Activation, ActivationOK(a)'
  PROVE  ActivationInv'
<1>1. act' \in [Activations -> Activation]
  BY DEF ActivationInv
<1>2. ASSUME NEW b \in Activations
      PROVE  ActivationOK(b)'
  <2>1. b # a => act'[b] = act[b]
    BY DEF ActivationInv
  <2> QED
    BY <2>1, ActivationStable
<1> QED
  BY <1>1, <1>2 DEF ActivationInv

\* The invariant of the sign-ups, when they are left alone.
LEMMA SignupsStable ==
  ASSUME IInv, StoreTypeOK', LogGrows, UNCHANGED signupVars
  PROVE  IInv'
<1>1. UNCHANGED <<req, draft>> /\ TypeOK
  BY DEF signupVars, IInv
<1>2. ASSUME NEW r \in Requests, req[r].pc # "idle"
      PROVE  HandlerTypeOK(r)'
  BY <1>1, <1>2, HandlerStable DEF TypeOK, HandlerTypeOK, SameRequest
<1>3. TypeOK'
  BY <1>1, <1>2 DEF TypeOK
<1>4. ASSUME NEW r \in Requests
      PROVE  DecisionOK(r)' /\ AnswerOK(r)'
  BY <1>1, <1>3, RequestStable
<1> QED
  BY <1>3, <1>4 DEF IInv, DecisionsHold, AnswerMeansWritten, DecisionOK, AnswerOK

-----------------------------------------------------------------------------
(* One lemma per action: it keeps the invariant.                           *)

LEMMA ActivateStartOK ==
  ASSUME ActivationInv, NEW a \in Activations, NEW p \in Replicas, NEW u \in Users,
         NEW c \in Opt(EventCodes), ActivateStart(a, p, u, c)
  PROVE  ActivationInv'
<1>1. IInv /\ StoreTypeOK
  BY DEF ActivationInv, IInv, TypeOK
<1>2. PICK pc \in {"signUp", "try", "done"}, n \in Nat, answer \in Opt(ActivationAnswers) :
        /\ act' = [act EXCEPT ![a] = [NoActivation EXCEPT !.pc = pc, !.at = p, !.user = u, !.code = c,
                                                          !.base = seen[p][u], !.attempts = n,
                                                          !.answer = answer]]
        /\ answer # "ok" /\ (pc # "done" => answer = None)
  <2>1. Cached(p, u) # Absent => Attempts(Cached(p, u)) \in Nat
    BY <1>1, LatestType DEF Attempts, Signup, Opt
  <2> QED
    BY <2>1, ActivationNoneAssumption DEF ActivateStart, ActivationAnswers, Opt
<1>3. /\ act' = [act EXCEPT ![a] = act'[a]]
      /\ act'[a] = [pc |-> pc, at |-> p, user |-> u, code |-> c, base |-> seen[p][u], copy |-> 0,
                    approve |-> FALSE, attempts |-> n, error |-> None, tries |-> 0,
                    answer |-> answer]
  BY <1>2 DEF ActivationInv, NoActivation
<1>4. seen[p][u] \in 1 .. Len(log[u]) /\ seen[p][u] \in Nat
  BY <1>1 DEF StoreTypeOK
<1>5. act'[a] \in Activation
  BY <1>3, <1>4 DEF Activation, Opt
<1>6. UNCHANGED storeVars /\ UNCHANGED signupVars
  BY DEF ActivateStart
<1>7. ActivationOK(a)'
  BY <1>2, <1>3, <1>4, <1>6 DEF ActivationOK, storeVars
<1>8. StoreTypeOK' /\ LogGrows
  BY <1>1, <1>6, StoreUnchanged
<1> QED
  BY <1>1, <1>3, <1>5, <1>6, <1>7, <1>8, SignupsStable, ActivationStepOK

\* An answered activation.
LEMMA AnsweredType ==
  ASSUME ActivationInv, NEW a \in Activations, NEW e \in ActivationAnswers, act'[a] = Answered(a, e)
  PROVE  act'[a] \in Activation /\ SameActivation(a) /\ act'[a].pc = "done" /\ act'[a].answer = e
<1>1. ASSUME NEW q \in Activation,
             NEW d, d = [q EXCEPT !.pc = "done", !.copy = 0, !.attempts = 0, !.tries = 0, !.answer = e]
      PROVE  /\ d \in Activation /\ d.pc = "done" /\ d.answer = e
             /\ d.user = q.user /\ d.at = q.at /\ d.code = q.code /\ d.base = q.base
  <2>1. e \in Opt(ActivationAnswers)
    BY DEF Opt
  <2> DEFINE x == [q EXCEPT !.pc = "done", !.copy = 0, !.attempts = 0]
  <2>2. /\ x \in Activation /\ x.pc = "done" /\ x.user = q.user /\ x.at = q.at
        /\ x.code = q.code /\ x.base = q.base
    BY DEF Activation
  <2>3. d = [x EXCEPT !.tries = 0, !.answer = e]
    BY <1>1 DEF Activation
  <2> HIDE DEF x
  <2> QED
    BY <2>1, <2>2, <2>3 DEF Activation
<1>2. act[a] \in Activation
  BY DEF ActivationInv
<1> QED
  BY <1>1, <1>2 DEF SameActivation, Answered

\* Where a failed try leads.
LEMMA RetryActivation ==
  ASSUME ActivationInv, NEW a \in Activations, ActivateRetry(a), act[a].answer = None
  PROVE  /\ act' = [act EXCEPT ![a] = act'[a]]
         /\ act'[a] \in Activation /\ SameActivation(a)
         /\ \/ act'[a].pc = "try" /\ act'[a].answer = None /\ act'[a].error = act[a].error
               /\ act'[a].attempts = act[a].attempts
            \/ /\ act'[a].pc = "done" /\ act'[a].answer \in {"internal", "invalid"}
               /\ act'[a].answer = "invalid" => act[a].error = "invalid"
<1>1. act[a] \in Activation
  BY DEF ActivationInv
<1> DEFINE e == IF act[a].error = None THEN "internal" ELSE act[a].error
<1>2. e \in {"internal", "invalid"} /\ (e = "invalid" => act[a].error = "invalid")
  BY <1>1 DEF Activation, Opt
<1>3. CASE act[a].tries + 1 < MaxTries
  <2>1. /\ act' = [act EXCEPT ![a] = act'[a]]
        /\ act'[a] = [act[a] EXCEPT !.pc = "try", !.tries = act[a].tries + 1]
    BY <1>3 DEF ActivateRetry, ActivationInv
  <2>2. act[a].tries + 1 \in Nat
    BY <1>1 DEF Activation
  <2> QED
    BY <1>1, <2>1, <2>2 DEF Activation, SameActivation
<1>4. CASE ~(act[a].tries + 1 < MaxTries)
  <2>1. /\ act' = [act EXCEPT ![a] = act'[a]]
        /\ act'[a] = Answered(a, e)
    BY <1>4 DEF ActivateRetry, ActivationInv
  <2> HIDE DEF e
  <2>2. e \in ActivationAnswers
    BY <1>2 DEF ActivationAnswers
  <2> QED
    BY <1>2, <2>1, <2>2, AnsweredType
<1> QED
  BY <1>3, <1>4

\* The facts about an activation at work.
LEMMA ActivationFacts ==
  ASSUME ActivationInv, NEW a \in Activations, Active(a)
  PROVE  /\ IInv /\ TypeOK /\ StoreTypeOK /\ ActivationOK(a) /\ act[a] \in Activation
         /\ act[a].user \in Users /\ act[a].at \in Replicas /\ act[a].answer = None
         /\ act[a].base \in 1 .. Len(log[act[a].user])
         /\ act[a].base \in Nat /\ Len(log[act[a].user]) \in Nat
BY DEF ActivationInv, ActivationOK, IInv, TypeOK, Active, Activation, StoreTypeOK

\* A step of an activation at work that does not tell the user that the code was taken.
LEMMA NotYetOK ==
  ASSUME ActivationInv, IInv', LogGrows, NEW a \in Activations, Active(a),
         act' = [act EXCEPT ![a] = act'[a]], act'[a] \in Activation, SameActivation(a),
         act'[a].pc \in {"try", "put", "done"},
         act'[a].pc # "done" => act'[a].answer = None,
         act'[a].answer # "ok",
         act'[a].pc = "put" =>
           /\ act'[a].copy \in 1 .. Len(log[act[a].user]) /\ log[act[a].user][act'[a].copy] # Absent
           /\ act'[a].approve => act[a].code \in Events
           /\ act'[a].error = None => act'[a].approve
  PROVE  ActivationInv'
<1>1. Len(log'[act[a].user]) >= Len(log[act[a].user])
      /\ \A i \in 1 .. Len(log[act[a].user]) : /\ log'[act[a].user][i] = log[act[a].user][i]
                                             /\ i \in 1 .. Len(log'[act[a].user])
  BY ActivationFacts DEF LogGrows
<1>2. ActivationOK(a)'
  BY <1>1, ActivationFacts DEF ActivationOK, SameActivation
<1> QED
  BY <1>2, ActivationStepOK

\* A failed try, which may have written all the same.
LEMMA ActivateRetryOK ==
  ASSUME ActivationInv, IInv', LogGrows, NEW a \in Activations, Active(a), ActivateRetry(a)
  PROVE  ActivationInv'
BY ActivationFacts, RetryActivation, NotYetOK, ActivationNoneAssumption DEF ActivationAnswers

LEMMA ActivateTryOK ==
  ASSUME ActivationInv, NEW a \in Activations, ActivateTry(a)
  PROVE  ActivationInv'
<1> DEFINE u == act[a].user
           v == seen[act[a].at][u]
<1>1. Active(a) /\ UNCHANGED storeVars /\ UNCHANGED signupVars
  BY DEF ActivateTry, Active
<1>2. /\ IInv /\ StoreTypeOK /\ act[a] \in Activation /\ act[a].answer = None
      /\ u \in Users /\ act[a].at \in Replicas
  BY <1>1, ActivationFacts
<1>3. StoreTypeOK' /\ LogGrows
  BY <1>1, <1>2, StoreUnchanged
<1>4. IInv'
  BY <1>1, <1>2, <1>3, SignupsStable
<1>5. CASE ActivateRetry(a)
  BY <1>1, <1>3, <1>4, <1>5, ActivateRetryOK
<1>6. CASE Cached(act[a].at, u) # Absent
  <2>1. v \in 1 .. Len(log[u]) /\ v \in Nat /\ log[u][v] # Absent
    BY <1>2, <1>6 DEF StoreTypeOK, Cached
  <2>2. CASE /\ act[a].code \in Valid
             /\ act' = [act EXCEPT ![a].pc = "put", ![a].copy = v, ![a].approve = TRUE]
    <3>1. /\ act' = [act EXCEPT ![a] = act'[a]]
          /\ act'[a] = [act[a] EXCEPT !.pc = "put", !.copy = v, !.approve = TRUE]
      BY <2>2 DEF ActivationInv
    <3> HIDE DEF v
    <3>2. /\ act'[a] \in Activation /\ SameActivation(a) /\ act'[a].pc = "put"
          /\ act'[a].copy = v /\ act'[a].approve /\ act'[a].answer = None
      BY <1>2, <2>1, <3>1 DEF Activation, SameActivation
    <3>3. act[a].code \in Events
      BY <2>2 DEF Valid
    <3> QED
      BY <1>1, <1>3, <1>4, <2>1, <3>1, <3>2, <3>3, NotYetOK, ActivationNoneAssumption
         DEF ActivationAnswers
  <2>3. CASE act' = [act EXCEPT ![a].pc = "put", ![a].copy = v, ![a].approve = FALSE,
                                ![a].attempts = @ + 1, ![a].error = "invalid"]
    <3>1. /\ act' = [act EXCEPT ![a] = act'[a]]
          /\ act'[a] = [act[a] EXCEPT !.pc = "put", !.copy = v, !.approve = FALSE,
                                     !.attempts = act[a].attempts + 1, !.error = "invalid"]
      BY <2>3 DEF ActivationInv
    <3> DEFINE n == act[a].attempts + 1
               x == [act[a] EXCEPT !.pc = "put", !.copy = v, !.approve = FALSE]
    <3>n. n \in Nat /\ "invalid" \in Opt({"invalid"})
      BY <1>2 DEF Activation, Opt
    <3>m. act'[a] = [x EXCEPT !.attempts = n, !.error = "invalid"]
      BY <3>1, <1>2 DEF Activation
    <3> HIDE DEF v, n
    <3>x. /\ x \in Activation /\ x.pc = "put" /\ x.copy = v /\ ~x.approve /\ x.answer = None
          /\ x.at = act[a].at /\ x.user = act[a].user /\ x.code = act[a].code
          /\ x.base = act[a].base
      BY <1>2, <2>1 DEF Activation
    <3> HIDE DEF x
    <3>y. act'[a] \in Activation
      BY <3>n, <3>m, <3>x DEF Activation
    <3>z. /\ act'[a].error = "invalid"
          /\ \A k \in {"pc", "copy", "approve", "answer", "at", "user", "code", "base"} :
               k \in DOMAIN x /\ act'[a][k] = x[k]
      BY <3>n, <3>m, <3>x DEF Activation
    <3>2. /\ act'[a] \in Activation /\ SameActivation(a) /\ act'[a].pc = "put"
          /\ act'[a].copy = v /\ ~act'[a].approve /\ act'[a].answer = None
          /\ act'[a].error = "invalid"
      BY <3>x, <3>y, <3>z DEF SameActivation
    <3> QED
      BY <1>1, <1>3, <1>4, <2>1, <3>1, <3>2, NotYetOK, ActivationNoneAssumption
         DEF ActivationAnswers
  <2> QED
    BY <1>6, <2>2, <2>3 DEF ActivateTry
<1> QED
  BY <1>5, <1>6 DEF ActivateTry

\* The approval of an event.
LEMMA WithEventFields ==
  ASSUME NEW s \in Signup, NEW e \in Events, NEW t, t = WithEvent(s, e)
  PROVE  /\ t \in Signup /\ t.event = e /\ t.status = s.status
         /\ "deactivated" \notin t.states
         /\ e \notin VerifyingEvents => "approved" \in t.states
         /\ "verification-required" \in t.states => "verification-required" \in s.states
         /\ s.states \cap {"approved", "rejected"} \subseteq t.states
         /\ DOMAIN t = DOMAIN s
         /\ \A k \in DOMAIN s \ {"states", "event"} : t[k] = s[k]
<1>1. PICK S \in SUBSET States :
        /\ t = [s EXCEPT !.states = S, !.event = e]
        /\ "deactivated" \notin S /\ (e \notin VerifyingEvents => "approved" \in S)
        /\ "verification-required" \in S => "verification-required" \in s.states
        /\ s.states \cap {"approved", "rejected"} \subseteq S
  <2>1. CASE e \in VerifyingEvents
    <3> DEFINE S == s.states \ {"deactivated"}
    <3>1. t = [s EXCEPT !.states = S, !.event = e]
      BY <2>1 DEF WithEvent
    <3>2. S \in SUBSET States
      BY DEF Signup
    <3> QED
      BY <2>1, <3>1, <3>2
  <2>2. CASE e \notin VerifyingEvents
    <3> DEFINE S == ((s.states \cup SetApprovedManually.add) \ SetApprovedManually.del) \ {"deactivated"}
    <3>1. t = [s EXCEPT !.states = S, !.event = e]
      BY <2>2 DEF WithEvent
    <3>2. S \in SUBSET States
      BY DEF Signup, SetApprovedManually, States
    <3>3. /\ "deactivated" \notin S /\ "approved" \in S /\ "verification-required" \notin S
          /\ s.states \cap {"approved", "rejected"} \subseteq S
      BY DEF SetApprovedManually
    <3> QED
      BY <3>1, <3>2, <3>3
  <2> QED
    BY <2>1, <2>2
<1> DEFINE x == [s EXCEPT !.states = S]
<1>2. /\ x \in Signup /\ x.states = S /\ t = [x EXCEPT !.event = e]
      /\ DOMAIN x = DOMAIN s /\ \A k \in DOMAIN s \ {"states"} : x[k] = s[k]
  BY <1>1 DEF Signup
<1> HIDE DEF x
<1>3. /\ t \in Signup /\ t.states = S /\ t.event = e
      /\ DOMAIN t = DOMAIN x /\ \A k \in DOMAIN x \ {"event"} : t[k] = x[k]
  BY <1>2 DEF Signup, Opt
<1>4. "status" \in DOMAIN s
  BY DEF Signup
<1> QED
  BY <1>1, <1>2, <1>3, <1>4

\* The counter of wrong codes alone.
LEMMA WithAttemptsFields ==
  ASSUME NEW s \in Signup, NEW n \in Opt(Nat), NEW t, t = [s EXCEPT !.attempts = n]
  PROVE  /\ t \in Signup /\ t.event = s.event /\ t.states = s.states /\ t.attempts = n
         /\ DOMAIN t = DOMAIN s /\ \A k \in DOMAIN s \ {"attempts"} : t[k] = s[k]
BY DEF Signup

\* A version that lets its user in with the event e, and one that counts a wrong code.
Admits(t, e) ==
  /\ t.event = e /\ t.attempts = None /\ "deactivated" \notin t.states
  /\ e \notin VerifyingEvents => "approved" \in t.states

Counts(s, t, n) == t.event = s.event /\ t.states = s.states /\ t.attempts = n

\* What an activation leaves of the version it has read.
Keeps(s, t) ==
  /\ t \in Signup /\ DOMAIN t = DOMAIN s
  /\ \A k \in DOMAIN s \ {"states", "event", "attempts"} : t[k] = s[k]
  /\ "verification-required" \in t.states => "verification-required" \in s.states
  /\ s.states \cap {"approved", "rejected"} \subseteq t.states

\* An approval clears the counter.
ApprovedWith(s, e) == [WithEvent(s, e) EXCEPT !.attempts = None]

LEMMA ApprovedFields ==
  ASSUME NEW s \in Signup, NEW e \in Events, NEW t, t = ApprovedWith(s, e)
  PROVE  Keeps(s, t) /\ Admits(t, e)
<1> DEFINE x == WithEvent(s, e)
<1>1. /\ x \in Signup /\ x.event = e
      /\ "deactivated" \notin x.states
      /\ e \notin VerifyingEvents => "approved" \in x.states
      /\ "verification-required" \in x.states => "verification-required" \in s.states
      /\ s.states \cap {"approved", "rejected"} \subseteq x.states
      /\ DOMAIN x = DOMAIN s
      /\ \A k \in DOMAIN s \ {"states", "event"} : x[k] = s[k]
  BY WithEventFields
<1>2. t = [x EXCEPT !.attempts = None] /\ None \in Opt(Nat)
  BY DEF ApprovedWith, Opt
<1> HIDE DEF x
<1>3. /\ t \in Signup /\ t.event = x.event /\ t.states = x.states /\ t.attempts = None
      /\ DOMAIN t = DOMAIN x /\ \A k \in DOMAIN x \ {"attempts"} : t[k] = x[k]
  BY <1>1, <1>2, WithAttemptsFields
<1>4. \A k \in DOMAIN s \ {"states", "event", "attempts"} : t[k] = s[k]
  BY <1>1, <1>3
<1> QED
  BY <1>1, <1>3, <1>4 DEF Keeps, Admits

\* What an activation makes of the version it has read.
LEMMA ActivationWrittenType ==
  ASSUME ActivationInv, NEW a \in Activations, act[a].pc = "put",
         NEW s, s = log[act[a].user][act[a].copy], NEW t, t = ActivationWritten(a)
  PROVE  /\ s \in Signup /\ t \in Signup /\ DOMAIN t = DOMAIN s
         /\ \A k \in DOMAIN s \ {"states", "event", "attempts"} : t[k] = s[k]
         /\ "verification-required" \in t.states => "verification-required" \in s.states
         /\ s.states \cap {"approved", "rejected"} \subseteq t.states
         /\ act[a].approve => Admits(t, act[a].code)
         /\ ~act[a].approve => Counts(s, t, act[a].attempts)
<1>1. /\ StoreTypeOK /\ ActivationOK(a) /\ act[a] \in Activation /\ act[a].user \in Users
  BY ActivationFacts DEF Active
<1>2. s \in Signup
  BY <1>1, LatestType DEF ActivationOK
<1>3. CASE act[a].approve
  <2>1. t = ApprovedWith(s, act[a].code) /\ act[a].code \in Events
    BY <1>1, <1>3 DEF ActivationWritten, ActivationOK, ApprovedWith
  <2>2. Keeps(s, t) /\ Admits(t, act[a].code)
    BY <1>2, <2>1, ApprovedFields
  <2> QED
    BY <1>2, <1>3, <2>2 DEF Keeps
<1>4. CASE ~act[a].approve
  <2>1. t = [s EXCEPT !.attempts = act[a].attempts]
    BY <1>4 DEF ActivationWritten
  <2>2. act[a].attempts \in Opt(Nat)
    BY <1>1 DEF Activation, Opt
  <2>3. /\ t \in Signup /\ DOMAIN t = DOMAIN s
        /\ \A k \in DOMAIN s \ {"attempts"} : t[k] = s[k]
    BY <1>2, <2>1, <2>2, WithAttemptsFields
  <2>4. Counts(s, t, act[a].attempts)
    BY <1>2, <2>1, <2>2, WithAttemptsFields DEF Counts
  <2> QED
    BY <1>2, <1>4, <2>3, <2>4 DEF Counts
<1> QED
  BY <1>3, <1>4

\* The write of an activation.
LEMMA ActivationWrote ==
  ASSUME ActivationInv, NEW a \in Activations, act[a].pc = "put", ActivationWritable(a),
         NewVersion(act[a].user, ActivationWritten(a)), UNCHANGED <<banned, now>>
  PROVE  /\ StoreTypeOK' /\ LogGrows
         /\ log'[act[a].user] = Append(log[act[a].user], ActivationWritten(a))
         /\ \A v \in Users \ {act[a].user} : log'[v] = log[v]
         /\ log[act[a].user][act[a].copy] = Latest(act[a].user)
<1>1. StoreTypeOK /\ act[a].user \in Users
  BY ActivationFacts DEF Active
<1>2. ActivationWritten(a) \in Signup
  BY ActivationWrittenType
<1> QED
  BY <1>1, <1>2, NewVersionType DEF ActivationWritable, IsCurrent, Latest

LEMMA ActivatePutOK ==
  ASSUME ActivationInv, NEW a \in Activations, ActivatePut(a)
  PROVE  ActivationInv'
<1> DEFINE u == act[a].user
           e == IF act[a].error = None THEN "ok" ELSE act[a].error
           t == ActivationWritten(a)
           n == Len(log[u]) + 1
<1>1. /\ act[a].pc = "put" /\ ActivationWritable(a) /\ NewVersion(u, t)
      /\ UNCHANGED <<banned, now>> /\ UNCHANGED signupVars
      /\ act' = [act EXCEPT ![a] = Answered(a, e)]
  BY DEF ActivatePut
<1>2. /\ IInv /\ StoreTypeOK /\ ActivationOK(a) /\ act[a] \in Activation /\ u \in Users
      /\ act[a].base \in 1 .. Len(log[u]) /\ act[a].base \in Nat /\ Len(log[u]) \in Nat
  BY <1>1, ActivationFacts DEF Active
<1>3. /\ StoreTypeOK' /\ LogGrows
      /\ log'[u] = Append(log[u], t)
  BY <1>1, ActivationWrote
<1>4. IInv'
  BY <1>1, <1>2, <1>3, SignupsStable
<1>5. act' = [act EXCEPT ![a] = act'[a]] /\ act'[a] = Answered(a, e)
  BY <1>1 DEF ActivationInv
<1>6. e \in {"ok", "invalid"} /\ (e = "ok" => act[a].approve)
  BY <1>1, <1>2 DEF Activation, Opt, ActivationOK
<1> HIDE DEF e
<1>7. /\ act'[a] \in Activation /\ SameActivation(a) /\ act'[a].pc = "done" /\ act'[a].answer = e
  BY <1>5, <1>6, AnsweredType DEF ActivationAnswers
<1>8. t \in Signup /\ t # Absent
  BY <1>1, ActivationWrittenType, HostStoreAssumption
<1>9. ASSUME e = "ok"
      PROVE  Attends(a)'
  <2>1. t.event = act[a].code /\ "deactivated" \notin t.states
        /\ (act[a].code \notin VerifyingEvents => "approved" \in t.states)
    BY <1>1, <1>6, <1>9, ActivationWrittenType DEF Admits
  <2> HIDE DEF t
  <2>2. n \in act[a].base + 1 .. Len(log'[u]) /\ log'[u][n] = t
    BY <1>2, <1>3, <1>8 DEF StoreTypeOK
  <2> HIDE DEF n
  <2> QED
    BY <1>7, <1>8, <2>1, <2>2 DEF Attends, SameActivation
<1>10. ActivationOK(a)'
  <2>1. Len(log'[u]) = Len(log[u]) + 1
    BY <1>2, <1>3, <1>8 DEF StoreTypeOK
  <2> QED
    BY <1>2, <1>7, <1>9, <2>1, ActivationFacts, <1>1 DEF ActivationOK, SameActivation, Active
<1> QED
  BY <1>3, <1>4, <1>5, <1>7, <1>10, ActivationStepOK

LEMMA ActivateConflictOK ==
  ASSUME ActivationInv, NEW a \in Activations, ActivateConflict(a)
  PROVE  ActivationInv'
<1>1. Active(a) /\ UNCHANGED storeVars /\ UNCHANGED signupVars /\ ActivateRetry(a)
  BY DEF ActivateConflict, Active
<1>2. IInv' /\ LogGrows
  BY <1>1, ActivationFacts, StoreUnchanged, SignupsStable
<1> QED
  BY <1>1, <1>2, ActivateRetryOK

LEMMA ActivatePutErrorOK ==
  ASSUME ActivationInv, NEW a \in Activations, ActivatePutError(a)
  PROVE  ActivationInv'
<1>1. /\ Active(a) /\ act[a].pc = "put" /\ UNCHANGED <<banned, now>> /\ UNCHANGED signupVars
      /\ ActivateRetry(a)
  BY DEF ActivatePutError, Active
<1>2. StoreTypeOK' /\ LogGrows
  <2>1. CASE UNCHANGED <<log, seen>>
    BY <1>1, <2>1, ActivationFacts, StoreUnchanged DEF storeVars
  <2>2. CASE ActivationWritable(a) /\ NewVersion(act[a].user, ActivationWritten(a))
    BY <1>1, <2>2, ActivationWrote
  <2> QED
    BY <2>1, <2>2 DEF ActivatePutError
<1>3. IInv'
  BY <1>1, <1>2, ActivationFacts, SignupsStable
<1> QED
  BY <1>1, <1>2, <1>3, ActivateRetryOK

LEMMA ActivateUnknownOK ==
  ASSUME ActivationInv, NEW a \in Activations, NEW r \in Requests, NEW t \in Claims,
         ActivateUnknown(a, r, t)
  PROVE  ActivationInv'
<1>1. /\ Active(a) /\ SignupStart(r, act[a].at, act[a].user, t, act[a].code)
      /\ act' = [act EXCEPT ![a].pc = "done", ![a].answer = "handedOn"]
  BY DEF ActivateUnknown, Active
<1>2. /\ IInv /\ StoreTypeOK /\ act[a] \in Activation
      /\ act[a].user \in Users /\ act[a].at \in Replicas /\ act[a].code \in Opt(EventCodes)
  BY <1>1, ActivationFacts DEF Activation
<1>3. IInv'
  BY <1>1, <1>2, SignupStartOK
<1>4. LogGrows
  BY <1>1, <1>2, StoreUnchanged DEF SignupStart
<1>5. /\ act' = [act EXCEPT ![a] = act'[a]]
      /\ act'[a] = [act[a] EXCEPT !.pc = "done", !.answer = "handedOn"]
  BY <1>1 DEF ActivationInv
<1>6. "handedOn" \in Opt(ActivationAnswers)
  BY DEF ActivationAnswers, Opt
<1>7. /\ act'[a] \in Activation /\ SameActivation(a) /\ act'[a].pc = "done"
      /\ act'[a].answer = "handedOn"
  BY <1>2, <1>5, <1>6 DEF Activation, SameActivation
<1> QED
  BY <1>1, <1>3, <1>4, <1>5, <1>7, NotYetOK

\* A step of a sign-up, or of the environment.
LEMMA OthersStepOK ==
  ASSUME ActivationInv, IInv', LogGrows, UNCHANGED act
  PROVE  ActivationInv'
BY ActivationStable DEF ActivationInv

\* The sign-ups of activations only differ in their events.
LEMMA SignupHandleOK ==
  ASSUME IInv, NEW r \in Requests, SignupHandle(r, Valid)
  PROVE  IInv' /\ LogGrows
<1>1. IInv'
  <2>1. Valid \in SUBSET Events
    BY DEF Valid
  <2> QED
    BY <2>1, SignupVerifyOK, SignupBuildOK, SignupWriteOK, SignupWriteErrorOK DEF SignupHandle
<1>2. CASE UNCHANGED <<log, seen>>
  BY <1>1, <1>2 DEF LogGrows, IInv, TypeOK, StoreTypeOK
<1>3. CASE /\ req[r].pc = "write" /\ Writable(r) /\ NewVersion(req[r].user, draft[r])
           /\ UNCHANGED <<banned, now>>
  BY <1>1, <1>3, DraftWritten
<1> QED
  BY <1>1, <1>2, <1>3
     DEF SignupHandle, SignupVerify, SignupBuild, SignupWrite, SignupWriteError, storeVars

-----------------------------------------------------------------------------
(* The invariant is inductive.                                             *)

LEMMA ActivationInitOK == ActivationInit => ActivationInv
<1> SUFFICES ASSUME ActivationInit
             PROVE  ActivationInv
  OBVIOUS
<1>1. ASSUME NEW t \in Claims
      PROVE  Inactive(t) \in Signup /\ Waiting(t) \in Signup
  BY InactiveType, NewSignupType DEF Waiting, Opt
<1>2. ASSUME NEW u \in Users
      PROVE  \E s \in Signup \cup {Absent} : log[u] = <<s>>
  BY <1>1 DEF ActivationInit
<1>3. StoreTypeOK
  <2>1. log = [u \in Users |-> log[u]]
    BY DEF ActivationInit
  <2> QED
    BY <1>2, <2>1, FirstVersions DEF ActivationInit, StoreStarts
<1>4. Idle \in Request /\ Idle.pc = "idle" /\ Idle.kind = None
  BY DEF Idle, Request, Opt
<1>5. /\ \A r \in Requests : req[r] = Idle
      /\ req \in [Requests -> Request] /\ draft \in [Requests -> Opt(Signup)]
  BY <1>4 DEF ActivationInit, Opt
<1>6. TypeOK
  BY <1>3, <1>4, <1>5 DEF TypeOK
<1>7. \A r \in Requests : DecisionOK(r) /\ AnswerOK(r)
  BY <1>4, <1>5, NoneAssumption DEF DecisionOK, AnswerOK
<1>8. IInv
  BY <1>6, <1>7, RequestsOK DEF IInv
<1>9. /\ NoActivation \in Activation /\ NoActivation.pc = "idle" /\ NoActivation.answer = None
  BY DEF NoActivation, Activation, Opt
<1>10. act = [a \in Activations |-> NoActivation] /\ None # "ok"
  BY ActivationNoneAssumption DEF ActivationInit, ActivationAnswers
<1> QED
  BY <1>8, <1>9, <1>10 DEF ActivationInv, ActivationOK

LEMMA ActivationNextOK == ActivationInv /\ [ActivationNext]_allVars => ActivationInv'
<1> SUFFICES ASSUME ActivationInv, [ActivationNext]_allVars
             PROVE  ActivationInv'
  OBVIOUS
<1>1. IInv /\ StoreTypeOK
  BY DEF ActivationInv, IInv, TypeOK
<1>2. CASE UNCHANGED <<storeVars, signupVars, act>>
  <2>1. IInv' /\ LogGrows
    BY <1>1, <1>2, StoreUnchanged, SignupsStable
  <2> QED
    BY <1>2, <2>1, OthersStepOK
<1>3. CASE \E a \in Activations : ActivationArrive(a)
  BY <1>3, ActivateStartOK DEF ActivationArrive
<1>4. CASE \E a \in Activations : ActivationHandle(a)
  BY <1>4, ActivateTryOK, ActivatePutOK, ActivateConflictOK, ActivatePutErrorOK, ActivateUnknownOK
     DEF ActivationHandle
<1>5. CASE \E r \in Requests : SignupHandle(r, Valid) /\ UNCHANGED activationVars
  BY <1>1, <1>5, SignupHandleOK, OthersStepOK DEF activationVars
<1>6. CASE StoreNext /\ UNCHANGED <<signupVars, activationVars>>
  <2>1. IInv' /\ LogGrows
    BY <1>1, <1>6, StoreStepType, SignupsStable
  <2> QED
    BY <1>6, <2>1, OthersStepOK DEF activationVars
<1> QED
  BY <1>2, <1>3, <1>4, <1>5, <1>6
     DEF ActivationNext, OperatorCounts, ActivationFinished, allVars, storeVars, signupVars

\* A user who is told that the activation code was taken attends the event, whatever the
\* conflicts, retries and failures on the way (verification_service.go:486-521).
THEOREM OkAlwaysMeansAttending == ActivationSpec => []OkMeansAttending
<1>1. ActivationInv => OkMeansAttending
  BY DEF ActivationInv, ActivationOK, Attends, OkMeansAttending
<1> QED
  BY <1>1, ActivationInitOK, ActivationNextOK, PTL DEF ActivationSpec

-----------------------------------------------------------------------------
(* What an activation writes.                                              *)

\* A step of activation b leaves the other activations where they are.
LEMMA OnlyOwnActivation ==
  ASSUME ActivationInv, NEW b \in Activations, ActivationArrive(b) \/ ActivationHandle(b),
         NEW a \in Activations, a # b
  PROVE  act'[a] = act[a]
<1>1. act \in [Activations -> Activation]
  BY DEF ActivationInv
<1>2. CASE ActivateRetry(b)
  BY <1>1, <1>2 DEF ActivateRetry
<1>3. CASE ActivationArrive(b)
  BY <1>1, <1>3 DEF ActivationArrive, ActivateStart
<1>4. CASE ActivateTry(b)
  BY <1>1, <1>2, <1>4 DEF ActivateTry
<1>5. CASE ActivatePut(b)
  BY <1>1, <1>5 DEF ActivatePut
<1>6. CASE ActivateConflict(b) \/ ActivatePutError(b)
  BY <1>2, <1>6 DEF ActivateConflict, ActivatePutError
<1>7. ASSUME NEW r \in Requests, NEW t \in Claims, ActivateUnknown(b, r, t)
      PROVE  act'[a] = act[a]
  BY <1>1, <1>7 DEF ActivateUnknown
<1> QED
  BY <1>3, <1>4, <1>5, <1>6, <1>7 DEF ActivationHandle

LEMMA WritesByPut ==
  ASSUME ActivationInv, [ActivationNext]_allVars, NEW a \in Activations, ActivationWrites(a)
  PROVE  /\ ActivationWritable(a) /\ NewVersion(act[a].user, ActivationWritten(a))
         /\ UNCHANGED <<banned, now>> /\ SameActivation(a)
<1>1. act[a].pc = "put" /\ act'[a] # act[a] /\ log'[act[a].user] # log[act[a].user] /\ Active(a)
  BY DEF ActivationWrites, Active
<1>2. act' # act
  BY <1>1
<1>3. PICK b \in Activations : ActivationArrive(b) \/ ActivationHandle(b)
  BY <1>2 DEF ActivationNext, allVars, activationVars, OperatorCounts, ActivationFinished
<1>4. b = a
  BY <1>1, <1>3, OnlyOwnActivation
<1>5. ActivatePut(a) \/ ActivatePutError(a)
  BY <1>1, <1>3, <1>4
     DEF ActivationArrive, ActivateStart, MayActivate, ActivationHandle, ActivateTry,
         ActivateConflict, ActivateUnknown, storeVars
<1>6. /\ ActivationWritable(a) /\ NewVersion(act[a].user, ActivationWritten(a))
      /\ UNCHANGED <<banned, now>>
  BY <1>1, <1>5 DEF ActivatePut, ActivatePutError
<1>7. CASE ActivateRetry(a)
  BY <1>1, <1>6, <1>7, ActivationFacts, RetryActivation
<1>8. CASE ActivatePut(a)
  <2> DEFINE e == IF act[a].error = None THEN "ok" ELSE act[a].error
  <2>1. act'[a] = Answered(a, e)
    BY <1>8 DEF ActivatePut, ActivationInv
  <2>2. e \in ActivationAnswers
    BY DEF ActivationInv, Activation, Opt, ActivationAnswers
  <2> QED
    BY <1>6, <2>1, <2>2, AnsweredType
<1> QED
  BY <1>5, <1>6, <1>7, <1>8 DEF ActivatePutError

\* An activation undoes nothing that others did to the UserSignup while its handler was
\* deciding (verification_service.go:488-509).
THEOREM OthersAreKept == ActivationSpec => OthersKept
<1>1. ASSUME ActivationInv, [ActivationNext]_allVars, NEW a \in Activations, ActivationWrites(a),
             NEW old, old = Latest(act[a].user), NEW new, new = Latest(act[a].user)'
      PROVE  /\ old # Absent
             /\ \A k \in DOMAIN old \ {"states", "event", "attempts"} : new[k] = old[k]
             /\ "verification-required" \in new.states => "verification-required" \in old.states
             /\ old.states \cap {"approved", "rejected"} \subseteq new.states
  <2>1. /\ act[a].pc = "put" /\ Active(a) /\ ActivationWritable(a)
        /\ NewVersion(act[a].user, ActivationWritten(a))
        /\ UNCHANGED <<banned, now>> /\ SameActivation(a)
    BY <1>1, WritesByPut DEF ActivationWrites, Active
  <2>2. /\ StoreTypeOK /\ act[a].user \in Users
        /\ log'[act[a].user] = Append(log[act[a].user], ActivationWritten(a))
        /\ log[act[a].user][act[a].copy] = old
    BY <1>1, <2>1, ActivationFacts, ActivationWrote
  <2>3. new = ActivationWritten(a)
    <3>1. log[act[a].user] \in Seq(Signup \cup {Absent}) /\ ActivationWritten(a) \in Signup
      BY <1>1, <2>1, <2>2, ActivationWrittenType DEF StoreTypeOK
    <3>2. new = log'[act[a].user][Len(log'[act[a].user])]
      BY <1>1, <2>1 DEF Latest, SameActivation
    <3> QED
      BY <2>2, <3>1, <3>2
  <2>4. old # Absent
    BY <1>1, <2>1 DEF ActivationWritable, IsCurrent
  <2> QED
    BY <1>1, <2>1, <2>2, <2>3, <2>4, ActivationWrittenType
<1>2. ActivationInv /\ [ActivationNext]_allVars =>
        [\A a \in Activations : ActivationWrites(a) =>
           LET old == Latest(act[a].user)
               new == Latest(act[a].user)' IN
             /\ old # Absent
             /\ \A k \in DOMAIN old \ {"states", "event", "attempts"} : new[k] = old[k]
             /\ "verification-required" \in new.states => "verification-required" \in old.states
             /\ old.states \cap {"approved", "rejected"} \subseteq new.states]_allVars
  BY <1>1
<1> QED
  BY <1>2, ActivationInitOK, ActivationNextOK, PTL DEF ActivationSpec, OthersKept

-----------------------------------------------------------------------------
(* Room at an event, where requests are handled one at a time and the      *)
(* caches do not lag: the handler at work is the only one that adds an     *)
(* attendee, and there is room for the one it is about to add.             *)

Sequential == FreshReads /\ MaxInFlight <= 1

Alone ==
  /\ \A a, b \in Activations : Active(a) /\ Active(b) => a = b
  /\ \A q, r \in Requests : InFlight(q) /\ InFlight(r) => q = r
  /\ \A a \in Activations, r \in Requests : ~(Active(a) /\ InFlight(r))

\* A handler is about to write that u attends e.
Approves(e, u) ==
  \/ \E a \in Activations : /\ act[a].pc = "put" /\ act[a].approve
                            /\ act[a].code = e /\ act[a].user = u
  \/ \E r \in Requests : req[r].pc = "write" /\ draft[r].event = e /\ req[r].user = u

RoomLeft ==
  \A e \in Events, u \in Users : Approves(e, u) => Cardinality(Attendees(e) \ {u}) < Capacity[e]

CapacityInv == ActivationInv /\ Alone /\ RoomLeft /\ CapacityHolds

NoNewAttendees == \A e \in Events : Attendees(e)' \subseteq Attendees(e)

\* What one version attends.
AttendsWith(s, e) == s # Absent /\ s.event = e /\ "deactivated" \notin s.states

LEMMA WriteAttendees ==
  ASSUME StoreTypeOK, NEW u \in Users, NEW s \in Signup \cup {Absent},
         log'[u] = Append(log[u], s), \A v \in Users \ {u} : log'[v] = log[v], NEW e \in Events
  PROVE  /\ Attendees(e)' \subseteq Attendees(e) \cup {u}
         /\ ~AttendsWith(s, e) => Attendees(e)' \subseteq Attendees(e)
         /\ (AttendsWith(s, e) => AttendsWith(Latest(u), e)) => Attendees(e)' \subseteq Attendees(e)
<1>1. log'[u][Len(log'[u])] = s /\ log[u] \in Seq(Signup \cup {Absent})
  BY DEF StoreTypeOK
<1>2. \A v \in Users \ {u} : v \in Attendees(e)' => v \in Attendees(e)
  BY DEF Attendees, Latest
<1>3. u \in Attendees(e)' => AttendsWith(s, e)
  BY <1>1 DEF Attendees, Latest, AttendsWith
<1>4. AttendsWith(Latest(u), e) => u \in Attendees(e)
  BY DEF Attendees, AttendsWith
<1>5. Attendees(e)' \subseteq Users
  BY DEF Attendees
<1> QED
  BY <1>2, <1>3, <1>4, <1>5

LEMMA AttendeesFinite ==
  ASSUME IsFiniteSet(Users), NEW S \in SUBSET Users, NEW T \in SUBSET S, NEW u
  PROVE  /\ Cardinality(T) \in Nat /\ Cardinality(S) \in Nat /\ Cardinality(T) <= Cardinality(S)
         /\ Cardinality(S \ {u}) \in Nat /\ Cardinality(S \ {u}) <= Cardinality(S)
         /\ Cardinality(T \ {u}) \in Nat /\ Cardinality(T \ {u}) <= Cardinality(S \ {u})
         /\ Cardinality(S) <= Cardinality(S \ {u}) + 1
<1>1. IsFiniteSet(S)
  BY FS_Subset
<1>2. IsFiniteSet(S \ {u}) /\ IsFiniteSet(T) /\ Cardinality(T) <= Cardinality(S)
  BY <1>1, FS_Subset, FS_RemoveElement
<1>3. T \ {u} \in SUBSET (S \ {u})
  OBVIOUS
<1>4. IsFiniteSet(T \ {u}) /\ Cardinality(T \ {u}) <= Cardinality(S \ {u})
  BY <1>2, <1>3, FS_Subset
<1>5. /\ Cardinality(S) \in Nat /\ Cardinality(T) \in Nat
      /\ Cardinality(S \ {u}) \in Nat /\ Cardinality(T \ {u}) \in Nat
  BY <1>1, <1>2, <1>4, FS_CardinalityType
<1>6. Cardinality(S \ {u}) = IF u \in S THEN Cardinality(S) - 1 ELSE Cardinality(S)
  BY <1>1, FS_RemoveElement
<1> QED
  BY <1>2, <1>4, <1>5, <1>6

\* Nobody new attends: what there was room for, there still is.
LEMMA RoomKept ==
  ASSUME IsFiniteSet(Users), CapacityHolds, NoNewAttendees
  PROVE  /\ CapacityHolds'
         /\ \A e \in Events, u \in Users :
              Cardinality(Attendees(e) \ {u}) < Capacity[e]
                => (Cardinality(Attendees(e) \ {u}) < Capacity[e])'
<1>1. ASSUME NEW e \in Events, NEW u
      PROVE  /\ (Cardinality(Attendees(e)) <= Capacity[e])'
             /\ Cardinality(Attendees(e) \ {u}) < Capacity[e]
                  => (Cardinality(Attendees(e) \ {u}) < Capacity[e])'
  <2> DEFINE S == Attendees(e)
             T == Attendees(e)'
  <2>1. S \in SUBSET Users /\ T \in SUBSET S /\ Capacity[e] \in Nat /\ Cardinality(S) <= Capacity[e]
    BY ActivationCodeAssumption DEF Attendees, NoNewAttendees, CapacityHolds
  <2> HIDE DEF S, T
  <2>2. /\ Cardinality(T) \in Nat /\ Cardinality(S) \in Nat /\ Cardinality(T) <= Cardinality(S)
        /\ Cardinality(S \ {u}) \in Nat
        /\ Cardinality(T \ {u}) \in Nat /\ Cardinality(T \ {u}) <= Cardinality(S \ {u})
    BY <2>1, AttendeesFinite
  <2>3. Cardinality(T) <= Capacity[e]
        /\ (Cardinality(S \ {u}) < Capacity[e] => Cardinality(T \ {u}) < Capacity[e])
    BY <2>1, <2>2
  <2> QED
    BY <2>3 DEF S, T
<1> QED
  BY <1>1 DEF CapacityHolds

\* Somebody new attends the event that had room for one more.
LEMMA RoomTaken ==
  ASSUME IsFiniteSet(Users), CapacityHolds, NEW c \in Events, NEW u \in Users,
         Cardinality(Attendees(c) \ {u}) < Capacity[c],
         Attendees(c)' \subseteq Attendees(c) \cup {u},
         \A e \in Events \ {c} : Attendees(e)' \subseteq Attendees(e)
  PROVE  CapacityHolds'
<1>1. ASSUME NEW e \in Events
      PROVE  (Cardinality(Attendees(e)) <= Capacity[e])'
  <2> DEFINE S == Attendees(e)
             T == Attendees(e)'
  <2>1. S \in SUBSET Users /\ T \in SUBSET Users /\ Capacity[e] \in Nat /\ Cardinality(S) <= Capacity[e]
    BY ActivationCodeAssumption DEF Attendees, CapacityHolds
  <2>2. CASE e = c
    <3>1. T \ {u} \in SUBSET (S \ {u}) /\ Cardinality(S \ {u}) < Capacity[e]
          /\ S \ {u} \in SUBSET Users
      BY <2>1, <2>2
    <3> HIDE DEF S, T
    <3>2. Cardinality(T) <= Cardinality(T \ {u}) + 1 /\ Cardinality(T) \in Nat
      BY <2>1, AttendeesFinite
    <3> DEFINE X == T \ {u}
               Y == S \ {u}
    <3>3. X \in SUBSET Y /\ Y \in SUBSET Users /\ Cardinality(Y) < Capacity[e]
          /\ Cardinality(T) <= Cardinality(X) + 1
      BY <3>1, <3>2
    <3> HIDE DEF X, Y
    <3>4. Cardinality(X) \in Nat /\ Cardinality(Y) \in Nat /\ Cardinality(X) <= Cardinality(Y)
      BY <3>3, AttendeesFinite
    <3>5. Cardinality(T) <= Capacity[e]
      BY <2>1, <3>2, <3>3, <3>4
    <3> QED
      BY <3>5 DEF T
  <2>3. CASE e # c
    <3>1. T \in SUBSET S
      BY <2>3
    <3> HIDE DEF S, T
    <3>2. Cardinality(T) \in Nat /\ Cardinality(S) \in Nat /\ Cardinality(T) <= Cardinality(S)
      BY <2>1, <3>1, AttendeesFinite
    <3>3. Cardinality(T) <= Capacity[e]
      BY <2>1, <3>2
    <3> QED
      BY <3>3 DEF T
  <2> QED
    BY <2>2, <2>3
<1> QED
  BY <1>1 DEF CapacityHolds

\* A handler only starts when nobody is at work.
LEMMA NobodyAtWork ==
  ASSUME Sequential,
         Cardinality({b \in Activations : Active(b)}) + Cardinality({r \in Requests : InFlight(r)})
           < MaxInFlight
  PROVE  (\A b \in Activations : ~Active(b)) /\ \A r \in Requests : ~InFlight(r)
<1> DEFINE S == {b \in Activations : Active(b)}
           T == {r \in Requests : InFlight(r)}
<1>1. IsFiniteSet(Activations) /\ IsFiniteSet(Requests)
  BY FS_Interval, ActivationCodeAssumption, SignupServiceAssumption DEF Activations, Requests
<1>2. S \in SUBSET Activations /\ T \in SUBSET Requests
  OBVIOUS
<1>3. Cardinality(S) + Cardinality(T) < MaxInFlight
  OBVIOUS
<1> HIDE DEF S, T
<1>4. IsFiniteSet(S) /\ IsFiniteSet(T)
  BY <1>1, <1>2, FS_Subset
<1>5. Cardinality(S) \in Nat /\ Cardinality(T) \in Nat
  BY <1>4, FS_CardinalityType
<1>6. Cardinality(S) = 0 /\ Cardinality(T) = 0
  BY <1>3, <1>5, SignupServiceAssumption DEF Sequential
<1>7. S = {} /\ T = {}
  BY <1>4, <1>6, FS_EmptySet
<1> QED
  BY <1>7 DEF S, T

\* A step of the activation that is at work.
LEMMA ActivationStepKeepsRoom ==
  ASSUME CapacityInv, ActivationInv', NEW a \in Activations, Active(a),
         act' = [act EXCEPT ![a] = act'[a]], SameActivation(a), UNCHANGED signupVars, CapacityHolds',
         NEW e \in Opt(EventCodes), act[a].code = e,
         act'[a].pc = "put" /\ act'[a].approve
           => (Cardinality(Attendees(e) \ {act[a].user}) < Capacity[e])'
  PROVE  CapacityInv'
<1>1. \A b \in Activations : b # a => act'[b] = act[b] /\ ~Active(b)
  BY DEF CapacityInv, ActivationInv, Alone
<1>2. (\A r \in Requests : ~InFlight(r)) /\ UNCHANGED <<req, draft>>
  BY DEF CapacityInv, Alone, signupVars
<1>3. Alone'
  BY <1>1, <1>2 DEF Alone, Active, InFlight
<1>4. ASSUME NEW c \in Events, NEW u \in Users, Approves(c, u)'
      PROVE  c = e /\ u = act[a].user /\ act'[a].pc = "put" /\ act'[a].approve
  BY <1>1, <1>2, <1>4 DEF Approves, Active, InFlight, SameActivation
<1>5. ASSUME NEW u, u = act[a].user, act'[a].pc = "put" /\ act'[a].approve
      PROVE  (Cardinality(Attendees(e) \ {u}) < Capacity[e])'
  <2>1. act'[a].user = u
    BY <1>5 DEF SameActivation
  <2> QED
    BY <1>5, <2>1
<1> QED
  BY <1>3, <1>4, <1>5 DEF CapacityInv, RoomLeft

\* A step of the sign-up that is at work.
LEMMA SignupStepKeepsRoom ==
  ASSUME CapacityInv, ActivationInv', NEW r \in Requests, InFlight(r),
         req' = [req EXCEPT ![r] = req'[r]], draft' = [draft EXCEPT ![r] = draft'[r]],
         UNCHANGED act, CapacityHolds', NEW u \in Users, req'[r].user = u,
         NEW e \in Opt(EventCodes), req'[r].pc = "write" => draft'[r].event = e,
         req'[r].pc = "write" /\ e # None => (Cardinality(Attendees(e) \ {u}) < Capacity[e])'
  PROVE  CapacityInv'
<1>1. \A q \in Requests : q # r => req'[q] = req[q] /\ draft'[q] = draft[q] /\ ~InFlight(q)
  BY DEF CapacityInv, ActivationInv, IInv, TypeOK, Alone
<1>2. \A a \in Activations : ~Active(a)
  BY DEF CapacityInv, Alone
<1>3. Alone'
  BY <1>1, <1>2 DEF Alone, Active, InFlight
<1>4. ASSUME NEW c \in Events, NEW v \in Users, Approves(c, v)'
      PROVE  c = e /\ v = u /\ req'[r].pc = "write"
  BY <1>1, <1>2, <1>4 DEF Approves, Active, InFlight
<1>5. \A c \in Events : c # None
  BY HostStoreAssumption
<1> QED
  BY <1>3, <1>4, <1>5 DEF CapacityInv, RoomLeft

\* A step of the environment.
LEMMA OtherStepKeepsRoom ==
  ASSUME CapacityInv, ActivationInv', UNCHANGED <<act, req, draft>>, NoNewAttendees,
         IsFiniteSet(Users)
  PROVE  CapacityInv'
<1>1. Alone'
  BY DEF CapacityInv, Alone, Active, InFlight
<1>2. \A e, u : Approves(e, u)' => Approves(e, u)
  BY DEF Approves
<1> QED
  BY <1>1, <1>2, RoomKept DEF CapacityInv, RoomLeft

LEMMA SameAttendees ==
  ASSUME UNCHANGED storeVars
  PROVE  NoNewAttendees
BY DEF storeVars, NoNewAttendees, Attendees, Latest

LEMMA ActivateStartKeepsRoom ==
  ASSUME Sequential, IsFiniteSet(Users), CapacityInv, ActivationInv', NEW a \in Activations,
         NEW p \in Replicas, NEW u \in Users, NEW c \in Opt(EventCodes), ActivateStart(a, p, u, c)
  PROVE  CapacityInv'
<1>1. MayActivate(a) /\ UNCHANGED storeVars /\ UNCHANGED <<req, draft>>
  BY DEF ActivateStart, signupVars
<1>2. (\A b \in Activations : ~Active(b)) /\ \A r \in Requests : ~InFlight(r)
  BY <1>1, NobodyAtWork DEF MayActivate
<1>3. (\A b \in Activations : b # a => act'[b] = act[b]) /\ act'[a].pc # "put"
  BY DEF ActivateStart, CapacityInv, ActivationInv, NoActivation
<1>4. Alone'
  BY <1>1, <1>2, <1>3 DEF Alone, Active, InFlight
<1>5. \A e, v : ~Approves(e, v)'
  BY <1>1, <1>2, <1>3 DEF Approves, Active, InFlight
<1>6. CapacityHolds'
  BY <1>1, SameAttendees, RoomKept DEF CapacityInv
<1> QED
  BY <1>4, <1>5, <1>6 DEF CapacityInv, RoomLeft

LEMMA ActivateUnknownKeepsRoom ==
  ASSUME IsFiniteSet(Users), CapacityInv, ActivationInv', NEW a \in Activations,
         NEW r \in Requests, NEW t \in Claims, ActivateUnknown(a, r, t)
  PROVE  CapacityInv'
<1>1. Active(a) /\ UNCHANGED storeVars /\ UNCHANGED draft
      /\ act' = [act EXCEPT ![a].pc = "done", ![a].answer = "handedOn"]
  BY DEF ActivateUnknown, SignupStart, Active
<1>2. /\ \A b \in Activations : b # a => act'[b] = act[b] /\ ~Active(b)
      /\ act'[a].pc = "done"
      /\ \A q \in Requests : ~InFlight(q)
  BY <1>1 DEF CapacityInv, ActivationInv, Alone, Activation
<1>3. (\A q \in Requests : q # r => req'[q] = req[q]) /\ req'[r].pc \in {"verify", "done"}
  <2>1. PICK pc \in {"verify", "done"}, n \in {None, "rejected", "conflict"} :
          Start(r, "signup", act[a].at, act[a].user, t, act[a].code, pc, n)
    BY DEF ActivateUnknown, SignupStart
  <2> DEFINE d == [Idle EXCEPT !.pc = pc, !.kind = "signup", !.at = act[a].at, !.user = act[a].user,
                               !.token = t, !.event = act[a].code,
                               !.base = seen[act[a].at][act[a].user], !.answer = n]
  <2>2. req' = [req EXCEPT ![r] = d]
    BY <2>1 DEF Start
  <2>3. d.pc = pc
    BY DEF Idle
  <2> HIDE DEF d
  <2> QED
    BY <2>2, <2>3 DEF CapacityInv, ActivationInv, IInv, TypeOK
<1>4. Alone'
  BY <1>1, <1>2, <1>3 DEF Alone, Active, InFlight
<1>5. \A e, v : ~Approves(e, v)'
  BY <1>1, <1>2, <1>3 DEF Approves, Active, InFlight
<1>6. CapacityHolds'
  BY <1>1, SameAttendees, RoomKept DEF CapacityInv
<1> QED
  BY <1>4, <1>5, <1>6 DEF CapacityInv, RoomLeft

LEMMA RetryKeepsRoom ==
  ASSUME CapacityInv, ActivationInv', NEW a \in Activations, Active(a), ActivateRetry(a),
         UNCHANGED signupVars, CapacityHolds'
  PROVE  CapacityInv'
<1>1. ActivationInv /\ act[a].answer = None /\ act[a].code \in Opt(EventCodes)
  BY ActivationFacts DEF CapacityInv, Activation
<1>2. act' = [act EXCEPT ![a] = act'[a]] /\ SameActivation(a) /\ act'[a].pc # "put"
  BY <1>1, RetryActivation
<1> DEFINE e == act[a].code
<1> HIDE DEF e
<1>3. e \in Opt(EventCodes) /\ act[a].code = e
  BY <1>1 DEF e
<1> QED
  BY <1>2, <1>3, ActivationStepKeepsRoom

\* The event of a try has room for the user who is approved.
LEMMA ValidHasRoom ==
  ASSUME Sequential, IsFiniteSet(Users), NEW e \in Valid, NEW u
  PROVE  e \in Events /\ Cardinality(Attendees(e) \ {u}) < Capacity[e]
<1>1. e \in Events /\ Cardinality(Attendees(e)) < Capacity[e] /\ Capacity[e] \in Nat
  BY ActivationCodeAssumption DEF Valid, Room, ActivationCount, Sequential
<1> DEFINE S == Attendees(e)
<1>2. S \in SUBSET Users
  BY DEF Attendees
<1> HIDE DEF S
<1>3. Cardinality(S) \in Nat /\ Cardinality(S \ {u}) \in Nat /\ Cardinality(S \ {u}) <= Cardinality(S)
  BY <1>2, AttendeesFinite
<1>4. Cardinality(S) < Capacity[e]
  BY <1>1 DEF S
<1>5. Cardinality(S \ {u}) < Capacity[e]
  BY <1>1, <1>3, <1>4
<1> QED
  BY <1>1, <1>5 DEF S

LEMMA ActivateTryKeepsRoom ==
  ASSUME Sequential, IsFiniteSet(Users), CapacityInv, ActivationInv', NEW a \in Activations,
         ActivateTry(a)
  PROVE  CapacityInv'
<1>1. Active(a) /\ UNCHANGED storeVars /\ UNCHANGED signupVars
  BY DEF ActivateTry, Active
<1>2. CapacityHolds'
  BY <1>1, SameAttendees, RoomKept DEF CapacityInv
<1>3. CASE ActivateRetry(a)
  BY <1>1, <1>2, <1>3, RetryKeepsRoom
<1>4. CASE ~ActivateRetry(a)
  <2>1. act[a] \in Activation /\ act[a].code \in Opt(EventCodes)
    BY DEF CapacityInv, ActivationInv, Activation
  <2>2. /\ act' = [act EXCEPT ![a] = act'[a]] /\ SameActivation(a)
        /\ act'[a].approve => act[a].code \in Valid
    BY <1>4, <2>1 DEF ActivateTry, CapacityInv, ActivationInv, SameActivation, Activation
  <2>3. ASSUME NEW e \in Opt(EventCodes), e = act[a].code, NEW u, u = act[a].user, act'[a].approve
        PROVE  (Cardinality(Attendees(e) \ {u}) < Capacity[e])'
    <3>1. Cardinality(Attendees(e) \ {u}) < Capacity[e]
      BY <2>2, <2>3, ValidHasRoom
    <3> QED
      BY <1>1, <3>1 DEF storeVars, Attendees, Latest
  <2>4. ASSUME NEW e \in Opt(EventCodes), e = act[a].code, act'[a].approve
        PROVE  (Cardinality(Attendees(e) \ {act[a].user}) < Capacity[e])'
    <3>1. act'[a].user = act[a].user
      BY <2>2 DEF SameActivation
    <3> QED
      BY <2>3, <2>4, <3>1
  <2> QED
    BY <1>1, <1>2, <2>1, <2>2, <2>4, ActivationStepKeepsRoom
<1> QED
  BY <1>3, <1>4

\* The write of an activation, whatever the handler makes of the answer.
LEMMA ActivationWriteKeepsRoom ==
  ASSUME IsFiniteSet(Users), CapacityInv, NEW a \in Activations, act[a].pc = "put",
         ActivationWritable(a), NewVersion(act[a].user, ActivationWritten(a)), UNCHANGED <<banned, now>>
  PROVE  CapacityHolds'
<1> DEFINE u == act[a].user
           c == act[a].code
           s == Latest(u)
           t == ActivationWritten(a)
<1>1. /\ ActivationInv /\ StoreTypeOK /\ u \in Users /\ t \in Signup
      /\ log'[u] = Append(log[u], t) /\ \A v \in Users \ {u} : log'[v] = log[v]
      /\ log[u][act[a].copy] = s /\ s # Absent
  BY ActivationWrote, ActivationWrittenType, ActivationFacts
     DEF CapacityInv, Active, ActivationWritable, IsCurrent
<1>2. ASSUME act[a].approve, NEW e, e = c, NEW v, v = u
      PROVE  CapacityHolds'
  <2>1. e \in Events /\ t.event = e /\ v \in Users
    BY <1>1, <1>2, ActivationWrittenType DEF ActivationInv, ActivationOK, Admits
  <2>2. Cardinality(Attendees(e) \ {v}) < Capacity[e]
    BY <1>1, <1>2, <2>1 DEF CapacityInv, RoomLeft, Approves
  <2> HIDE DEF t
  <2>3. Attendees(e)' \subseteq Attendees(e) \cup {v}
    BY <1>1, <1>2, <2>1, WriteAttendees
  <2>4. ASSUME NEW d \in Events \ {e}
        PROVE  Attendees(d)' \subseteq Attendees(d)
    <3>1. ~AttendsWith(t, d)
      BY <2>1 DEF AttendsWith
    <3> QED
      BY <1>1, <3>1, WriteAttendees
  <2> QED
    BY <1>1, <2>1, <2>2, <2>3, <2>4, RoomTaken DEF CapacityInv
<1>3. CASE ~act[a].approve
  <2>1. t = [s EXCEPT !.attempts = act[a].attempts] /\ s \in Signup
    BY <1>1, <1>3, LatestType DEF ActivationWritten
  <2>2. t.event = s.event /\ t.states = s.states
    BY <2>1 DEF Signup
  <2> HIDE DEF t
  <2>3. ASSUME NEW e \in Events
        PROVE  Attendees(e)' \subseteq Attendees(e)
    <3>1. AttendsWith(t, e) => AttendsWith(Latest(u), e)
      BY <1>1, <2>2 DEF AttendsWith
    <3> QED
      BY <1>1, <3>1, WriteAttendees
  <2> QED
    BY <2>3, RoomKept DEF CapacityInv, NoNewAttendees
<1> QED
  BY <1>2, <1>3

LEMMA ActivatePutKeepsRoom ==
  ASSUME IsFiniteSet(Users), CapacityInv, ActivationInv', NEW a \in Activations, ActivatePut(a)
  PROVE  CapacityInv'
<1> DEFINE answer == IF act[a].error = None THEN "ok" ELSE act[a].error
<1>1. /\ Active(a) /\ UNCHANGED signupVars /\ act' = [act EXCEPT ![a] = act'[a]]
      /\ act'[a] = Answered(a, answer)
  BY DEF ActivatePut, Active, CapacityInv, ActivationInv
<1>2. answer \in ActivationAnswers /\ act[a].code \in Opt(EventCodes)
  BY DEF CapacityInv, ActivationInv, Activation, Opt, ActivationAnswers
<1> HIDE DEF answer
<1>3. SameActivation(a) /\ act'[a].pc # "put"
  BY <1>1, <1>2, AnsweredType DEF CapacityInv
<1>4. CapacityHolds'
  BY ActivationWriteKeepsRoom DEF ActivatePut
<1> QED
  BY <1>1, <1>2, <1>3, <1>4, ActivationStepKeepsRoom

LEMMA FailedTryKeepsRoom ==
  ASSUME IsFiniteSet(Users), CapacityInv, ActivationInv', NEW a \in Activations,
         ActivateConflict(a) \/ ActivatePutError(a)
  PROVE  CapacityInv'
<1>1. Active(a) /\ UNCHANGED signupVars /\ ActivateRetry(a)
  BY DEF ActivateConflict, ActivatePutError, Active
<1>2. CASE UNCHANGED <<log, seen>>
  <2>1. NoNewAttendees
    BY <1>2 DEF NoNewAttendees, Attendees, Latest
  <2> QED
    BY <1>1, <2>1, RoomKept, RetryKeepsRoom DEF CapacityInv
<1>3. CASE /\ act[a].pc = "put" /\ ActivationWritable(a) /\ UNCHANGED <<banned, now>>
           /\ NewVersion(act[a].user, ActivationWritten(a))
  BY <1>1, <1>3, ActivationWriteKeepsRoom, RetryKeepsRoom
<1> QED
  BY <1>2, <1>3 DEF ActivateConflict, ActivatePutError, storeVars

LEMMA DraftEvent ==
  ASSUME NEW s \in Signup, NEW new \in Signup
  PROVE  Reactivated(s, new).event = new.event
BY DEF Reactivated, Signup

LEMMA SignupBuildKeepsRoom ==
  ASSUME Sequential, IsFiniteSet(Users), CapacityInv, ActivationInv', UNCHANGED activationVars,
         NEW r \in Requests, SignupBuild(r, Valid)
  PROVE  CapacityInv'
<1> DEFINE u == req[r].user
           e == req[r].event
<1>1. /\ InFlight(r) /\ UNCHANGED storeVars /\ UNCHANGED act /\ req[r].pc = "build"
      /\ TypeOK /\ HandlerTypeOK(r) /\ req[r] \in Request /\ u \in Users /\ e \in Opt(EventCodes)
      /\ Base(r) \in Signup \cup {Absent}
  BY HandlerFacts DEF SignupBuild, InFlight, CapacityInv, ActivationInv, activationVars, Request
<1>2. CapacityHolds'
  BY <1>1, SameAttendees, RoomKept DEF CapacityInv
<1>3. CASE \E n \in {"forbidden", "banned", "badEvent"} : Answer(r, n) /\ UNCHANGED draft
  <2>1. /\ req' = [req EXCEPT ![r] = req'[r]] /\ req'[r].pc = "done" /\ req'[r].user = u
    BY <1>1, <1>3, AnswerType DEF SignupAnswers, SameRequest
  <2>2. draft' = [draft EXCEPT ![r] = draft'[r]]
    BY <1>1, <1>3 DEF TypeOK
  <2> QED
    BY <1>1, <1>2, <2>1, <2>2, SignupStepKeepsRoom
<1>4. CASE ~\E n \in {"forbidden", "banned", "badEvent"} : Answer(r, n) /\ UNCHANGED draft
  <2> DEFINE new(a) == IF e = None THEN NewSignup(req[r].token, req[r].verdict, a)
                       ELSE WithEvent(NewSignup(req[r].token, req[r].verdict, a), e)
  <2>1. PICK a \in Assessments(u) :
          /\ Goto(r, "write")
          /\ e # None => e \in Valid
          /\ draft' = [draft EXCEPT ![r] = IF Base(r) = Absent THEN new(a)
                                           ELSE Reactivated(Base(r), new(a))]
    BY <1>4 DEF SignupBuild
  <2>2. new(a) \in Signup /\ new(a).event = e
    <3> DEFINE fresh == NewSignup(req[r].token, req[r].verdict, a)
    <3>1. fresh \in Signup /\ fresh.event = None
      <4>1. PICK required \in BOOLEAN, score \in Opt({"low", "ok"}) : a = <<required, score>>
        BY AssessmentsType
      <4>2. req[r].token \in Claims
        BY <1>1 DEF HandlerTypeOK
      <4>3. NewSignup(req[r].token, req[r].verdict, <<required, score>>) \in Signup
        BY <4>2, NewSignupType
      <4> QED
        BY <4>1, <4>3 DEF NewSignup
    <3> HIDE DEF fresh
    <3>2. e # None => WithEvent(fresh, e) \in Signup /\ WithEvent(fresh, e).event = e
      BY <2>1, <3>1, WithEventFields DEF Valid
    <3> QED
      BY <3>1, <3>2 DEF fresh
  <2> HIDE DEF new
  <2>3. /\ draft' = [draft EXCEPT ![r] = draft'[r]] /\ draft'[r].event = e
    <3>1. Base(r) # Absent => Reactivated(Base(r), new(a)).event = e
      BY <1>1, <2>2, DraftEvent
    <3> QED
      BY <1>1, <2>1, <2>2, <3>1 DEF TypeOK
  <2>4. req' = [req EXCEPT ![r] = req'[r]] /\ req'[r].user = u
    <3>1. Goto(r, "write")
      BY <2>1
    <3> QED
      BY <1>1, <3>1 DEF Goto, TypeOK, Request
  <2>5. ASSUME NEW c \in Opt(EventCodes), c = e, c # None, NEW v, v = u
        PROVE  (Cardinality(Attendees(c) \ {v}) < Capacity[c])'
    <3>1. c \in Valid
      BY <2>1, <2>5
    <3>2. Cardinality(Attendees(c) \ {v}) < Capacity[c]
      BY <3>1, ValidHasRoom
    <3> QED
      BY <1>1, <3>2 DEF storeVars, Attendees, Latest
  <2>6. ASSUME NEW c \in Opt(EventCodes), c = e, NEW v \in Users, v = u
        PROVE  CapacityInv'
    <3>1. c # None => (Cardinality(Attendees(c) \ {v}) < Capacity[c])'
      BY <2>5, <2>6
    <3> QED
      BY <1>1, <1>2, <2>3, <2>4, <2>6, <3>1, SignupStepKeepsRoom
  <2> QED
    BY <1>1, <2>6
<1> QED
  BY <1>3, <1>4

LEMMA SignupWriteKeepsRoom ==
  ASSUME IsFiniteSet(Users), CapacityInv, ActivationInv', UNCHANGED activationVars,
         NEW r \in Requests, SignupWrite(r) \/ SignupWriteError(r)
  PROVE  CapacityInv'
<1> DEFINE u == req[r].user
           s == draft[r]
<1>1. /\ InFlight(r) /\ UNCHANGED act /\ UNCHANGED draft /\ req[r].pc = "write"
      /\ TypeOK /\ StoreTypeOK /\ u \in Users
  BY HandlerFacts
     DEF SignupWrite, SignupWriteError, InFlight, CapacityInv, ActivationInv, activationVars
<1>2. PICK n \in {"internal", "conflict", "rejected", "accepted"} : Answer(r, n)
  BY DEF SignupWrite, SignupWriteError, Outcome
<1>3. /\ req' = [req EXCEPT ![r] = req'[r]] /\ req'[r].pc = "done" /\ req'[r].user = u
  BY <1>1, <1>2, AnswerType DEF SignupAnswers, SameRequest
<1>4. draft' = [draft EXCEPT ![r] = draft'[r]]
  BY <1>1 DEF TypeOK
<1>5. CapacityHolds'
  <2>1. CASE UNCHANGED <<log, seen>>
    <3>1. NoNewAttendees
      BY <2>1 DEF NoNewAttendees, Attendees, Latest
    <3> QED
      BY <3>1, RoomKept DEF CapacityInv
  <2>2. CASE Writable(r) /\ NewVersion(u, s) /\ UNCHANGED <<banned, now>>
    <3>1. s \in Signup
      BY <1>1, <2>2, DraftWritten DEF CapacityInv, ActivationInv
    <3>2. /\ log'[u] = Append(log[u], s) /\ \A v \in Users \ {u} : log'[v] = log[v]
      BY <1>1, <2>2, <3>1, NewVersionType
    <3>3. ASSUME NEW e \in Events, s.event # e
          PROVE  Attendees(e)' \subseteq Attendees(e)
      <4>1. ~AttendsWith(s, e)
        BY <3>3 DEF AttendsWith
      <4> QED
        BY <1>1, <3>1, <3>2, <4>1, WriteAttendees
    <3>4. ASSUME NEW e \in Events, s.event = e, NEW v, v = u
          PROVE  CapacityHolds'
      <4>1. Cardinality(Attendees(e) \ {v}) < Capacity[e]
        BY <1>1, <3>4 DEF CapacityInv, RoomLeft, Approves
      <4>2. Attendees(e)' \subseteq Attendees(e) \cup {v}
        BY <1>1, <3>1, <3>2, <3>4, WriteAttendees
      <4>3. \A d \in Events \ {e} : Attendees(d)' \subseteq Attendees(d)
        BY <3>3, <3>4
      <4> QED
        BY <1>1, <3>4, <4>1, <4>2, <4>3, RoomTaken DEF CapacityInv
    <3>5. CASE s.event \notin Events
      BY <3>3, <3>5, RoomKept DEF CapacityInv, NoNewAttendees
    <3> QED
      BY <3>4, <3>5
  <2> QED
    BY <2>1, <2>2 DEF SignupWrite, SignupWriteError
<1>6. PICK e \in Opt(EventCodes) : TRUE
  BY DEF Opt
<1> QED
  BY <1>1, <1>3, <1>4, <1>5, <1>6, SignupStepKeepsRoom

\* The environment takes users off events, and adds none unless an administrator approves
\* by hand somebody who is deactivated.
LEMMA StoreKeepsRoom ==
  ASSUME StoreTypeOK, StoreNext, "admin" \notin External
  PROVE  NoNewAttendees
<1>1. CASE UNCHANGED log
  BY <1>1 DEF NoNewAttendees, Attendees, Latest
<1>2. ASSUME NEW u \in Users, NEW s \in Signup \cup {Absent}, OperatorWrites(u, s),
             \A e \in Events : AttendsWith(s, e) => AttendsWith(Latest(u), e)
      PROVE  NoNewAttendees
  <2>1. log'[u] = Append(log[u], s) /\ \A v \in Users \ {u} : log'[v] = log[v]
    BY <1>2, NewVersionType DEF OperatorWrites
  <2> QED
    BY <1>2, <2>1, WriteAttendees DEF NoNewAttendees
<1>3. ASSUME NEW s \in Signup, NEW e \in Events, NEW u
      PROVE  /\ AttendsWith(Approved(s), e) => AttendsWith(s, e)
             /\ AttendsWith(Deactivated(s), e) => AttendsWith(s, e)
             /\ \A c \in Conditions(u, s) : AttendsWith(Reported(s, c), e) => AttendsWith(s, e)
  <2>1. s # Absent
    BY HostStoreAssumption
  <2>2. /\ Approved(s).event = s.event /\ Approved(s).states = s.states
        /\ "deactivated" \in Deactivated(s).states
    BY DEF Approved, Deactivated, Signup
  <2>3. \A c \in Conditions(u, s) : Reported(s, c).event = s.event /\ Reported(s, c).states = s.states
    BY DEF Reported, Signup
  <2> QED
    BY <2>1, <2>2, <2>3 DEF AttendsWith
<1>4. ASSUME NEW u \in Users, OperatorApproves(u)
      PROVE  NoNewAttendees
  <2>1. Latest(u) \in Signup
    BY <1>4, LatestType DEF OperatorApproves
  <2> QED
    BY <1>2, <1>3, <1>4, <2>1, OperatorType DEF OperatorApproves
<1>5. ASSUME NEW u \in Users, OperatorDeactivates(u)
      PROVE  NoNewAttendees
  <2>1. Latest(u) \in Signup
    BY <1>5, LatestType DEF OperatorDeactivates
  <2> QED
    BY <1>2, <1>3, <1>5, <2>1, OperatorType DEF OperatorDeactivates
<1>6. ASSUME NEW u \in Users, OperatorReports(u)
      PROVE  NoNewAttendees
  <2>1. Latest(u) \in Signup
    BY <1>6, LatestType DEF OperatorReports
  <2> QED
    BY <1>2, <1>3, <1>6, <2>1, OperatorType DEF OperatorReports
<1>7. ASSUME NEW u \in Users, OperatorDeletes(u)
      PROVE  NoNewAttendees
  <2>1. \A e : ~AttendsWith(Absent, e)
    BY DEF AttendsWith
  <2> QED
    BY <1>2, <1>7, <2>1 DEF OperatorDeletes
<1> QED
  BY <1>1, <1>4, <1>5, <1>6, <1>7
     DEF StoreNext, InformerSync, Tick, BanPhone, BanUser, AdminApproves

LEMMA CapacityInitOK == IsFiniteSet(Users) /\ ActivationInit => CapacityInv
<1> SUFFICES ASSUME IsFiniteSet(Users), ActivationInit
             PROVE  CapacityInv
  OBVIOUS
<1>1. ActivationInv
  BY ActivationInitOK
<1>2. Alone /\ RoomLeft
  BY DEF ActivationInit, Alone, RoomLeft, Approves, Active, InFlight, Idle, NoActivation
<1>3. ASSUME NEW e \in Events
      PROVE  Attendees(e) = {}
  <2>1. ASSUME NEW u \in Users
        PROVE  Latest(u) = Absent \/ Latest(u).event = None
    <3>1. ASSUME NEW t \in Claims
          PROVE  Inactive(t).event = None /\ Waiting(t).event = None
      <4> DEFINE new == NewSignup(t, None, <<FALSE, None>>)
      <4>1. new \in Signup /\ new.event = None
        <5>1. new \in Signup
          BY NewSignupType DEF Opt
        <5> QED
          BY <5>1 DEF NewSignup
      <4>2. Inactive(t) = [Deactivated([new EXCEPT !.activated = 1]) EXCEPT !.status = "deactivated"]
        BY DEF Inactive
      <4> HIDE DEF new
      <4> DEFINE active == [new EXCEPT !.activated = 1]
                 gone == Deactivated(active)
      <4>3. active \in Signup /\ active.event = None
        BY <4>1 DEF Signup, Opt
      <4> HIDE DEF active
      <4>4. gone \in Signup /\ gone.event = None
        BY <4>3, OperatorType DEF Deactivated, Signup
      <4>5. Inactive(t) = [gone EXCEPT !.status = "deactivated"]
        BY <4>2 DEF active
      <4> HIDE DEF gone
      <4>6. Inactive(t).event = None
        BY <4>4, <4>5 DEF Signup
      <4> QED
        BY <4>6 DEF Waiting, NewSignup
    <3>2. \E s : log[u] = <<s>> /\ (s = Absent \/ s.event = None)
      BY <3>1 DEF ActivationInit
    <3> QED
      BY <3>2 DEF Latest
  <2> QED
    BY <2>1, HostStoreAssumption DEF Attendees
<1>4. CapacityHolds
  BY <1>3, FS_EmptySet, ActivationCodeAssumption DEF CapacityHolds
<1> QED
  BY <1>1, <1>2, <1>4 DEF CapacityInv

LEMMA CapacityNextOK ==
  ASSUME Sequential, IsFiniteSet(Users), "admin" \notin External,
         CapacityInv, [ActivationNext]_allVars
  PROVE  CapacityInv'
<1>1. ActivationInv'
  BY ActivationNextOK DEF CapacityInv
<1>2. CASE UNCHANGED <<storeVars, signupVars, act>>
  BY <1>1, <1>2, SameAttendees, OtherStepKeepsRoom DEF signupVars
<1>3. CASE \E a \in Activations : ActivationArrive(a)
  BY <1>1, <1>3, ActivateStartKeepsRoom DEF ActivationArrive
<1>4. CASE \E a \in Activations : ActivationHandle(a)
  BY <1>1, <1>4, ActivateTryKeepsRoom, ActivatePutKeepsRoom, FailedTryKeepsRoom,
     ActivateUnknownKeepsRoom DEF ActivationHandle
<1>5. ASSUME NEW r \in Requests, SignupHandle(r, Valid), UNCHANGED activationVars
      PROVE  CapacityInv'
  <2>1. CASE SignupVerify(r)
    <3>1. /\ InFlight(r) /\ UNCHANGED storeVars /\ UNCHANGED <<act, draft>>
          /\ TypeOK /\ req[r] \in Request /\ req[r].user \in Users
      BY <1>5, <2>1, HandlerFacts
         DEF SignupVerify, InFlight, CapacityInv, ActivationInv, activationVars
    <3>2. CapacityHolds'
      BY <3>1, SameAttendees, RoomKept DEF CapacityInv
    <3>3. /\ req' = [req EXCEPT ![r] = req'[r]]
          /\ req'[r].pc = "build" /\ req'[r].user = req[r].user
      BY <2>1, <3>1 DEF SignupVerify, TypeOK, Request
    <3>4. draft' = [draft EXCEPT ![r] = draft'[r]] /\ None \in Opt(EventCodes)
      BY <3>1 DEF TypeOK, Opt
    <3> QED
      BY <1>1, <3>1, <3>2, <3>3, <3>4, SignupStepKeepsRoom
  <2> QED
    BY <1>1, <1>5, <2>1, SignupBuildKeepsRoom, SignupWriteKeepsRoom DEF SignupHandle
<1>6. CASE StoreNext /\ UNCHANGED <<signupVars, activationVars>>
  <2>1. StoreTypeOK
    BY DEF CapacityInv, ActivationInv, IInv, TypeOK
  <2> QED
    BY <1>1, <1>6, <2>1, StoreKeepsRoom, OtherStepKeepsRoom DEF activationVars, signupVars
<1> QED
  BY <1>2, <1>3, <1>4, <1>5, <1>6
     DEF ActivationNext, OperatorCounts, ActivationFinished, allVars, storeVars, signupVars

\* An event has no more attendees than seats, however its code is entered and whatever
\* writes fail, as long as requests are handled one at a time, the caches and the count of
\* the operator keep up, and nobody is approved by hand (verification_service.go:467).
THEOREM CapacityAlwaysHolds ==
  ASSUME Sequential, IsFiniteSet(Users), "admin" \notin External
  PROVE  ActivationSpec => []CapacityHolds
<1>1. CapacityInv /\ [ActivationNext]_allVars => CapacityInv'
  BY CapacityNextOK
<1>2. ActivationInit => CapacityInv
  BY CapacityInitOK
<1>3. CapacityInv => CapacityHolds
  BY DEF CapacityInv
<1> QED
  BY <1>1, <1>2, <1>3, PTL DEF ActivationSpec

-----------------------------------------------------------------------------
(* Wrong codes, where requests are handled one at a time, the caches do    *)
(* not lag, writes do not fail and nobody else writes: every wrong code is *)
(* on the count of the UserSignup.                                         *)

Undisturbed == Sequential /\ ~WriteErrors /\ External \subseteq {"ban", "banUser"}

NotLetIn(u) == \A a \in Activations : act[a].user = u => ~act[a].approve

\* The wrong codes of u are on the count of its UserSignup.
Counted(u) ==
  /\ Latest(u) = Absent => WrongCodes(u) = {}
  /\ Latest(u) # Absent => Cardinality(WrongCodes(u)) <= Attempts(Latest(u))
  /\ Cardinality(WrongCodes(u)) <= AttemptsAllowed

\* Activation a, of u, knows the UserSignup as it is, and counts on from there.
GuessOK(a, u) ==
  LET q == act[a] IN
    /\ q.pc = "signUp" => Latest(u) = Absent
    /\ q.pc \in {"try", "put"} =>
         /\ Latest(u) # Absent
         /\ NotLetIn(u) => Cardinality(WrongCodes(u)) < AttemptsAllowed
    /\ q.pc = "try" => q.error = None /\ q.attempts >= Attempts(Latest(u))
    /\ q.pc = "put" => /\ q.copy = Len(log[u])
                       /\ IF q.approve THEN q.error = None
                          ELSE q.error # None /\ q.attempts > Attempts(Latest(u))

GuessInv ==
  /\ ActivationInv /\ Alone /\ CachesFresh
  /\ \A a \in Activations, u \in Users : act[a].user = u => GuessOK(a, u)
  /\ \A r \in Requests, u \in Users : InFlight(r) /\ req[r].user = u => Latest(u) = Absent
  /\ \A u \in Users : NotLetIn(u) => Counted(u)
  /\ \A a \in Activations : act[a].pc \in {"idle", "signUp", "try"} => ~act[a].approve

\* Handlers begin when nobody is at work, and the only one at work goes on.
LEMMA AloneNextOK ==
  ASSUME Sequential, ActivationInv, Alone, [ActivationNext]_allVars
  PROVE  Alone'
<1>1. CASE UNCHANGED <<act, req>>
  BY <1>1 DEF Alone, Active, InFlight
<1>2. ASSUME NEW a \in Activations, ActivationArrive(a)
      PROVE  Alone'
  <2>1. MayActivate(a) /\ UNCHANGED req
    BY <1>2 DEF ActivationArrive, ActivateStart, signupVars
  <2>2. (\A b \in Activations : ~Active(b)) /\ \A r \in Requests : ~InFlight(r)
    BY <2>1, NobodyAtWork DEF MayActivate
  <2>3. \A b \in Activations : b # a => act'[b] = act[b]
    BY <1>2, OnlyOwnActivation
  <2> QED
    BY <2>1, <2>2, <2>3 DEF Alone, Active, InFlight
<1>3. ASSUME NEW a \in Activations, NEW r \in Requests, NEW t \in Claims, ActivateUnknown(a, r, t)
      PROVE  Alone'
  <2>1. Active(a) /\ act'[a].pc = "done" /\ \A q \in Requests : q # r => req'[q] = req[q]
    BY <1>3 DEF ActivateUnknown, SignupStart, Start, Active, ActivationInv, IInv, TypeOK, Activation
  <2>2. \A b \in Activations : b # a => act'[b] = act[b]
    BY <1>3, OnlyOwnActivation DEF ActivationHandle
  <2>3. (\A b \in Activations : b # a => ~Active(b)) /\ \A q \in Requests : ~InFlight(q)
    BY <2>1 DEF Alone
  <2> QED
    BY <2>1, <2>2, <2>3 DEF Alone, Active, InFlight
<1>4. ASSUME NEW a \in Activations, ActivationHandle(a),
             ~\E r \in Requests, t \in Claims : ActivateUnknown(a, r, t)
      PROVE  Alone'
  <2>1. Active(a) /\ UNCHANGED req
    BY <1>4 DEF ActivationHandle, ActivateTry, ActivatePut, ActivateConflict, ActivatePutError,
                Active, signupVars
  <2>2. \A b \in Activations : b # a => act'[b] = act[b]
    BY <1>4, OnlyOwnActivation
  <2> QED
    BY <2>1, <2>2 DEF Alone, Active, InFlight
<1>5. ASSUME NEW r \in Requests, SignupHandle(r, Valid), UNCHANGED act
      PROVE  Alone'
  <2>1. InFlight(r) /\ \A q \in Requests : q # r => req'[q] = req[q]
    BY <1>5 DEF SignupHandle, SignupVerify, SignupBuild, SignupWrite, SignupWriteError, Answer, Goto,
                InFlight, ActivationInv, IInv, TypeOK
  <2> QED
    BY <1>5, <2>1 DEF Alone, Active, InFlight
<1> QED
  BY <1>1, <1>2, <1>3, <1>4, <1>5
     DEF ActivationNext, OperatorCounts, ActivationFinished, allVars, activationVars, signupVars

LEMMA CachesFreshNextOK ==
  ASSUME Sequential, ActivationInv, CachesFresh, [ActivationNext]_allVars
  PROVE  CachesFresh'
<1>1. FreshReads /\ StoreTypeOK
  BY DEF Sequential, ActivationInv, IInv, TypeOK
<1>2. CASE UNCHANGED <<log, seen>>
  BY <1>2 DEF CachesFresh
<1>3. ASSUME NEW a \in Activations, ActivatePut(a) \/ ActivatePutError(a)
      PROVE  CachesFresh'
  <2>1. act[a].user \in Users /\ act[a].pc = "put"
    BY <1>3, ActivationFacts DEF ActivatePut, ActivatePutError, Active
  <2>2. ActivationWritable(a) => ActivationWritten(a) \in Signup
    BY <2>1, ActivationWrittenType
  <2> QED
    BY <1>1, <1>2, <1>3, <2>1, <2>2, FreshWrite DEF ActivatePut, ActivatePutError
<1>4. ASSUME NEW r \in Requests, SignupWrite(r) \/ SignupWriteError(r)
      PROVE  CachesFresh'
  <2>1. req[r].user \in Users /\ req[r].pc = "write"
    BY <1>4, HandlerFacts DEF SignupWrite, SignupWriteError, ActivationInv
  <2>2. Writable(r) /\ NewVersion(req[r].user, draft[r]) /\ UNCHANGED <<banned, now>>
          => draft[r] \in Signup
    BY <2>1, DraftWritten DEF ActivationInv
  <2> QED
    BY <1>1, <1>2, <1>4, <2>1, <2>2, FreshWrite DEF SignupWrite, SignupWriteError
<1>5. CASE StoreNext
  BY <1>1, <1>5, FreshEnvironment
<1>6. CASE (\E e \in Events : OperatorCounts(e)) \/ ActivationFinished \/ UNCHANGED allVars
  BY <1>2, <1>6 DEF OperatorCounts, ActivationFinished, allVars, storeVars
<1>7. ASSUME NEW a \in Activations, ActivationArrive(a)
      PROVE  CachesFresh'
  BY <1>2, <1>7 DEF ActivationArrive, ActivateStart, storeVars
<1>8. ASSUME NEW a \in Activations, ActivateTry(a) \/ ActivateConflict(a)
      PROVE  CachesFresh'
  BY <1>2, <1>8 DEF ActivateTry, ActivateConflict, storeVars
<1>9. ASSUME NEW a \in Activations, NEW r \in Requests, NEW t \in Claims, ActivateUnknown(a, r, t)
      PROVE  CachesFresh'
  BY <1>2, <1>9 DEF ActivateUnknown, SignupStart, storeVars
<1>10. ASSUME NEW r \in Requests, SignupVerify(r) \/ SignupBuild(r, Valid)
       PROVE  CachesFresh'
  BY <1>2, <1>10 DEF SignupVerify, SignupBuild, storeVars
<1>11. ASSUME NEW a \in Activations, ActivationHandle(a)
       PROVE  CachesFresh'
  BY <1>3, <1>8, <1>9, <1>11 DEF ActivationHandle
<1>12. ASSUME NEW r \in Requests, SignupHandle(r, Valid)
       PROVE  CachesFresh'
  BY <1>4, <1>10, <1>12 DEF SignupHandle
<1> QED
  BY <1>5, <1>6, <1>7, <1>11, <1>12 DEF ActivationNext

\* Who was let in stays so, and no wrong code is forgotten or added by a step of an
\* activation that does not answer "invalid".
LEMMA SameGuesses ==
  ASSUME NEW a \in Activations, act' = [act EXCEPT ![a] = act'[a]], ActivationInv,
         act[a].answer = None, act'[a].answer # "invalid", ~act[a].approve, NEW u \in Users
  PROVE  WrongCodes(u)' = WrongCodes(u) /\ (NotLetIn(u)' => NotLetIn(u))
<1>1. \A b \in Activations : b # a => act'[b] = act[b]
  BY DEF ActivationInv
<1>2. None # "invalid" /\ None # "ok"
  BY ActivationNoneAssumption DEF ActivationAnswers
<1> QED
  BY <1>1, <1>2 DEF WrongCodes, NotLetIn

LEMMA WrongCodesFinite ==
  ASSUME NEW u
  PROVE  IsFiniteSet(WrongCodes(u)) /\ Cardinality(WrongCodes(u)) \in Nat
<1>1. IsFiniteSet(Activations)
  BY FS_Interval, ActivationCodeAssumption DEF Activations
<1>2. WrongCodes(u) \in SUBSET Activations
  BY DEF WrongCodes
<1> QED
  BY <1>1, <1>2, FS_Subset, FS_CardinalityType

LEMMA AttemptsType ==
  ASSUME NEW s \in Signup
  PROVE  Attempts(s) \in Nat
BY DEF Attempts, Signup, Opt

\* A step that leaves the versions and the wrong codes of u alone.
LEMMA CountedStable ==
  ASSUME NEW u \in Users, log'[u] = log[u], WrongCodes(u)' = WrongCodes(u), Counted(u)
  PROVE  Counted(u)'
<1>1. Latest(u)' = Latest(u)
  BY DEF Latest
<1> QED
  BY <1>1 DEF Counted

\* A step of the activation at work, when no sign-up is.
LEMMA GuessStepOK ==
  ASSUME ActivationInv', Alone', CachesFresh', GuessInv, NEW a \in Activations,
         act' = [act EXCEPT ![a] = act'[a]], \A r \in Requests : ~InFlight(r)',
         \A b \in Activations : b # a => ~Active(b),
         \A u \in Users : act'[a].user = u => GuessOK(a, u)',
         \A u \in Users : NotLetIn(u)' => Counted(u)',
         act'[a].pc \in {"idle", "signUp", "try"} => ~act'[a].approve
  PROVE  GuessInv'
<1>1. ASSUME NEW b \in Activations, NEW u \in Users, act'[b].user = u
      PROVE  GuessOK(b, u)'
  <2>1. CASE b = a
    BY <1>1, <2>1
  <2>2. CASE b # a
    <3>1. act'[b] = act[b] /\ act'[b].pc \notin {"signUp", "try", "put"}
      BY <2>2 DEF GuessInv, ActivationInv, Active
    <3> QED
      BY <3>1 DEF GuessOK
  <2> QED
    BY <2>1, <2>2
<1>2. \A b \in Activations : act'[b].pc \in {"idle", "signUp", "try"} => ~act'[b].approve
  BY DEF GuessInv, ActivationInv
<1> QED
  BY <1>1, <1>2 DEF GuessInv

\* An activation of u begins at p, and it takes s for the UserSignup.
LEMMA ActivationBegins ==
  ASSUME Undisturbed, GuessInv, ActivationInv', Alone', CachesFresh', NEW a \in Activations,
         NEW p \in Replicas, NEW u \in Users, NEW c \in Opt(EventCodes), NEW s, s = Cached(p, u),
         MayActivate(a), UNCHANGED <<storeVars, signupVars>>,
         NEW pc \in {"signUp", "try", "done"}, NEW n, NEW answer \in {None, "tooMany"},
         act' = [act EXCEPT ![a] = [NoActivation EXCEPT !.pc = pc, !.at = p, !.user = u, !.code = c,
                                                        !.base = seen[p][u], !.attempts = n,
                                                        !.answer = answer]],
         pc = "signUp" => s = Absent,
         pc = "try" => s # Absent /\ n = Attempts(s) /\ ~AttemptsUsedUp(s)
  PROVE  GuessInv'
<1>1. /\ (\A b \in Activations : ~Active(b)) /\ (\A r \in Requests : ~InFlight(r))
      /\ UNCHANGED <<storeVars, req>> /\ act[a].pc = "idle"
  BY NobodyAtWork DEF MayActivate, Undisturbed, signupVars
<1>2. /\ act' = [act EXCEPT ![a] = [NoActivation EXCEPT !.pc = pc, !.at = p, !.user = u, !.code = c,
                                                            !.base = seen[p][u], !.attempts = n,
                                                            !.answer = answer]]
      /\ pc = "signUp" => s = Absent
      /\ pc = "try" => s # Absent /\ n = Attempts(s) /\ ~AttemptsUsedUp(s)
  OBVIOUS
<1>3. /\ act' = [act EXCEPT ![a] = act'[a]] /\ act'[a].pc = pc /\ act'[a].user = u
      /\ act'[a].attempts = n /\ act'[a].error = None /\ act'[a].answer = answer
      /\ ~act'[a].approve /\ ~act[a].approve
  BY <1>1, <1>2 DEF GuessInv, ActivationInv, NoActivation
<1>4. s = Latest(u) /\ Latest(u)' = s
  BY <1>1 DEF Cached, Latest, GuessInv, CachesFresh, storeVars
<1>5. act[a].answer = None /\ answer # "invalid"
  BY <1>1, <1>2, ActivationNoneAssumption
     DEF GuessInv, ActivationInv, ActivationOK, ActivationAnswers
<1>6. ASSUME NEW v \in Users
      PROVE  /\ WrongCodes(v)' = WrongCodes(v) /\ log'[v] = log[v]
             /\ NotLetIn(v)' => NotLetIn(v) /\ Counted(v) /\ Counted(v)'
  <2>1. log'[v] = log[v]
    BY <1>1 DEF storeVars
  <2>2. WrongCodes(v)' = WrongCodes(v) /\ (NotLetIn(v)' => NotLetIn(v))
    BY <1>3, <1>5, SameGuesses DEF GuessInv
  <2> QED
    BY <2>1, <2>2, CountedStable DEF GuessInv
<1>7. ASSUME pc = "try", NotLetIn(u)'
      PROVE  (Cardinality(WrongCodes(u)) < AttemptsAllowed)'
  <2>1. Cardinality(WrongCodes(u)) <= Attempts(s) /\ Attempts(s) < AttemptsAllowed
        /\ Attempts(s) \in Nat
    <3>1. s \in Signup
      BY <1>2, <1>4, <1>7, LatestType DEF GuessInv, ActivationInv, IInv, TypeOK
    <3>2. Attempts(s) \in Nat
      BY <3>1, AttemptsType
    <3> QED
      BY <1>2, <1>4, <1>6, <1>7, <3>2, ActivationCodeAssumption DEF Counted, AttemptsUsedUp
  <2>2. Cardinality(WrongCodes(u)) < AttemptsAllowed
    BY <2>1, WrongCodesFinite, ActivationCodeAssumption
  <2> QED
    BY <1>6, <2>2
<1>8. pc = "try" => Attempts(s) \in Nat
  BY <1>2, <1>4, LatestType, AttemptsType DEF GuessInv, ActivationInv, IInv, TypeOK
<1>9. GuessOK(a, u)'
  BY <1>2, <1>3, <1>4, <1>7, <1>8 DEF GuessOK
<1>10. \A v \in Users : act'[a].user = v => v = u
  BY <1>3
<1> QED
  BY <1>1, <1>3, <1>6, <1>9, <1>10, GuessStepOK DEF InFlight

LEMMA ActivateStartGuess ==
  ASSUME Undisturbed, GuessInv, ActivationInv', Alone', CachesFresh', NEW a \in Activations,
         NEW p \in Replicas, NEW u \in Users, NEW c \in Opt(EventCodes), ActivateStart(a, p, u, c)
  PROVE  GuessInv'
<1> DEFINE s == Cached(p, u)
           Begins(pc, n, answer) ==
             act' = [act EXCEPT ![a] = [NoActivation EXCEPT !.pc = pc, !.at = p, !.user = u, !.code = c,
                                                            !.base = seen[p][u], !.attempts = n,
                                                            !.answer = answer]]
<1>1. \/ s = Absent /\ Begins("signUp", 0, None)
      \/ Begins("done", 0, "tooMany")
      \/ s # Absent /\ ~AttemptsUsedUp(s) /\ Begins("try", Attempts(s), None)
  BY DEF ActivateStart
<1>2. MayActivate(a) /\ UNCHANGED <<storeVars, signupVars>>
  BY DEF ActivateStart
<1>3. CASE s = Absent /\ Begins("signUp", 0, None)
  BY <1>2, <1>3, ActivationBegins
<1>4. CASE Begins("done", 0, "tooMany")
  BY <1>2, <1>4, ActivationBegins
<1>5. CASE s # Absent /\ ~AttemptsUsedUp(s) /\ Begins("try", Attempts(s), None)
  BY <1>2, <1>5, ActivationBegins
<1> QED
  BY <1>1, <1>3, <1>4, <1>5

LEMMA ActivateUnknownGuess ==
  ASSUME GuessInv, ActivationInv', Alone', CachesFresh', NEW a \in Activations, NEW r \in Requests,
         NEW t \in Claims, ActivateUnknown(a, r, t)
  PROVE  GuessInv'
<1>1. /\ Active(a) /\ UNCHANGED storeVars /\ act[a].pc = "signUp"
      /\ act' = [act EXCEPT ![a].pc = "done", ![a].answer = "handedOn"]
  BY DEF ActivateUnknown, SignupStart, Active
<1>2. /\ ActivationInv /\ act[a].user \in Users /\ act[a].answer = None /\ act[a] \in Activation
      /\ act[a].at \in Replicas /\ ~act[a].approve
  BY <1>1, ActivationFacts DEF GuessInv
<1>3. /\ act' = [act EXCEPT ![a] = act'[a]] /\ act'[a].pc = "done" /\ act'[a].answer = "handedOn"
  BY <1>1, <1>2 DEF ActivationInv, Activation
<1>4. /\ \A b \in Activations : b # a => ~Active(b) /\ act'[b] = act[b]
      /\ \A q \in Requests : ~InFlight(q)
  BY <1>1, <1>2 DEF GuessInv, Alone, ActivationInv
<1>5. /\ \A q \in Requests : q # r => req'[q] = req[q]
      /\ req'[r].user = act[a].user
  <2>1. PICK pc, n : Start(r, "signup", act[a].at, act[a].user, t, act[a].code, pc, n)
    BY DEF ActivateUnknown, SignupStart
  <2> DEFINE d == [Idle EXCEPT !.pc = pc, !.kind = "signup", !.at = act[a].at, !.user = act[a].user,
                               !.token = t, !.event = act[a].code,
                               !.base = seen[act[a].at][act[a].user], !.answer = n]
  <2>2. req' = [req EXCEPT ![r] = d]
    BY <2>1 DEF Start
  <2>3. d.user = act[a].user
    BY DEF Idle
  <2> HIDE DEF d
  <2> QED
    BY <1>2, <2>2, <2>3 DEF ActivationInv, IInv, TypeOK
<1>6. ASSUME NEW u \in Users, NotLetIn(u)'
      PROVE  Counted(u)'
  <2>1. log'[u] = log[u]
    BY <1>1 DEF storeVars
  <2>2. WrongCodes(u)' = WrongCodes(u) /\ NotLetIn(u)
    BY <1>2, <1>3, <1>6, SameGuesses
  <2> QED
    BY <2>1, <2>2, CountedStable DEF GuessInv
<1>7. ASSUME NEW q \in Requests, NEW u \in Users, InFlight(q)', req'[q].user = u
      PROVE  (Latest(u) = Absent)'
  <2>1. q = r /\ act[a].user = u
    BY <1>4, <1>5, <1>7 DEF InFlight
  <2>2. Latest(u) = Absent
    BY <1>1, <2>1 DEF GuessInv, GuessOK
  <2> QED
    BY <1>1, <2>2 DEF storeVars, Latest
<1>8. ASSUME NEW b \in Activations, NEW u \in Users
      PROVE  GuessOK(b, u)'
  <2>1. act'[b].pc \notin {"signUp", "try", "put"}
    BY <1>3, <1>4 DEF Active
  <2> QED
    BY <2>1 DEF GuessOK
<1>9. \A b \in Activations : act'[b].pc \in {"idle", "signUp", "try"} => ~act'[b].approve
  BY <1>3, <1>4 DEF GuessInv
<1> QED
  BY <1>6, <1>7, <1>8, <1>9 DEF GuessInv

LEMMA ActivateTryGuess ==
  ASSUME GuessInv, ActivationInv', Alone', CachesFresh', NEW a \in Activations, ActivateTry(a)
  PROVE  GuessInv'
<1>1. Active(a) /\ UNCHANGED storeVars /\ UNCHANGED signupVars /\ act[a].pc = "try"
  BY DEF ActivateTry, Active
<1>2. /\ ActivationInv /\ act[a].user \in Users /\ act[a].answer = None /\ act[a] \in Activation
      /\ act[a].at \in Replicas /\ ~act[a].approve
  BY <1>1, ActivationFacts DEF GuessInv
<1>3. /\ \A b \in Activations : b # a => ~Active(b)
      /\ \A r \in Requests : ~InFlight(r)'
  BY <1>1 DEF GuessInv, Alone, signupVars, InFlight
<1>4. ASSUME NEW u \in Users, u = act[a].user
      PROVE  GuessInv'
  <2>1. /\ GuessOK(a, u) /\ Cached(act[a].at, u) = Latest(u) /\ seen[act[a].at][u] = Len(log[u])
        /\ Latest(u)' = Latest(u) /\ Len(log'[u]) = Len(log[u])
    BY <1>1, <1>2, <1>4 DEF GuessInv, Cached, Latest, CachesFresh, storeVars
  <2>2. /\ Latest(u) # Absent /\ act[a].error = None /\ act[a].attempts \in Nat
        /\ act[a].attempts >= Attempts(Latest(u)) /\ Attempts(Latest(u)) \in Nat
    <3>1. Latest(u) # Absent
      BY <1>1, <2>1 DEF GuessOK
    <3>2. Latest(u) \in Signup
      BY <1>2, <3>1, LatestType DEF ActivationInv, IInv, TypeOK
    <3>3. Attempts(Latest(u)) \in Nat
      BY <3>2, AttemptsType
    <3> QED
      BY <1>1, <1>2, <2>1, <3>1, <3>3 DEF GuessOK, Activation
  <2>3. /\ act' = [act EXCEPT ![a] = act'[a]]
        /\ act'[a].pc = "put" /\ act'[a].user = u /\ act'[a].answer = None
        /\ act'[a].copy = Len(log[u])
        /\ IF act'[a].approve THEN act'[a].error = None
           ELSE act'[a].error = "invalid" /\ act'[a].attempts = act[a].attempts + 1
    BY <1>2, <1>4, <2>1, <2>2 DEF ActivateTry, ActivationInv, Activation
  <2>4. None # "invalid"
    BY ActivationNoneAssumption DEF ActivationAnswers
  <2>5. ASSUME NEW v \in Users
        PROVE  /\ WrongCodes(v)' = WrongCodes(v) /\ log'[v] = log[v]
               /\ NotLetIn(v)' => NotLetIn(v) /\ Counted(v)'
    <3>1. log'[v] = log[v]
      BY <1>1 DEF storeVars
    <3>2. WrongCodes(v)' = WrongCodes(v) /\ (NotLetIn(v)' => NotLetIn(v))
      BY <1>2, <2>3, <2>4, SameGuesses
    <3> QED
      BY <3>1, <3>2, CountedStable DEF GuessInv
  <2>6. NotLetIn(u)' => (Cardinality(WrongCodes(u)) < AttemptsAllowed)'
    <3>1. NotLetIn(u) => Cardinality(WrongCodes(u)) < AttemptsAllowed
      BY <1>1, <2>1 DEF GuessOK
    <3> QED
      BY <2>5, <3>1
  <2>7. GuessOK(a, u)'
    BY <2>1, <2>2, <2>3, <2>4, <2>6 DEF GuessOK
  <2>8. \A v \in Users : act'[a].user = v => v = u
    BY <2>3
  <2> QED
    BY <1>3, <2>3, <2>5, <2>7, <2>8, GuessStepOK
<1> QED
  BY <1>2, <1>4

LEMMA ActivatePutGuess ==
  ASSUME GuessInv, ActivationInv', Alone', CachesFresh', NEW a \in Activations, ActivatePut(a)
  PROVE  GuessInv'
<1> DEFINE answer == IF act[a].error = None THEN "ok" ELSE act[a].error
           t == ActivationWritten(a)
<1>1. /\ Active(a) /\ UNCHANGED signupVars /\ act[a].pc = "put" /\ ActivationWritable(a)
      /\ NewVersion(act[a].user, t) /\ UNCHANGED <<banned, now>>
      /\ act' = [act EXCEPT ![a] = act'[a]] /\ act'[a] = Answered(a, answer)
  BY DEF ActivatePut, Active, GuessInv, ActivationInv
<1>2. /\ ActivationInv /\ act[a].user \in Users /\ act[a].answer = None /\ act[a] \in Activation
      /\ StoreTypeOK /\ answer \in {"ok", "invalid"} /\ answer \in ActivationAnswers
  BY <1>1, ActivationFacts DEF GuessInv, Activation, Opt, ActivationAnswers
<1>3. /\ \A b \in Activations : b # a => ~Active(b) /\ act'[b] = act[b]
      /\ \A r \in Requests : ~InFlight(r)'
  BY <1>1, <1>2 DEF GuessInv, Alone, signupVars, InFlight, ActivationInv
<1>4. /\ log'[act[a].user] = Append(log[act[a].user], t)
      /\ \A v \in Users \ {act[a].user} : log'[v] = log[v]
      /\ log[act[a].user][act[a].copy] = Latest(act[a].user)
      /\ t \in Signup /\ t # Absent /\ Latest(act[a].user) # Absent
      /\ ~act[a].approve => t.attempts = act[a].attempts
  BY <1>1, <1>2, ActivationWrote, ActivationWrittenType, HostStoreAssumption
     DEF ActivationWritable, IsCurrent, Counts
<1> HIDE DEF t
<1>5. /\ act'[a].pc = "done" /\ act'[a].answer = answer /\ act'[a].user = act[a].user
      /\ act'[a].approve = act[a].approve
  <2> HIDE DEF answer
  <2> QED
    BY <1>1, <1>2, AnsweredType DEF SameActivation, Answered, Activation
<1>6. ASSUME NEW u \in Users, u # act[a].user, NotLetIn(u)'
      PROVE  Counted(u)'
  <2>1. WrongCodes(u)' = WrongCodes(u) /\ NotLetIn(u)
    BY <1>3, <1>5, <1>6 DEF WrongCodes, NotLetIn
  <2> QED
    BY <1>4, <1>6, <2>1, CountedStable DEF GuessInv
<1>7. ASSUME NEW u, u = act[a].user, NotLetIn(u)'
      PROVE  Counted(u)'
  <2>1. ~act[a].approve /\ NotLetIn(u)
    BY <1>3, <1>5, <1>7 DEF NotLetIn
  <2>2. GuessOK(a, u) /\ u \in Users
    BY <1>2, <1>7 DEF GuessInv
  <2>3. answer = "invalid"
    BY <1>1, <1>2, <2>1, <2>2 DEF GuessOK, Activation, Opt
  <2>4. /\ act[a].attempts > Attempts(Latest(u))
        /\ Cardinality(WrongCodes(u)) < AttemptsAllowed
    BY <1>1, <2>1, <2>2 DEF GuessOK
  <2>5. Cardinality(WrongCodes(u)) <= Attempts(Latest(u))
    BY <1>4, <1>7, <2>1, <2>2 DEF GuessInv, Counted
  <2>6. Latest(u)' = t
    BY <1>2, <1>4, <1>7, <2>2 DEF Latest, StoreTypeOK
  <2>7. Attempts(t) = act[a].attempts /\ Attempts(Latest(u)) \in Nat /\ act[a].attempts \in Nat
    <3>1. Latest(u) \in Signup /\ act[a].attempts \in Nat /\ act[a].attempts # None
      BY <1>2, <1>4, <1>7, <2>2, LatestType, HostStoreAssumption DEF Activation
    <3>2. Attempts(t) = act[a].attempts
      BY <1>4, <2>1, <3>1 DEF Attempts
    <3> QED
      BY <3>1, <3>2, AttemptsType
  <2>8. WrongCodes(u)' = (WrongCodes(u) \cup {a})
    BY <1>3, <1>5, <1>7, <2>3 DEF WrongCodes
  <2>9. ASSUME NEW W, W = WrongCodes(u)'
        PROVE  Cardinality(W) <= Cardinality(WrongCodes(u)) + 1 /\ Cardinality(W) \in Nat
               /\ Cardinality(WrongCodes(u)) \in Nat
    <3> DEFINE V == WrongCodes(u)
    <3>1. IsFiniteSet(V) /\ Cardinality(V) \in Nat /\ W = V \cup {a}
      BY <2>8, <2>9, WrongCodesFinite
    <3> HIDE DEF V
    <3>2. Cardinality(W) = IF a \in V THEN Cardinality(V) ELSE Cardinality(V) + 1
      BY <3>1, FS_AddElement
    <3>3. Cardinality(W) <= Cardinality(V) + 1 /\ Cardinality(W) \in Nat
      BY <3>1, <3>2
    <3> QED
      BY <3>1, <3>3 DEF V
  <2>10. ASSUME NEW W, W = WrongCodes(u)'
         PROVE  Cardinality(W) <= Attempts(t) /\ Cardinality(W) <= AttemptsAllowed
    BY <2>4, <2>5, <2>7, <2>9, <2>10, ActivationCodeAssumption
  <2>11. ASSUME NEW l, l = Latest(u)'
         PROVE  Counted(u)'
    BY <1>4, <2>6, <2>10 DEF Counted
  <2> QED
    BY <2>11
<1>8. ASSUME NEW u \in Users
      PROVE  GuessOK(a, u)'
  BY <1>5 DEF GuessOK
<1>9. \A u \in Users : NotLetIn(u)' => Counted(u)'
  <2>1. ASSUME NEW u \in Users, NotLetIn(u)'
        PROVE  Counted(u)'
    BY <1>6, <1>7, <2>1
  <2> QED
    BY <2>1
<1> QED
  BY <1>1, <1>3, <1>5, <1>8, <1>9, GuessStepOK

\* Nothing makes the write of a try fail.
LEMMA NoFailedTry ==
  ASSUME Undisturbed, GuessInv, NEW a \in Activations
  PROVE  ~ActivateConflict(a) /\ ~ActivatePutError(a)
<1>1. ASSUME act[a].pc = "put", NEW u, u = act[a].user
      PROVE  ActivationWritable(a)
  <2>1. Active(a)
    BY <1>1 DEF Active
  <2>2. u \in Users
    BY <1>1, <2>1, ActivationFacts DEF GuessInv
  <2>3. GuessOK(a, u)
    BY <1>1, <2>2 DEF GuessInv
  <2> QED
    BY <1>1, <2>3 DEF GuessOK, ActivationWritable, IsCurrent
<1> QED
  BY <1>1 DEF ActivateConflict, ActivatePutError, Undisturbed

\* A sign-up has no wrong code to account for: its user had no UserSignup.
LEMMA SignupGuess ==
  ASSUME GuessInv, ActivationInv', Alone', CachesFresh', UNCHANGED act,
         NEW r \in Requests, InFlight(r), req' = [req EXCEPT ![r] = req'[r]],
         InFlight(r)' => UNCHANGED log,
         NEW w \in Users, req[r].user = w, req'[r].user = w,
         \A v \in Users \ {w} : log'[v] = log[v],
         \/ log'[w] = log[w]
         \/ \E s \in Signup : log'[w] = Append(log[w], s)
  PROVE  GuessInv'
<1>1. ActivationInv /\ StoreTypeOK /\ Latest(w) = Absent
  BY DEF GuessInv, ActivationInv, IInv, TypeOK
<1>2. /\ \A b \in Activations : ~Active(b)
      /\ \A q \in Requests : q # r => req'[q] = req[q] /\ ~InFlight(q)
  BY <1>1 DEF GuessInv, Alone, ActivationInv, IInv, TypeOK
<1>3. ASSUME NEW b \in Activations, NEW u \in Users
      PROVE  GuessOK(b, u)'
  <2>1. act'[b].pc \notin {"signUp", "try", "put"}
    BY <1>2 DEF Active
  <2> QED
    BY <2>1 DEF GuessOK
<1>4. \A u \in Users : WrongCodes(u)' = WrongCodes(u) /\ (NotLetIn(u)' => NotLetIn(u))
  BY DEF WrongCodes, NotLetIn
<1>5. ASSUME NEW u \in Users, NotLetIn(u)', log'[u] = log[u]
      PROVE  Counted(u)'
  BY <1>4, <1>5, CountedStable DEF GuessInv
<1>6. ASSUME NotLetIn(w)', NEW s \in Signup, log'[w] = Append(log[w], s)
      PROVE  Counted(w)'
  <2>1. WrongCodes(w) = {} /\ WrongCodes(w)' = {}
    BY <1>1, <1>4, <1>6 DEF GuessInv, Counted
  <2>2. Latest(w)' = s
    BY <1>1, <1>6 DEF Latest, StoreTypeOK
  <2>3. s # Absent /\ Attempts(s) \in Nat /\ Cardinality({}) = 0
    BY AttemptsType, HostStoreAssumption, FS_EmptySet
  <2> QED
    BY <2>1, <2>2, <2>3, ActivationCodeAssumption DEF Counted
<1>7. ASSUME NEW q \in Requests, NEW u \in Users, InFlight(q)', req'[q].user = u
      PROVE  (Latest(u) = Absent)'
  <2>1. q = r /\ u = w
    BY <1>2, <1>7 DEF InFlight
  <2> QED
    BY <1>1, <1>7, <2>1 DEF Latest
<1> QED
  BY <1>3, <1>5, <1>6, <1>7 DEF GuessInv

LEMMA SignupHandleGuess ==
  ASSUME GuessInv, ActivationInv', Alone', CachesFresh', UNCHANGED activationVars,
         NEW r \in Requests, SignupHandle(r, Valid)
  PROVE  GuessInv'
<1>1. /\ InFlight(r) /\ UNCHANGED act /\ TypeOK /\ req[r] \in Request /\ req[r].user \in Users
  BY HandlerFacts
     DEF SignupHandle, SignupVerify, SignupBuild, SignupWrite, SignupWriteError, InFlight,
         GuessInv, ActivationInv, activationVars
<1>2. req' = [req EXCEPT ![r] = req'[r]] /\ req'[r].user = req[r].user
  BY <1>1 DEF SignupHandle, SignupVerify, SignupBuild, SignupWrite, SignupWriteError, Answer, Goto,
              TypeOK, Request
<1>3. CASE SignupVerify(r) \/ SignupBuild(r, Valid)
  <2>1. UNCHANGED log
    BY <1>3 DEF SignupVerify, SignupBuild, storeVars
  <2> QED
    BY <1>1, <1>2, <2>1, SignupGuess
<1>4. CASE SignupWrite(r) \/ SignupWriteError(r)
  <2>1. ~InFlight(r)'
    BY <1>1, <1>4 DEF SignupWrite, SignupWriteError, Answer, TypeOK, Request, InFlight
  <2>2. CASE UNCHANGED log
    BY <1>1, <1>2, <2>1, <2>2, SignupGuess
  <2>3. CASE Writable(r) /\ NewVersion(req[r].user, draft[r]) /\ UNCHANGED <<banned, now>>
    <3>1. /\ draft[r] \in Signup /\ StoreTypeOK
      BY <1>1, <1>4, <2>3, DraftWritten
         DEF SignupWrite, SignupWriteError, GuessInv, ActivationInv, TypeOK
    <3>2. /\ log'[req[r].user] = Append(log[req[r].user], draft[r])
          /\ \A v \in Users \ {req[r].user} : log'[v] = log[v]
      BY <1>1, <2>3, <3>1, NewVersionType
    <3> QED
      BY <1>1, <1>2, <2>1, <3>1, <3>2, SignupGuess
  <2> QED
    BY <1>4, <2>2, <2>3 DEF SignupWrite, SignupWriteError
<1> QED
  BY <1>3, <1>4 DEF SignupHandle

LEMMA OthersGuess ==
  ASSUME GuessInv, ActivationInv', Alone', CachesFresh', UNCHANGED <<act, req, log>>
  PROVE  GuessInv'
<1>1. /\ \A u : Latest(u)' = Latest(u) /\ WrongCodes(u)' = WrongCodes(u) /\ NotLetIn(u)' = NotLetIn(u)
      /\ \A r \in Requests : InFlight(r)' = InFlight(r)
  BY DEF Latest, WrongCodes, NotLetIn, InFlight
<1>2. \A u : Counted(u) => Counted(u)'
  BY <1>1 DEF Counted
<1>3. \A a, u : GuessOK(a, u) => GuessOK(a, u)'
  BY <1>1 DEF GuessOK
<1> QED
  BY <1>1, <1>2, <1>3 DEF GuessInv

LEMMA GuessInitOK == ActivationInit => GuessInv
<1> SUFFICES ASSUME ActivationInit
             PROVE  GuessInv
  OBVIOUS
<1>1. ActivationInv
  BY ActivationInitOK
<1>2. /\ \A a \in Activations : act[a].pc = "idle" /\ act[a].answer = None /\ ~act[a].approve
      /\ \A r \in Requests : req[r].pc = "idle"
  BY DEF ActivationInit, NoActivation, Idle
<1>3. Alone
  BY <1>2 DEF Alone, Active, InFlight
<1>4. \A u \in Users : Len(log[u]) = 1
  BY DEF ActivationInit
<1>5. CachesFresh
  BY <1>4 DEF ActivationInit, CachesFresh
<1>6. ASSUME NEW u \in Users
      PROVE  Counted(u)
  <2>1. WrongCodes(u) = {}
    BY <1>2, ActivationNoneAssumption DEF WrongCodes, ActivationAnswers
  <2>2. Latest(u) # Absent => Attempts(Latest(u)) \in Nat
    BY <1>1, LatestType, AttemptsType DEF ActivationInv, IInv, TypeOK
  <2> QED
    BY <2>1, <2>2, FS_EmptySet, ActivationCodeAssumption DEF Counted
<1> QED
  BY <1>1, <1>2, <1>3, <1>5, <1>6 DEF GuessInv, GuessOK, InFlight

LEMMA GuessNextOK ==
  ASSUME Undisturbed, GuessInv, [ActivationNext]_allVars
  PROVE  GuessInv'
<1>1. ActivationInv' /\ Alone' /\ CachesFresh'
  BY ActivationNextOK, AloneNextOK, CachesFreshNextOK DEF GuessInv, Undisturbed
<1>2. CASE UNCHANGED <<act, req, log>>
  BY <1>1, <1>2, OthersGuess
<1>3. CASE \E a \in Activations : ActivationArrive(a)
  BY <1>1, <1>3, ActivateStartGuess DEF ActivationArrive
<1>4. CASE \E a \in Activations : ActivationHandle(a)
  BY <1>1, <1>4, ActivateTryGuess, ActivatePutGuess, NoFailedTry, ActivateUnknownGuess
     DEF ActivationHandle
<1>5. CASE \E r \in Requests : SignupHandle(r, Valid) /\ UNCHANGED activationVars
  BY <1>1, <1>5, SignupHandleGuess
<1>6. CASE StoreNext /\ UNCHANGED <<signupVars, activationVars>>
  <2>1. UNCHANGED log
    BY <1>6 DEF Undisturbed, StoreNext, InformerSync, Tick, BanPhone, BanUser, OperatorApproves,
                OperatorDeactivates, OperatorReports, AdminApproves, OperatorDeletes
  <2> QED
    BY <1>2, <1>6, <2>1 DEF activationVars, signupVars
<1> QED
  BY <1>2, <1>3, <1>4, <1>5, <1>6
     DEF ActivationNext, OperatorCounts, ActivationFinished, allVars, storeVars, signupVars

\* A user who has a UserSignup, and none of whose activation codes has been right yet, has no
\* more wrong ones looked at than are allowed, when requests are handled one at a time, the
\* caches do not lag, writes do not fail and no update of another writer comes in between
\* (verification_service.go:578-582).
THEOREM AttemptsAlwaysLimited ==
  ASSUME Undisturbed
  PROVE  ActivationSpec => []AttemptsLimited
<1>1. GuessInv /\ [ActivationNext]_allVars => GuessInv'
  BY GuessNextOK
<1>2. ActivationInit => GuessInv
  BY GuessInitOK
<1>3. GuessInv => AttemptsLimited
  BY DEF GuessInv, NotLetIn, Counted, AttemptsLimited
<1> QED
  BY <1>1, <1>2, <1>3, PTL DEF ActivationSpec
=============================================================================
