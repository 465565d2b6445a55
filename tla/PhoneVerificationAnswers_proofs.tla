------------------- MODULE PhoneVerificationAnswers_proofs -------------------
(***************************************************************************)
(* What an answer of PhoneVerification tells, and which phones messages go *)
(* to: Answered and LookupInv, inductive beside IInv. Then what holds of   *)
(* requests handled one at a time on caches that do not lag: SettledInv,   *)
(* CountInv and TallyInv.                                                  *)
(***************************************************************************)
EXTENDS PhoneVerification_proofs, FiniteSetTheorems

-----------------------------------------------------------------------------
(* What an answer tells, for requests that are long answered: what they    *)
(* were answered for stays true.                                           *)

\* Nothing is taken back: versions, messages, bans and lookups.
Grows == LogGrows /\ SmsGrows /\ banned \subseteq banned' /\ lookups \subseteq lookups'

\* The snapshot of a request exists, also after its answer; it has no answer before it
\* has decided on one.
Placed(r) ==
  /\ req[r].pc # "idle" => /\ req[r].user \in Users
                           /\ req[r].base \in 1 .. Len(log[req[r].user])
  /\ req[r].pc \notin {"get", "put", "done"} => req[r].answer = None

\* What the update of a request that will be answered ok does to any version.
OkUpdate(r) ==
  LET set == writes[r].set IN
    IF req[r].kind = "verify"
    THEN writes[r].del = {"verification-required"}
    ELSE /\ {"phone", "code"} \subseteq DOMAIN set
         /\ set.phone = req[r].phone
         /\ set.code # None
         /\ sms[set.code] # None
         /\ sms[set.code].phone = req[r].phone

\* It has done so.
OkVersion(r, s) ==
  /\ s # Absent
  /\ IF req[r].kind = "verify"
     THEN "verification-required" \notin s.states
     ELSE /\ s.phone = req[r].phone
          /\ s.code # None
          /\ sms[s.code] # None
          /\ sms[s.code].phone = req[r].phone

OkWritten(r) == \E i \in req[r].base + 1 .. Len(log[req[r].user]) : OkVersion(r, log[req[r].user][i])

\* The phone of a refused request is taken.
Taken(r) ==
  \/ PhoneOf(r) \in banned
  \/ \E v \in Users \ {req[r].user} : \E s \in Versions(v) :
       s.approval = "approved" /\ s.phone = PhoneOf(r)

\* The handler of r, from its arrival on.
AnswerHolds(r) ==
  /\ Placed(r)
  /\ req[r].pc \in {"lookup", "send"} => "phone" \in DOMAIN writes[r].set
  /\ "phone" \in DOMAIN writes[r].set => /\ req[r].kind = "init"
                                         /\ writes[r].set.phone = req[r].phone
  /\ req[r].answer = "ok" => /\ req[r].pc \in {"get", "put"} => OkUpdate(r)
                             /\ req[r].pc = "done" => OkWritten(r)
  /\ req[r].answer = "phoneInUse" => req[r].pc = "done" /\ Taken(r)

Answered == \A r \in Requests : AnswerHolds(r)

LEMMA PhoneOfStable ==
  ASSUME LogGrows, NEW r \in Requests, req[r].user \in Users,
         req[r].base \in 1 .. Len(log[req[r].user]), SameRequest(r)
  PROVE  Base(r)' = Base(r) /\ PhoneOf(r)' = PhoneOf(r)
BY DEF LogGrows, SameRequest, Base, PhoneOf

LEMMA VersionsGrow ==
  ASSUME TypeOK, LogGrows, NEW u \in Users
  PROVE  Versions(u) \subseteq Versions(u)'
<1> SUFFICES ASSUME NEW i \in DOMAIN log[u], log[u][i] # Absent
             PROVE  log[u][i] \in Versions(u)'
  BY DEF Versions
<1>1. log[u] \in Seq(Signup \cup {Absent})
  BY DEF TypeOK, StoreTypeOK
<1>2. DOMAIN log[u] = 1 .. Len(log[u]) /\ Len(log[u]) \in Nat
  BY <1>1
<1>3. log'[u][i] = log[u][i] /\ i \in 1 .. Len(log'[u])
  BY <1>2 DEF LogGrows
<1> QED
  BY <1>3 DEF Versions

LEMMA TakenStable ==
  ASSUME TypeOK, Grows, NEW r \in Requests, req[r].user \in Users,
         req[r].base \in 1 .. Len(log[req[r].user]), SameRequest(r), Taken(r)
  PROVE  Taken(r)'
<1>1. PhoneOf(r)' = PhoneOf(r) /\ req'[r].user = req[r].user
  BY PhoneOfStable DEF Grows, SameRequest
<1>2. \A v \in Users : Versions(v) \subseteq Versions(v)'
  BY VersionsGrow DEF Grows
<1> QED
  BY <1>1, <1>2 DEF Taken, Grows

LEMMA OkUpdateStable ==
  ASSUME SmsGrows, NEW r \in Requests, IsUpdate(writes[r]), OkUpdate(r), SameRequest(r),
         writes'[r] = writes[r]
  PROVE  OkUpdate(r)'
<1>1. /\ "code" \in DOMAIN writes[r].set => writes[r].set.code \in Opt(Codes)
      /\ req'[r].kind = req[r].kind /\ req'[r].phone = req[r].phone
  BY DEF IsUpdate, SameRequest
<1>2. \A c \in Codes : sms[c] # None => sms'[c] = sms[c]
  BY DEF SmsGrows
<1> QED
  BY <1>1, <1>2 DEF OkUpdate, Opt

LEMMA OkVersionStable ==
  ASSUME SmsGrows, NEW r \in Requests, NEW s \in Signup \cup {Absent}, OkVersion(r, s), SameRequest(r)
  PROVE  OkVersion(r, s)'
<1>1. /\ s # Absent => s.code \in Opt(Codes)
      /\ req'[r].kind = req[r].kind /\ req'[r].phone = req[r].phone
  BY DEF Signup, SameRequest
<1>2. \A c \in Codes : sms[c] # None => sms'[c] = sms[c]
  BY DEF SmsGrows
<1> QED
  BY <1>1, <1>2 DEF OkVersion, Opt

LEMMA OkWrittenStable ==
  ASSUME TypeOK, Grows, NEW r \in Requests, req[r].user \in Users, req[r].base \in Nat,
         OkWritten(r), SameRequest(r)
  PROVE  OkWritten(r)'
<1>1. PICK i \in req[r].base + 1 .. Len(log[req[r].user]) : OkVersion(r, log[req[r].user][i])
  BY DEF OkWritten
<1>2. log[req[r].user] \in Seq(Signup \cup {Absent}) /\ Len(log[req[r].user]) \in Nat
  BY DEF TypeOK, StoreTypeOK
<1>3. i \in 1 .. Len(log[req[r].user])
  BY <1>1, <1>2
<1>4. /\ log[req[r].user][i] \in Signup \cup {Absent}
      /\ log'[req[r].user][i] = log[req[r].user][i]
      /\ Len(log'[req[r].user]) >= Len(log[req[r].user])
  BY <1>2, <1>3 DEF Grows, LogGrows
<1>5. OkVersion(r, log[req[r].user][i])'
  <2>1. ASSUME NEW s \in Signup \cup {Absent}, s = log[req[r].user][i]
        PROVE  OkVersion(r, s)'
    BY <1>1, <2>1, OkVersionStable DEF Grows
  <2> QED
    BY <1>4, <2>1 DEF SameRequest, OkVersion
<1>6. i \in req'[r].base + 1 .. Len(log'[req'[r].user])
  <2>1. Len(log'[req[r].user]) \in Nat
    BY <1>2 DEF Grows, LogGrows
  <2> QED
    BY <1>1, <1>2, <1>4 DEF SameRequest
<1> QED
  BY <1>5, <1>6 DEF OkWritten

\* The requests that take no step.
LEMMA AnswerStable ==
  ASSUME TypeOK, Grows, NEW r \in Requests, AnswerHolds(r), req'[r] = req[r], writes'[r] = writes[r]
  PROVE  AnswerHolds(r)'
<1>1. SameRequest(r)
  BY DEF SameRequest
<1>2. IsUpdate(writes[r]) /\ req[r] \in Request /\ req[r].base \in Nat
  BY DEF TypeOK, Request
<1>3. Placed(r)'
  BY DEF AnswerHolds, Placed, Grows, LogGrows
<1>4. req[r].answer = "ok" /\ req[r].pc \in {"get", "put"} => OkUpdate(r)'
  BY <1>1, <1>2, OkUpdateStable DEF AnswerHolds, Grows
<1>5. ASSUME req[r].pc = "done"
      PROVE  req[r].user \in Users /\ req[r].base \in 1 .. Len(log[req[r].user])
  BY <1>5 DEF AnswerHolds, Placed
<1>6. req[r].answer = "ok" /\ req[r].pc = "done" => OkWritten(r)'
  BY <1>1, <1>2, <1>5, OkWrittenStable DEF AnswerHolds
<1>7. req[r].answer = "phoneInUse" => req[r].pc = "done" /\ Taken(r)'
  BY <1>1, <1>5, TakenStable DEF AnswerHolds
<1> QED
  BY <1>3, <1>4, <1>6, <1>7 DEF AnswerHolds

-----------------------------------------------------------------------------
(* One lemma per action: what it makes of its request.                     *)

\* How the phone of a request gets to be one that a message may go to.
PhoneStep(r) ==
  req[r].pc \notin {"send", "get", "put"} /\ req'[r].pc \in {"send", "get", "put"} /\ req'[r].kind = "init" =>
    \/ LookupMode = "disabled" \/ DailyLimit = 0
    \/ req[r].phone \in LookupExempt
    \/ Base(r).phone = req[r].phone
    \/ <<req[r].user, req[r].phone>> \in lookups'
    \/ Base(r).counter = DailyLimit /\ req'[r].answer = "limit"

\* A request that has an answer keeps it, unless its update fails or its replica stops.
AnswerStep(r) ==
  /\ req[r].pc \in {"idle", "done"} => req'[r].pc \notin {"send", "get", "put"}
  /\ req[r].pc # "idle" => SameRequest(r)
  /\ req[r].answer # None => req'[r].answer \in {req[r].answer, "internal", "lost"}

StepOf(r) ==
  /\ req' = [req EXCEPT ![r] = req'[r]]
  /\ writes' = [writes EXCEPT ![r] = writes'[r]]
  /\ AnswerStep(r)
  /\ PhoneStep(r)
  /\ AnswerHolds(r)'

LEMMA DoneRequest ==
  ASSUME TypeOK, NEW r \in Requests, NEW a \in Answers, req'[r] = Done(r, a)
  PROVE  SameRequest(r) /\ req'[r].pc = "done" /\ req'[r].answer = a
<1>1. ASSUME NEW q \in Request
      PROVE  LET d == [q EXCEPT !.pc = "done", !.answer = a, !.clock = 0, !.copy = 0, !.tries = 0] IN
               /\ d.kind = q.kind /\ d.at = q.at /\ d.user = q.user /\ d.phone = q.phone
               /\ d.code = q.code /\ d.base = q.base /\ d.pc = "done" /\ d.answer = a
  BY DEF Request
<1>2. req[r] \in Request
  BY DEF TypeOK
<1> QED
  BY <1>1, <1>2 DEF SameRequest, Done

LEMMA AnswersDiffer == \A a \in Answers : a # None
BY NoneAssumption

LEMMA StartAnswer ==
  ASSUME TypeOK, Grows, Answered, UpdatesHold, NEW r \in Requests, MayStart(r), NEW p \in Replicas, NEW u \in Users,
         NEW kind, NEW ph, NEW c, NEW pc, NEW a,
         Start(r, kind, p, u, ph, c, pc, a), UNCHANGED <<storeVars, writes>>,
         \/ pc \in {"checkPhone", "decide"} /\ a = None
         \/ pc = "done" /\ a \in {"notFound", "badRequest", "rejected", "captcha"}
  PROVE  StepOf(r)
<1>1. /\ req' = [req EXCEPT ![r] = req'[r]]
      /\ req'[r] = [Idle EXCEPT !.pc = pc, !.kind = kind, !.at = p, !.user = u,
                                !.phone = ph, !.code = c, !.base = seen[p][u], !.answer = a]
  BY DEF Start, TypeOK
<1>2. req'[r].pc = pc /\ req'[r].user = u /\ req'[r].base = seen[p][u] /\ req'[r].answer = a
  BY <1>1 DEF Idle
<1>3. writes[r] = NoChange /\ writes' = [writes EXCEPT ![r] = writes'[r]] /\ writes'[r] = NoChange
  BY DEF MayStart, UpdatesHold, InFlight, TypeOK
<1>4. Placed(r)'
  BY <1>2 DEF Placed, TypeOK, StoreTypeOK, storeVars
<1>5. None \notin {"ok", "phoneInUse"}
  BY AnswersDiffer DEF Answers
<1>6. AnswerHolds(r)'
  BY <1>2, <1>3, <1>4, <1>5 DEF AnswerHolds, NoChange, NoFields
<1>7. req[r].pc = "idle" /\ req[r].answer = None
  BY DEF MayStart, Answered, AnswerHolds, Placed
<1> QED
  BY <1>1, <1>2, <1>3, <1>6, <1>7 DEF StepOf, AnswerStep, PhoneStep

\* A phone is found in use because it is banned or in the UserSignup of another user.
LEMMA InUseTaken ==
  ASSUME TypeOK, NEW r \in Requests, req[r].at \in Replicas, req[r].user \in Users,
         InUse(req[r].at, req[r].user, PhoneOf(r))
  PROVE  Taken(r)
<1>1. CASE PhoneOf(r) \in banned
  BY <1>1 DEF Taken
<1>2. CASE PhoneOf(r) \notin banned
  <2>1. PICK v \in Users \ {req[r].user} :
          /\ Cached(req[r].at, v) # Absent
          /\ Cached(req[r].at, v).approval = "approved"
          /\ Cached(req[r].at, v).phone = PhoneOf(r)
    BY <1>2 DEF InUse
  <2>2. seen[req[r].at][v] \in DOMAIN log[v]
    BY DEF TypeOK, StoreTypeOK
  <2>3. Cached(req[r].at, v) \in Versions(v)
    BY <2>1, <2>2 DEF Cached, Versions
  <2> QED
    BY <2>1, <2>3 DEF Taken
<1> QED
  BY <1>1, <1>2

LEMMA RefuseAnswer ==
  ASSUME TypeOK, Grows, Answered, NEW r \in Requests, req[r].pc \in {"checkPhone", "decide"},
         InUse(req[r].at, req[r].user, PhoneOf(r)), Answer(r, "phoneInUse"), UNCHANGED storeVars
  PROVE  StepOf(r)
<1>1. InFlight(r) /\ HandlerTypeOK(r) /\ req[r].base \in Nat
  BY BaseType DEF InFlight, TypeOK, Request
<1>2. req'[r] = Done(r, "phoneInUse") /\ writes'[r] = NoChange
  BY DEF Answer, TypeOK
<1>3. SameRequest(r) /\ req'[r].pc = "done" /\ req'[r].answer = "phoneInUse"
  BY <1>2, DoneRequest DEF Answers
<1>4. Taken(r)'
  BY <1>1, <1>3, InUseTaken, TakenStable DEF HandlerTypeOK
<1>5. Placed(r)'
  BY <1>1, <1>3 DEF Placed, HandlerTypeOK, SameRequest, storeVars
<1>6. AnswerHolds(r)'
  BY <1>2, <1>3, <1>4, <1>5 DEF AnswerHolds, NoChange, NoFields
<1>7. req[r].answer = None
  BY DEF Answered, AnswerHolds, Placed
<1> QED
  BY <1>2, <1>3, <1>6, <1>7, AnswerType DEF StepOf, AnswerStep, PhoneStep, Answers

\* What stays placed.
LEMMA PlacedStep ==
  ASSUME Grows, TypeOK, NEW r \in Requests, InFlight(r), HandlerTypeOK(r), SameRequest(r),
         req'[r].pc \notin {"get", "put", "done"} => req'[r].answer = None
  PROVE  Placed(r)'
<1>1. req[r].base \in 1 .. Len(log'[req[r].user])
  BY DEF Grows, LogGrows, HandlerTypeOK
<1> QED
  BY <1>1 DEF Placed, SameRequest, HandlerTypeOK

LEMMA InitCheckPhoneAnswer ==
  ASSUME TypeOK, LimitsHold, Grows, Answered, NEW r \in Requests, InitCheckPhone(r)
  PROVE  StepOf(r)
<1> DEFINE s == Base(r)
           set == With([phone |-> req[r].phone], Reset(s))
           w == [NoChange EXCEPT !.set = set]
<1>1. /\ InFlight(r) /\ HandlerTypeOK(r) /\ s \in Signup /\ UNCHANGED storeVars
      /\ req[r].kind = "init" /\ req[r].pc = "checkPhone" /\ req[r].answer = None
  BY BaseType DEF InitCheckPhone, InFlight, HandlerTypeOK, Answered, AnswerHolds, Placed
<1>2. IsUpdate(w)
  BY <1>1, ResetIsUpdate DEF HandlerTypeOK
<1>3. w.set = set /\ "phone" \in DOMAIN set /\ set["phone"] = req[r].phone
  BY DEF NoChange, With, Reset, NoFields
<1> HIDE DEF set, w
<1>4. CASE InUse(req[r].at, req[r].user, req[r].phone) /\ Answer(r, "phoneInUse")
  BY <1>1, <1>4, RefuseAnswer DEF PhoneOf
<1>5. CASE LimitReached(s) /\ Update(r, w, "limit")
  <2>1. /\ req' = [req EXCEPT ![r] = req'[r]] /\ req'[r].pc = "get" /\ req'[r].answer = "limit"
        /\ SameRequest(r)
        /\ writes' = [writes EXCEPT ![r] = writes'[r]] /\ writes'[r] = w
    BY <1>2, <1>5, UpdateType DEF Answers
  <2>2. DailyLimit = 0 \/ s.counter = DailyLimit
    <3>1. s \in Versions(req[r].user)
      BY <1>1 DEF HandlerTypeOK, Base, Versions, TypeOK, StoreTypeOK
    <3> QED
      BY <1>1, <1>5, <3>1, PhoneVerificationAssumption
         DEF LimitReached, Counter, LimitsHold, HandlerTypeOK, Signup, Opt
  <2>3. AnswerHolds(r)'
    BY <1>1, <1>3, <2>1, PlacedStep DEF AnswerHolds, SameRequest
  <2> QED
    BY <1>1, <2>1, <2>2, <2>3 DEF StepOf, AnswerStep, PhoneStep
<1>6. CASE /\ req' = [req EXCEPT ![r].pc = IF LookupApplies(r) THEN "lookup" ELSE "send",
                                 ![r].clock = now]
           /\ writes' = [writes EXCEPT ![r] = w]
  <2> DEFINE pc == IF LookupApplies(r) THEN "lookup" ELSE "send"
  <2>1. /\ req[r] \in Request /\ req'[r] = [req[r] EXCEPT !.pc = pc, !.clock = now]
        /\ req' = [req EXCEPT ![r] = req'[r]]
        /\ writes' = [writes EXCEPT ![r] = writes'[r]] /\ writes'[r] = w
    BY <1>6 DEF TypeOK
  <2>2. pc \in {"lookup", "send"} /\ (pc = "send" => ~LookupApplies(r))
    OBVIOUS
  <2> HIDE DEF pc
  <2>3. req'[r].pc = pc /\ req'[r].answer = None /\ SameRequest(r)
    BY <1>1, <2>1 DEF Request, SameRequest
  <2>4. AnswerHolds(r)'
    <3>1. None \notin {"ok", "phoneInUse"}
      BY AnswersDiffer DEF Answers
    <3> QED
      BY <1>1, <1>3, <2>1, <2>2, <2>3, <3>1, PlacedStep DEF AnswerHolds, SameRequest
  <2> QED
    BY <1>1, <2>1, <2>2, <2>3, <2>4 DEF StepOf, AnswerStep, PhoneStep, LookupApplies
<1> QED
  BY <1>4, <1>5, <1>6 DEF InitCheckPhone, w, set

LEMMA InitLookupAnswer ==
  ASSUME TypeOK, Grows, Answered, NEW r \in Requests, InitLookup(r)
  PROVE  StepOf(r)
<1>1. /\ InFlight(r) /\ HandlerTypeOK(r) /\ IsUpdate(writes[r])
      /\ req[r] \in Request /\ req[r].kind = "init" /\ req[r].answer = None /\ req[r].pc = "lookup"
      /\ "phone" \in DOMAIN writes[r].set /\ writes[r].set.phone = req[r].phone
  BY BaseType DEF InitLookup, InFlight, TypeOK, HandlerTypeOK, Answered, AnswerHolds, Placed
<1>2. <<req[r].user, req[r].phone>> \in lookups'
  BY DEF InitLookup
<1>3. None \notin {"ok", "phoneInUse"}
  BY AnswersDiffer DEF Answers
<1>4. ASSUME req' = [req EXCEPT ![r] = req'[r]], SameRequest(r),
             writes' = [writes EXCEPT ![r] = writes'[r]],
             \/ req'[r].pc = "send" /\ req'[r].answer = None
             \/ req'[r].pc = "get" /\ req'[r].answer = "rejected",
             \/ writes'[r] = writes[r]
             \/ \E risk : writes'[r].set = With(writes[r].set, [risk |-> risk])
      PROVE  StepOf(r)
  <2>1. "phone" \in DOMAIN writes'[r].set /\ writes'[r].set["phone"] = req[r].phone
    BY <1>1, <1>4 DEF With
  <2>2. AnswerHolds(r)'
    BY <1>1, <1>3, <1>4, <2>1, PlacedStep DEF AnswerHolds, SameRequest
  <2> QED
    BY <1>1, <1>2, <1>4, <2>2 DEF StepOf, AnswerStep, PhoneStep
<1>5. ASSUME Goto(r, "send")
      PROVE  /\ req' = [req EXCEPT ![r] = req'[r]] /\ SameRequest(r)
             /\ req'[r].pc = "send" /\ req'[r].answer = None
  <2>1. req'[r] = [req[r] EXCEPT !.pc = "send"]
    BY <1>5 DEF Goto, TypeOK
  <2> QED
    BY <1>1, <1>5, <2>1, GotoType DEF Request
<1>6. CASE Goto(r, "send") /\ UNCHANGED writes
  BY <1>4, <1>5, <1>6 DEF TypeOK
<1>7. ASSUME NEW risk \in {"low", "high"}
      PROVE  LET w == [writes[r] EXCEPT !.set = With(@, [risk |-> risk])] IN
               /\ Goto(r, "send") /\ writes' = [writes EXCEPT ![r] = w] => StepOf(r)
               /\ /\ req' = [req EXCEPT ![r].pc = "get", ![r].answer = "rejected"]
                  /\ writes' = [writes EXCEPT ![r] = [w EXCEPT !.add = {"rejected"}]]
                  => StepOf(r)
  <2> DEFINE set == With(writes[r].set, [risk |-> risk])
             w == [writes[r] EXCEPT !.set = set]
             x == [w EXCEPT !.add = {"rejected"}]
  <2>1. w.set = set /\ x.set = set
    BY <1>1, UpdateParts
  <2> HIDE DEF w, x
  <2>2. ASSUME Goto(r, "send"), writes' = [writes EXCEPT ![r] = w]
        PROVE  StepOf(r)
    BY <1>4, <1>5, <2>1, <2>2 DEF TypeOK
  <2>3. ASSUME req' = [req EXCEPT ![r].pc = "get", ![r].answer = "rejected"],
               writes' = [writes EXCEPT ![r] = x]
        PROVE  StepOf(r)
    <3>1. /\ req' = [req EXCEPT ![r] = req'[r]]
          /\ req'[r] = [req[r] EXCEPT !.pc = "get", !.answer = "rejected"]
      BY <2>3 DEF TypeOK
    <3>2. req'[r].pc = "get" /\ req'[r].answer = "rejected" /\ SameRequest(r)
      BY <1>1, <3>1 DEF SameRequest, Request
    <3>3. writes' = [writes EXCEPT ![r] = writes'[r]] /\ writes'[r].set = set
      BY <2>1, <2>3 DEF TypeOK
    <3> QED
      BY <1>4, <3>1, <3>2, <3>3
  <2> QED
    BY <2>2, <2>3 DEF w, x
<1> QED
  BY <1>6, <1>7 DEF InitLookup

LEMMA InitSendAnswer ==
  ASSUME TypeOK, Grows, Answered, NEW r \in Requests, InitSend(r)
  PROVE  StepOf(r)
<1>1. /\ InFlight(r) /\ HandlerTypeOK(r) /\ IsUpdate(writes[r])
      /\ req[r] \in Request /\ req[r].kind = "init" /\ req[r].answer = None /\ req[r].pc = "send"
      /\ "phone" \in DOMAIN writes[r].set /\ writes[r].set.phone = req[r].phone
  BY BaseType DEF InitSend, InFlight, TypeOK, HandlerTypeOK, Answered, AnswerHolds, Placed
<1>2. ASSUME NEW a, req' = [req EXCEPT ![r].pc = "get", ![r].answer = a]
      PROVE  /\ req' = [req EXCEPT ![r] = req'[r]] /\ req'[r].pc = "get" /\ SameRequest(r)
             /\ req'[r].answer = a
  <2>1. req'[r] = [req[r] EXCEPT !.pc = "get", !.answer = a]
    BY <1>2 DEF TypeOK
  <2> QED
    BY <1>1, <1>2, <2>1 DEF TypeOK, SameRequest, Request
<1>3. CASE UNCHANGED writes /\ req' = [req EXCEPT ![r].pc = "get", ![r].answer = "internal"]
  <2>1. /\ req' = [req EXCEPT ![r] = req'[r]] /\ req'[r].pc = "get" /\ SameRequest(r)
        /\ req'[r].answer = "internal"
        /\ writes' = [writes EXCEPT ![r] = writes'[r]] /\ writes'[r] = writes[r]
    BY <1>2, <1>3 DEF TypeOK
  <2>2. AnswerHolds(r)'
    BY <1>1, <2>1, PlacedStep DEF AnswerHolds, SameRequest
  <2> QED
    BY <1>1, <2>1, <2>2 DEF StepOf, AnswerStep, PhoneStep
<1>4. ASSUME NEW c \in Codes,
             sms' = [sms EXCEPT ![c] = [user |-> req[r].user, phone |-> req[r].phone, at |-> req[r].clock]],
             writes' = [writes EXCEPT ![r].set = With(@, CodeFields(r, c))],
             req' = [req EXCEPT ![r].pc = "get", ![r].answer = "ok"]
      PROVE  StepOf(r)
  <2> DEFINE set == With(writes[r].set, CodeFields(r, c))
             w == [writes[r] EXCEPT !.set = set]
  <2>1. sms'[c] = [user |-> req[r].user, phone |-> req[r].phone, at |-> req[r].clock]
    BY <1>4 DEF TypeOK
  <2>2. sms'[c] # None /\ sms'[c].phone = req[r].phone /\ c # None
    <3>1. req[r].user \in Users /\ req[r].phone \in Phones /\ req[r].clock \in Nat
      BY <1>1 DEF HandlerTypeOK, Request
    <3> QED
      BY <2>1, <3>1, NoneAssumption, HostStoreAssumption DEF Message
  <2>3. writes' = [writes EXCEPT ![r] = writes'[r]] /\ writes'[r] = w
    BY <1>4 DEF TypeOK
  <2>4. w.set = set
    BY <1>1, UpdateParts
  <2>5. /\ {"phone", "code"} \subseteq DOMAIN set
        /\ set["code"] = c /\ set["phone"] = req[r].phone
    BY <1>1 DEF With, CodeFields
  <2> HIDE DEF set, w
  <2>6. /\ req' = [req EXCEPT ![r] = req'[r]] /\ req'[r].pc = "get" /\ SameRequest(r)
        /\ req'[r].answer = "ok"
    BY <1>2, <1>4
  <2>7. OkUpdate(r)'
    BY <1>1, <2>2, <2>3, <2>4, <2>5, <2>6 DEF OkUpdate, SameRequest
  <2>8. AnswerHolds(r)'
    BY <1>1, <2>3, <2>4, <2>5, <2>6, <2>7, PlacedStep DEF AnswerHolds, SameRequest
  <2> QED
    BY <1>1, <2>3, <2>6, <2>8 DEF StepOf, AnswerStep, PhoneStep
<1> QED
  BY <1>3, <1>4 DEF InitSend

LEMMA VerifyDecideAnswer ==
  ASSUME TypeOK, Grows, Answered, NEW r \in Requests, VerifyDecide(r)
  PROVE  StepOf(r)
<1> DEFINE s == Base(r)
           a == Verdict(s, req[r].code)
           w == VerifyWrites(s, a)
<1>1. /\ InFlight(r) /\ HandlerTypeOK(r) /\ s \in Signup /\ UNCHANGED storeVars
      /\ req[r].kind = "verify" /\ req[r].kind # "init" /\ req[r].pc = "decide" /\ req[r].answer = None
  BY BaseType DEF VerifyDecide, InFlight, HandlerTypeOK, Answered, AnswerHolds, Placed
<1>2. IsUpdate(w) /\ a \in Answers /\ a # "phoneInUse"
  BY <1>1, VerifyIsUpdate DEF Verdict
<1>3. "phone" \notin DOMAIN w.set
  BY DEF VerifyWrites, NoChange, NoFields, Cleared
<1>4. a = "ok" => w.del = {"verification-required"}
  BY DEF VerifyWrites
<1> HIDE DEF a, w
<1>5. CASE InUse(req[r].at, req[r].user, s.phone) /\ Answer(r, "phoneInUse")
  BY <1>1, <1>5, RefuseAnswer DEF PhoneOf
<1>6. CASE Update(r, w, a)
  <2>1. /\ req' = [req EXCEPT ![r] = req'[r]] /\ req'[r].pc = "get" /\ req'[r].answer = a
        /\ SameRequest(r)
        /\ writes' = [writes EXCEPT ![r] = writes'[r]] /\ writes'[r] = w
    BY <1>2, <1>6, UpdateType
  <2>2. req'[r].kind = "verify"
    BY <1>1, <2>1 DEF SameRequest
  <2>3. a = "ok" => OkUpdate(r)'
    BY <1>4, <2>1, <2>2 DEF OkUpdate
  <2>4. AnswerHolds(r)'
    BY <1>1, <1>2, <1>3, <2>1, <2>3, PlacedStep DEF AnswerHolds
  <2> QED
    BY <1>1, <2>1, <2>2, <2>4 DEF StepOf, AnswerStep, PhoneStep
<1> QED
  BY <1>5, <1>6 DEF VerifyDecide, w, a

\* A failed try.
LEMMA RetryAnswer ==
  ASSUME TypeOK, Grows, Answered, NEW r \in Requests, req[r].pc \in {"get", "put"}, Retry(r)
  PROVE  StepOf(r)
<1>1. InFlight(r) /\ HandlerTypeOK(r) /\ IsUpdate(writes[r]) /\ AnswerHolds(r)
  BY BaseType DEF InFlight, TypeOK, Answered
<1>2. CASE req[r].tries + 1 < MaxTries
  <2>1. /\ req' = [req EXCEPT ![r] = req'[r]]
        /\ req'[r].pc = "get" /\ req'[r].answer = req[r].answer /\ SameRequest(r)
        /\ writes' = [writes EXCEPT ![r] = writes'[r]] /\ writes'[r] = writes[r]
    <3>1. /\ req'[r] = [req[r] EXCEPT !.pc = "get", !.tries = req[r].tries + 1]
          /\ req' = [req EXCEPT ![r] = req'[r]]
      BY <1>2 DEF Retry, TypeOK
    <3>2. req[r] \in Request
      BY DEF TypeOK
    <3> QED
      BY <1>2, <3>1, <3>2 DEF Retry, TypeOK, Request, SameRequest
  <2>2. req[r].answer = "ok" => OkUpdate(r)'
    BY <1>1, <2>1, OkUpdateStable DEF AnswerHolds, Grows
  <2>3. Placed(r)'
    BY <1>1, <2>1, PlacedStep
  <2>4. AnswerHolds(r)'
    BY <1>1, <2>1, <2>2, <2>3 DEF AnswerHolds, SameRequest
  <2> QED
    BY <2>1, <2>4 DEF StepOf, AnswerStep, PhoneStep
<1>3. CASE Answer(r, "internal")
  <2>1. req'[r] = Done(r, "internal") /\ writes'[r] = NoChange
    BY <1>3 DEF Answer, TypeOK
  <2>2. SameRequest(r) /\ req'[r].pc = "done" /\ req'[r].answer = "internal"
    BY <2>1, DoneRequest DEF Answers
  <2>3. Placed(r)'
    BY <1>1, <2>2, PlacedStep
  <2>4. AnswerHolds(r)'
    BY <2>1, <2>2, <2>3 DEF AnswerHolds, NoChange, NoFields
  <2> QED
    BY <1>3, <2>2, <2>4, AnswerType DEF StepOf, AnswerStep, PhoneStep, Answers
<1> QED
  BY <1>2, <1>3 DEF Retry

LEMMA GetAnswer ==
  ASSUME TypeOK, Grows, Answered, NEW r \in Requests, Get(r)
  PROVE  StepOf(r)
<1>1. /\ InFlight(r) /\ HandlerTypeOK(r) /\ IsUpdate(writes[r]) /\ AnswerHolds(r) /\ req[r].pc = "get"
      /\ req[r] \in Request
  BY BaseType DEF Get, InFlight, TypeOK, Answered
<1>2. CASE Retry(r)
  BY <1>1, <1>2, RetryAnswer
<1>3. CASE /\ req' = [req EXCEPT ![r].pc = "put", ![r].copy = seen[req[r].at][req[r].user]]
           /\ UNCHANGED writes
  <2>1. /\ req'[r] = [req[r] EXCEPT !.pc = "put", !.copy = seen[req[r].at][req[r].user]]
        /\ req' = [req EXCEPT ![r] = req'[r]]
        /\ writes' = [writes EXCEPT ![r] = writes'[r]] /\ writes'[r] = writes[r]
    BY <1>3 DEF TypeOK
  <2>2. req'[r].pc = "put" /\ req'[r].answer = req[r].answer /\ SameRequest(r)
    BY <1>1, <2>1 DEF SameRequest, Request
  <2>3. req[r].answer = "ok" => OkUpdate(r)'
    BY <1>1, <2>1, <2>2, OkUpdateStable DEF AnswerHolds, Grows
  <2>4. AnswerHolds(r)'
    BY <1>1, <2>1, <2>2, <2>3, PlacedStep DEF AnswerHolds, SameRequest
  <2> QED
    BY <1>1, <2>1, <2>2, <2>4 DEF StepOf, AnswerStep, PhoneStep
<1> QED
  BY <1>2, <1>3 DEF Get

\* The update of a request that will be answered ok makes a version that tells so.
LEMMA OkApplied ==
  ASSUME NEW r \in Requests, IsUpdate(writes[r]), UpdateOK(r), OkUpdate(r), NEW s \in Signup
  PROVE  OkVersion(r, Apply(s, writes[r]))
<1> DEFINE t == Apply(s, writes[r])
           set == writes[r].set
<1>1. /\ t \in Signup /\ t.states = (s.states \cup writes[r].add) \ writes[r].del
      /\ \A k \in Annotations : t[k] = IF k \in DOMAIN set THEN set[k] ELSE s[k]
  BY ApplyType
<1>2. {"phone", "code"} \subseteq Annotations
  BY DEF Annotations
<1>3. t # Absent
  BY <1>1, HostStoreAssumption
<1>4. CASE req[r].kind = "verify"
  BY <1>1, <1>3, <1>4 DEF OkUpdate, OkVersion
<1>5. CASE req[r].kind # "verify"
  <2>1. t.phone = set.phone /\ t.code = set.code
    BY <1>1, <1>2, <1>5 DEF OkUpdate
  <2> HIDE DEF t
  <2>2. OkVersion(r, t)
    BY <1>3, <1>5, <2>1 DEF OkUpdate, OkVersion
  <2> QED
    BY <2>2 DEF t
<1> QED
  BY <1>4, <1>5

LEMMA PutAnswer ==
  ASSUME TypeOK, UpdatesHold, Grows, Answered, NEW r \in Requests, Put(r)
  PROVE  StepOf(r)
<1> DEFINE u == req[r].user
<1>1. /\ InFlight(r) /\ HandlerTypeOK(r) /\ IsUpdate(writes[r]) /\ UpdateOK(r) /\ AnswerHolds(r)
      /\ req[r].pc = "put" /\ req[r] \in Request /\ UNCHANGED <<sms, banned, now>>
  BY BaseType DEF Put, InFlight, TypeOK, UpdatesHold, Answered
<1>2. req[r].answer \in Answers
  BY <1>1 DEF HandlerTypeOK, Request, Opt
<1>3. req'[r] = Done(r, req[r].answer) /\ writes'[r] = NoChange
  BY DEF Put, Answer, TypeOK
<1>4. SameRequest(r) /\ req'[r].pc = "done" /\ req'[r].answer = req[r].answer
  BY <1>2, <1>3, DoneRequest
<1>5. /\ u \in Users /\ log[u][req[r].copy] \in Signup /\ Written(r) \in Signup
  BY <1>1, WrittenType
<1>6. log'[u] = Append(log[u], Written(r)) /\ log[u] \in Seq(Signup \cup {Absent})
  BY <1>1, <1>5, NewVersionType DEF Put, TypeOK, StoreTypeOK
<1>7. Len(log'[u]) = Len(log[u]) + 1 /\ log'[u][Len(log'[u])] = Written(r) /\ Len(log[u]) \in Nat
  BY <1>6
<1>8. ASSUME req[r].answer = "ok"
      PROVE  OkWritten(r)'
  <2>1. OkVersion(r, Written(r))
    BY <1>1, <1>5, <1>8, OkApplied DEF Written, AnswerHolds
  <2>2. log'[u][Len(log'[u])] # Absent /\ OkVersion(r, log'[u][Len(log'[u])])
    BY <1>7, <2>1 DEF OkVersion
  <2>3. OkVersion(r, log[u][Len(log[u])])'
    BY <1>1, <1>4, <2>2 DEF OkVersion, SameRequest
  <2>4. Len(log'[u]) \in req[r].base + 1 .. Len(log'[u])
    BY <1>1, <1>7 DEF HandlerTypeOK
  <2> QED
    BY <1>4, <2>3, <2>4 DEF OkWritten, SameRequest
<1>9. AnswerHolds(r)'
  BY <1>1, <1>3, <1>4, <1>8, PlacedStep DEF AnswerHolds, NoChange, NoFields
<1> QED
  BY <1>1, <1>2, <1>3, <1>4, <1>9, AnswerType DEF Put, StepOf, AnswerStep, PhoneStep

LEMMA HandleAnswer ==
  ASSUME IInv, Grows, Answered, NEW r \in Requests, Handle(r)
  PROVE  StepOf(r)
<1>1. PutConflict(r) \/ PutError(r) => StepOf(r)
  BY RetryAnswer DEF PutConflict, PutError, IInv
<1> QED
  BY <1>1, InitCheckPhoneAnswer, InitLookupAnswer, InitSendAnswer, VerifyDecideAnswer,
     GetAnswer, PutAnswer DEF Handle, IInv

-----------------------------------------------------------------------------
(* All requests.                                                           *)

\* What a step adds to the versions: at most one, of one UserSignup that is there.
LEMMA StepGrows ==
  ASSUME TypeOK, [Next]_vars
  PROVE  Grows
<1>1. CASE UNCHANGED <<log, sms, banned, lookups>>
  BY <1>1 DEF Grows, LogGrows, SmsGrows, TypeOK, StoreTypeOK
<1>2. ASSUME NEW r \in Requests, req[r].pc = "put", NewVersion(req[r].user, Written(r)),
             UNCHANGED <<banned, now, sms, lookups>>
      PROVE  Grows
  <2>1. LogGrows
    BY <1>2, WrittenType, NewVersionType DEF TypeOK
  <2> QED
    BY <1>2, <2>1, SmsUnchanged DEF Grows
<1>3. ASSUME NEW r \in Requests, Put(r) \/ PutError(r)
      PROVE  Grows
  BY <1>1, <1>2, <1>3 DEF Put, PutError
<1>4. ASSUME NEW r \in Requests, InitSend(r)
      PROVE  Grows
  <2>1. UNCHANGED <<log, banned, lookups>> /\ LogGrows
    BY <1>4, StoreUnchanged DEF InitSend, storeVars, TypeOK
  <2>2. SmsGrows
    BY <1>4 DEF InitSend, SmsGrows, TypeOK
  <2> QED
    BY <2>1, <2>2 DEF Grows
<1>5. ASSUME NEW r \in Requests, InitLookup(r)
      PROVE  Grows
  <2>1. UNCHANGED <<log, banned, sms>> /\ LogGrows /\ SmsGrows
    BY <1>5, StoreUnchanged, SmsUnchanged DEF InitLookup, storeVars, TypeOK
  <2> QED
    BY <1>5, <2>1 DEF Grows, InitLookup
<1>6. ASSUME NEW r \in Requests, Arrive(r) \/ Handle(r)
      PROVE  Grows
  BY <1>1, <1>3, <1>4, <1>5, <1>6
     DEF Arrive, Handle, InitStart, VerifyStart, InitCheckPhone, VerifyDecide, Get, PutConflict, storeVars
<1>7. CASE StoreNext /\ UNCHANGED phoneVars
  <2>1. LogGrows /\ SmsGrows /\ UNCHANGED lookups
    BY <1>7, StoreStepType, SmsUnchanged DEF TypeOK, phoneVars
  <2>2. banned \subseteq banned'
    BY <1>7
       DEF StoreNext, InformerSync, Tick, BanPhone, BanUser, OperatorApproves, OperatorDeactivates,
           OperatorReports, AdminApproves, OperatorDeletes, OperatorWrites
  <2> QED
    BY <2>1, <2>2 DEF Grows
<1> QED
  BY <1>1, <1>6, <1>7 DEF Next, Crash, Finished, vars

\* Each request takes a step of its own or none.
LEMMA RequestsStep ==
  ASSUME IInv, Grows, Answered, [Next]_vars, NEW r \in Requests
  PROVE  AnswerStep(r) /\ PhoneStep(r) /\ AnswerHolds(r)'
<1>1. ASSUME req'[r] = req[r], writes'[r] = writes[r]
      PROVE  AnswerStep(r) /\ PhoneStep(r) /\ AnswerHolds(r)'
  BY <1>1, AnswerStable DEF AnswerStep, PhoneStep, SameRequest, IInv, Answered
<1>2. CASE UNCHANGED <<req, writes>>
  BY <1>1, <1>2
<1>3. ASSUME NEW q \in Requests, Arrive(q) \/ Handle(q)
      PROVE  StepOf(q)
  BY <1>3, HandleAnswer, StartAnswer DEF Arrive, InitStart, VerifyStart, IInv
<1>4. ASSUME NEW q \in Requests, StepOf(q)
      PROVE  AnswerStep(r) /\ PhoneStep(r) /\ AnswerHolds(r)'
  BY <1>1, <1>4 DEF StepOf, IInv, TypeOK
<1>5. ASSUME NEW p \in Replicas, Crash(p)
      PROVE  AnswerStep(r) /\ PhoneStep(r) /\ AnswerHolds(r)'
  <2>1. CASE InFlight(r) /\ req[r].at = p
    <3>1. req'[r] = Done(r, "lost") /\ writes'[r] = NoChange
      BY <1>5, <2>1 DEF Crash
    <3>2. SameRequest(r) /\ req'[r].pc = "done" /\ req'[r].answer = "lost"
      BY <3>1, DoneRequest DEF Answers, IInv
    <3>3. Placed(r)'
      BY <2>1, <3>2, PlacedStep, BaseType DEF IInv
    <3>4. AnswerHolds(r)'
      BY <3>1, <3>2, <3>3 DEF AnswerHolds, NoChange, NoFields
    <3> QED
      BY <3>2, <3>4 DEF AnswerStep, PhoneStep
  <2>2. CASE ~(InFlight(r) /\ req[r].at = p)
    BY <1>1, <1>5, <2>2 DEF Crash
  <2> QED
    BY <2>1, <2>2
<1> QED
  BY <1>2, <1>3, <1>4, <1>5 DEF Next, Finished, vars, phoneVars

LEMMA AnsweredInductive ==
  /\ Init => Answered
  /\ IInv /\ Answered /\ [Next]_vars => Answered'
<1>1. Init => Answered
  <2> SUFFICES ASSUME Init, NEW r \in Requests
               PROVE  AnswerHolds(r)
    BY DEF Answered
  <2>1. req[r] = Idle /\ writes[r] = NoChange
    BY DEF Init
  <2> QED
    BY <2>1, AnswersDiffer DEF AnswerHolds, Placed, Idle, NoChange, NoFields, Answers
<1>2. ASSUME IInv, Answered, [Next]_vars
      PROVE  Answered'
  BY <1>2, StepGrows, RequestsStep DEF IInv, Answered
<1> QED
  BY <1>1, <1>2

LEMMA AnsweredHolds == Spec => [](IInv /\ Answered)
BY AnsweredInductive, Inductive, PTL DEF Spec

\* A request that is answered ok has taken effect in a version newer than the one it decided on,
\* through every conflict, retry, failed write and crash, and however the versions of other
\* requests are interleaved with it (verification_service.go:220, 435).
THEOREM OkAlwaysMeansWritten == Spec => []OkMeansWritten
<1>1. IInv /\ Answered => OkMeansWritten
  BY DEF OkMeansWritten, Answered, AnswerHolds, OkWritten, OkVersion
<1> QED
  BY <1>1, AnsweredHolds, PTL

\* A phone is refused only when it is banned or another user has been approved with it, on however
\* old a cache the refusal is decided (verification_service.go:530-563).
THEOREM RefusedPhoneWasAlwaysTaken == Spec => []RefusedPhoneWasTaken
<1>1. IInv /\ Answered => RefusedPhoneWasTaken
  BY DEF RefusedPhoneWasTaken, Answered, AnswerHolds, Taken
<1> QED
  BY <1>1, AnsweredHolds, PTL

-----------------------------------------------------------------------------
(* The phones messages go to.                                              *)

\* The ways a phone of u comes to be one that messages go to.
Known(u, ph) ==
  \/ ph \in LookupExempt
  \/ <<u, ph>> \in lookups
  \/ AskedAtLimit(u, ph)

LookupsApply == LookupMode # "disabled" /\ DailyLimit > 0

PhonesKnown ==
  /\ \A u \in Users : \A s \in Versions(u) : s.phone # None => Known(u, s.phone)
  /\ \A r \in Requests : req[r].kind = "init" /\ req[r].pc \in {"send", "get", "put"} =>
       Known(req[r].user, req[r].phone)
  /\ \A c \in Codes : sms[c] # None => Known(sms[c].user, sms[c].phone)

LookupInv ==
  /\ \A c \in Codes : sms[c] # None => DailyLimit > 0
  /\ LookupsApply => PhonesKnown

\* A refusal for the daily limit is not forgotten.
LEMMA AskedStable ==
  ASSUME IInv, Answered, [Next]_vars, NEW u, NEW ph, AskedAtLimit(u, ph)
  PROVE  AskedAtLimit(u, ph)'
<1>1. PICK r \in Requests : /\ req[r].kind = "init" /\ req[r].user = u /\ req[r].phone = ph
                            /\ Base(r).counter = DailyLimit
                            /\ req[r].answer \in {"limit", "internal", "lost"}
  BY DEF AskedAtLimit
<1>2. Grows /\ AnswerStep(r) /\ Placed(r)
  BY StepGrows, RequestsStep DEF IInv, Answered, AnswerHolds
<1>3. req[r].answer # None
  BY <1>1, AnswersDiffer DEF Answers
<1>4. SameRequest(r) /\ req'[r].answer \in {"limit", "internal", "lost"}
  BY <1>1, <1>2, <1>3 DEF AnswerStep, Placed
<1>5. Base(r)' = Base(r)
  BY <1>2, <1>3, <1>4, PhoneOfStable DEF Placed, Grows
<1> QED
  BY <1>1, <1>4, <1>5 DEF AskedAtLimit, SameRequest

LEMMA KnownStable ==
  ASSUME IInv, Answered, [Next]_vars, NEW u, NEW ph, Known(u, ph)
  PROVE  Known(u, ph)'
BY AskedStable, StepGrows DEF Known, Grows, IInv

\* A step adds at most one version to a UserSignup, and none to one that is gone.
LEMMA LogStep ==
  ASSUME TypeOK, [Next]_vars, NEW u \in Users
  PROVE  \/ log'[u] = log[u]
         \/ /\ Latest(u) # Absent
            /\ \E s \in Signup \cup {Absent} : log'[u] = Append(log[u], s)
<1>1. ASSUME NEW v \in Users, NEW s \in Signup \cup {Absent}, NewVersion(v, s), Latest(v) # Absent,
             UNCHANGED <<banned, now>>
      PROVE  \/ log'[u] = log[u]
             \/ /\ Latest(u) # Absent
                /\ \E x \in Signup \cup {Absent} : log'[u] = Append(log[u], x)
  BY <1>1, NewVersionType, SMTT(30) DEF TypeOK
<1>2. \A v \in Users : Latest(v) # Absent => Latest(v) \in Signup
  BY LatestType DEF TypeOK
<1>3. ASSUME NEW r \in Requests, Put(r) \/ PutError(r)
      PROVE  \/ log'[u] = log[u]
             \/ /\ Latest(u) # Absent
                /\ \E s \in Signup \cup {Absent} : log'[u] = Append(log[u], s)
  <2>1. req[r].user \in Users /\ Written(r) \in Signup
    BY <1>3, WrittenType DEF Put, PutError
  <2> QED
    BY <1>1, <1>3, <2>1 DEF Put, PutError, IsCurrent
<1>4. CASE \E r \in Requests : Arrive(r) \/ Handle(r)
  BY <1>3, <1>4, SMTT(30)
     DEF Arrive, Handle, InitStart, VerifyStart, InitCheckPhone, InitLookup, InitSend,
         VerifyDecide, Get, PutConflict, storeVars
<1>5. CASE StoreNext
  BY <1>1, <1>2, <1>5, OperatorType
     DEF StoreNext, InformerSync, Tick, BanPhone, BanUser, OperatorApproves, OperatorDeactivates,
         OperatorReports, AdminApproves, OperatorDeletes, OperatorWrites
<1> QED
  BY <1>4, <1>5 DEF Next, Crash, Finished, vars

\* The phone in the label is that of the request that wrote it.
LEMMA PhoneWritten ==
  ASSUME IInv, Answered, LookupsApply, PhonesKnown, [Next]_vars, NEW u \in Users, NEW s \in Versions(u)',
         s.phone # None
  PROVE  Known(u, s.phone)
<1>1. CASE s \in Versions(u)
  BY <1>1 DEF PhonesKnown
<1>2. CASE s \notin Versions(u)
  <2>1. log'[u] # log[u]
    BY <1>2 DEF Versions
  <2>2. PICK x \in Signup \cup {Absent} : log'[u] = Append(log[u], x)
    BY <2>1, LogStep DEF IInv
  <2>3. Latest(u) # Absent /\ Latest(u) \in Signup /\ Latest(u) \in Versions(u)
    <3>1. Len(log[u]) \in DOMAIN log[u]
      BY DEF IInv, TypeOK, StoreTypeOK
    <3> QED
      BY <2>1, <3>1, LogStep, LatestType DEF IInv, TypeOK, Latest, Versions
  <2>4. log[u] \in Seq(Signup \cup {Absent})
    BY DEF IInv, TypeOK, StoreTypeOK
  <2>5. s = x /\ s # Absent
    BY <1>2, <2>2, <2>4 DEF Versions
  <2>6. Writes(u) /\ Latest(u)' = s
    BY <2>2, <2>3, <2>4, <2>5 DEF Writes, Latest
  <2>7. Next
    BY <2>1 DEF vars
  <2>8. ASSUME s.phone = Latest(u).phone
        PROVE  Known(u, s.phone)
    BY <2>3, <2>8 DEF PhonesKnown
  <2>9. ASSUME NEW r \in Requests, req[r].pc = "put", req[r].user = u, s = Apply(Latest(u), writes[r])
        PROVE  Known(u, s.phone)
    <3>1. IsUpdate(writes[r]) /\ AnswerHolds(r) /\ "phone" \in Annotations
      BY DEF IInv, TypeOK, Answered, Annotations
    <3>2. s.phone = IF "phone" \in DOMAIN writes[r].set THEN writes[r].set.phone ELSE Latest(u).phone
      BY <2>3, <2>9, <3>1, ApplyType
    <3>3. CASE "phone" \in DOMAIN writes[r].set
      BY <2>9, <3>1, <3>2, <3>3 DEF AnswerHolds, PhonesKnown
    <3> QED
      BY <2>8, <3>2, <3>3
  <2>10. \A c : /\ Approved(Latest(u)).phone = Latest(u).phone
                /\ Deactivated(Latest(u)).phone = Latest(u).phone
                /\ ApprovedManually(Latest(u)).phone = Latest(u).phone
                /\ Reported(Latest(u), c).phone = Latest(u).phone
    BY <2>3 DEF Approved, Deactivated, ApprovedManually, Reported, Signup
  <2> QED
    BY <2>6, <2>7, <2>8, <2>9, <2>10, WhoWrites DEF IInv
<1> QED
  BY <1>1, <1>2

\* The phone of a request that goes on to its message or its update.
LEMMA PhoneReached ==
  ASSUME IInv, Answered, LookupsApply, PhonesKnown, [Next]_vars, NEW r \in Requests,
         req'[r].kind = "init", req'[r].pc \in {"send", "get", "put"},
         NEW u, NEW ph, u = req[r].user, ph = req[r].phone
  PROVE  Known(u, ph)'
<1>1. Grows /\ AnswerStep(r) /\ PhoneStep(r) /\ AnswerHolds(r) /\ InFlight(r)
  BY StepGrows, RequestsStep DEF IInv, Answered, AnswerStep, InFlight
<1>2. /\ SameRequest(r) /\ u \in Users /\ req[r].base \in 1 .. Len(log[u])
      /\ Base(r)' = Base(r)
  BY <1>1, PhoneOfStable DEF AnswerStep, AnswerHolds, Placed, Grows, InFlight
<1>3. SUFFICES ASSUME ~ Known(u, ph)
               PROVE  Known(u, ph)'
  BY KnownStable
<1>4. CASE req[r].pc \in {"send", "get", "put"} \/ req[r].phone \in LookupExempt
  BY <1>2, <1>3, <1>4 DEF PhonesKnown, Known, SameRequest
<1>5. CASE Base(r).phone = req[r].phone
  <2>1. HandlerTypeOK(r) /\ Base(r) \in Signup /\ req[r].kind = "init"
    BY <1>1, <1>2, BaseType DEF IInv, SameRequest
  <2>2. ph # None
    BY <2>1, HostStoreAssumption, NoneAssumption DEF HandlerTypeOK
  <2>3. Base(r) \in Versions(u)
    BY <1>2, <2>1 DEF HandlerTypeOK, Base, Versions, IInv, TypeOK, StoreTypeOK
  <2> QED
    BY <1>2, <1>3, <1>5, <2>2, <2>3 DEF PhonesKnown
<1>6. CASE <<req[r].user, req[r].phone>> \in lookups'
  BY <1>6 DEF Known
<1>7. CASE Base(r).counter = DailyLimit /\ req'[r].answer = "limit"
  BY <1>2, <1>7 DEF Known, AskedAtLimit, SameRequest
<1> QED
  BY <1>1, <1>4, <1>5, <1>6, <1>7 DEF PhoneStep, LookupsApply

\* Messages are sent within the limit, to the phone of their request.
LEMMA MessageStep ==
  ASSUME IInv, [Next]_vars, NEW c \in Codes, sms[c] = None, sms'[c] # None
  PROVE  /\ DailyLimit > 0
         /\ \E r \in Requests : /\ req[r].kind = "init" /\ req[r].pc = "send"
                                /\ sms'[c].user = req[r].user /\ sms'[c].phone = req[r].phone
<1>1. PICK r \in Requests : InitSend(r)
  <2>1. \A r \in Requests : Arrive(r) => UNCHANGED sms
    BY DEF Arrive, InitStart, VerifyStart
  <2>2. \A r \in Requests : Handle(r) => InitSend(r) \/ UNCHANGED sms
    BY DEF Handle, InitCheckPhone, InitLookup, VerifyDecide, Get, Put, PutConflict, PutError
  <2>3. \A p \in Replicas : Crash(p) => UNCHANGED sms
    BY DEF Crash
  <2> QED
    BY <2>1, <2>2, <2>3 DEF Next, phoneVars, Finished, vars
<1>2. /\ req[r].pc = "send" /\ InFlight(r) /\ HandlerTypeOK(r) /\ req[r].kind = "init"
      /\ UpdateOK(r) /\ Base(r) \in Signup
  BY <1>1, BaseType DEF InitSend, InFlight, HandlerTypeOK, IInv, TypeOK, UpdatesHold
<1>3. DailyLimit > 0
  BY <1>2, PhoneVerificationAssumption DEF UpdateOK, NextCounter, Signup, Opt
<1>4. sms'[c] = [user |-> req[r].user, phone |-> req[r].phone, at |-> req[r].clock]
  BY <1>1 DEF InitSend, IInv, TypeOK
<1> QED
  BY <1>2, <1>3, <1>4

LEMMA PhonesKnownStep ==
  ASSUME IInv, IInv', Answered, LookupsApply, PhonesKnown, [Next]_vars
  PROVE  PhonesKnown'
<1>1. ASSUME NEW u \in Users, NEW s \in Versions(u)', s.phone # None
      PROVE  Known(u, s.phone)'
  BY <1>1, PhoneWritten, KnownStable
<1>2. ASSUME NEW r \in Requests, req'[r].kind = "init", req'[r].pc \in {"send", "get", "put"}
      PROVE  Known(req[r].user, req[r].phone)'
  <2>1. SameRequest(r)
    BY <1>2, StepGrows, RequestsStep DEF AnswerStep, IInv
  <2> QED
    BY <1>2, <2>1, PhoneReached DEF SameRequest, Known, AskedAtLimit
<1>3. ASSUME NEW c \in Codes, sms'[c] # None
      PROVE  Known(sms[c].user, sms[c].phone)'
  <2>1. ASSUME NEW u, NEW ph, u = sms'[c].user, ph = sms'[c].phone
        PROVE  Known(u, ph)'
    <3>1. CASE sms[c] # None
      BY <2>1, <3>1, StepGrows, KnownStable DEF PhonesKnown, Grows, SmsGrows, IInv
    <3>2. CASE sms[c] = None
      BY <1>3, <2>1, <3>2, MessageStep, KnownStable DEF PhonesKnown
    <3> QED
      BY <3>1, <3>2
  <2> QED
    BY <2>1 DEF Known, AskedAtLimit
<1> QED
  BY <1>1, <1>2, <1>3 DEF PhonesKnown

LEMMA LookupInvStep ==
  ASSUME IInv, IInv', Answered, LookupInv, [Next]_vars
  PROVE  LookupInv'
<1>1. ASSUME NEW c \in Codes, sms'[c] # None
      PROVE  DailyLimit > 0
  BY <1>1, MessageStep DEF LookupInv
<1>2. LookupsApply => PhonesKnown'
  BY PhonesKnownStep DEF LookupInv
<1> QED
  BY <1>1, <1>2 DEF LookupInv, LookupsApply

LEMMA LookupInvInit ==
  ASSUME Init
  PROVE  LookupInv
<1>1. \A c \in Codes : sms[c] = None
  BY DEF Init
<1>2. \A r \in Requests : req[r].pc = "idle"
  BY DEF Init, Idle
<1>3. ASSUME NEW u \in Users, NEW s \in Versions(u)
      PROVE  s.phone = None
  <2>1. PICK score \in Scores, activated \in Counters : log[u] = <<Fresh(score, activated)>>
    BY DEF Init
  <2> QED
    BY <2>1 DEF Versions, Fresh
<1> QED
  BY <1>1, <1>2, <1>3 DEF LookupInv, PhonesKnown

\* A message goes only to a phone that was looked up for its user, or that a request refused
\* for the daily limit left in the label (verification_service.go:246-249).
THEOREM MessageAlwaysNeedsLookup == Spec => []MessageNeedsLookup
<1>1. Init => LookupInv
  BY LookupInvInit
<1>2. IInv /\ IInv' /\ Answered /\ LookupInv /\ [Next]_vars => LookupInv'
  BY LookupInvStep
<1>3. IInv /\ LookupInv => MessageNeedsLookup
  BY DEF MessageNeedsLookup, LookupInv, LookupsApply, PhonesKnown, Known
<1> QED
  BY <1>1, <1>2, <1>3, AnsweredHolds, PTL DEF Spec

-----------------------------------------------------------------------------
(* Requests handled one at a time on caches that do not lag.               *)

Sequential == FreshReads /\ MaxInFlight <= 1

Alone == \A q, r \in Requests : InFlight(q) /\ InFlight(r) => q = r

LEMMA RequestsFinite == IsFiniteSet(Requests)
BY FS_Interval, PhoneVerificationAssumption DEF Requests

LEMMA NothingInFlight ==
  ASSUME Sequential, NEW r \in Requests, MayStart(r), NEW q \in Requests
  PROVE  ~InFlight(q)
<1> DEFINE S == {x \in Requests : InFlight(x)}
<1>1. IsFiniteSet(S) /\ Cardinality(S) \in Nat
  BY RequestsFinite, FS_Subset, FS_CardinalityType
<1>2. Cardinality(S) < MaxInFlight
  BY DEF MayStart
<1> HIDE DEF S
<1>3. Cardinality(S) = 0
  BY <1>1, <1>2, PhoneVerificationAssumption DEF Sequential
<1>4. S = {}
  BY <1>1, <1>3, FS_EmptySet
<1> QED
  BY <1>4 DEF S

LEMMA FreshStep ==
  ASSUME TypeOK, Sequential, CachesFresh, [Next]_vars
  PROVE  CachesFresh'
<1>1. CASE UNCHANGED <<log, seen>>
  BY <1>1 DEF CachesFresh
<1>2. ASSUME NEW r \in Requests, Put(r) \/ PutError(r)
      PROVE  CachesFresh'
  <2>1. req[r].user \in Users /\ Written(r) \in Signup
    BY <1>2, WrittenType DEF Put, PutError
  <2> QED
    BY <1>1, <1>2, <2>1, FreshWrite DEF Put, PutError, TypeOK, Sequential
<1>3. CASE \E r \in Requests : Arrive(r) \/ Handle(r)
  BY <1>1, <1>2, <1>3
     DEF Arrive, Handle, InitStart, VerifyStart, InitCheckPhone, InitLookup, InitSend,
         VerifyDecide, Get, PutConflict, storeVars
<1>6. CASE StoreNext
  BY <1>6, FreshEnvironment DEF TypeOK, Sequential
<1>7. ASSUME NEW p \in Replicas, Crash(p)
      PROVE  CachesFresh'
  <2>1. /\ seen' = [seen EXCEPT ![p] = [u \in Users |-> Len(log[u])]]
        /\ UNCHANGED log
    BY <1>7 DEF Crash
  <2> QED
    BY <2>1 DEF CachesFresh, TypeOK, StoreTypeOK
<1> QED
  BY <1>1, <1>3, <1>6, <1>7 DEF Next, Finished, vars

\* A handler begins only when no other is running.
LEMMA NewInFlight ==
  ASSUME IInv, Answered, Sequential, [Next]_vars, NEW r \in Requests, InFlight(r)', ~InFlight(r)
  PROVE  \A q \in Requests \ {r} : ~InFlight(q) /\ req'[q] = req[q]
<1>1. req' # req
  BY DEF InFlight
<1>2. ASSUME NEW p \in Replicas, Crash(p)
      PROVE  FALSE
  <2>1. req'[r] = req[r]
    BY <1>2 DEF Crash
  <2> QED
    BY <2>1 DEF InFlight
<1>3. PICK x \in Requests : Arrive(x) \/ Handle(x)
  BY <1>1, <1>2 DEF Next, Finished, vars, phoneVars
<1>4. \A q \in Requests \ {x} : req'[q] = req[q]
  <2>1. StepOf(x) \/ UNCHANGED req
    BY <1>3, HandleAnswer, StartAnswer, StepGrows DEF Arrive, InitStart, VerifyStart, IInv
  <2> QED
    BY <2>1 DEF StepOf, IInv, TypeOK
<1>5. x = r
  BY <1>4 DEF InFlight
<1>6. ~Handle(r)
  BY DEF InFlight, Handle, InitCheckPhone, InitLookup, InitSend, VerifyDecide, Get, Put, PutConflict, PutError
<1>7. MayStart(r)
  BY <1>3, <1>5, <1>6 DEF Arrive, InitStart, VerifyStart
<1> QED
  BY <1>4, <1>5, <1>7, NothingInFlight

LEMMA AloneStep ==
  ASSUME IInv, Answered, Sequential, Alone, [Next]_vars
  PROVE  Alone'
BY NewInFlight DEF Alone, InFlight

-----------------------------------------------------------------------------
(* What a step of a request does to the code and the attempts it is about  *)
(* to write.                                                               *)

Tracked == {"code", "attempts"}

SameTracked(f, g) ==
  \A k \in Tracked : (k \in DOMAIN f <=> k \in DOMAIN g) /\ (k \in DOMAIN f => f[k] = g[k])

Begins(r) ==
  /\ ~InFlight(r) /\ writes'[r] = NoChange /\ UNCHANGED log
  /\ req'[r].answer # "invalid"
  /\ InFlight(r)' => /\ req'[r].user \in Users /\ req'[r].at \in Replicas
                     /\ req'[r].base = seen[req'[r].at][req'[r].user]
                     /\ req'[r].pc \in {"checkPhone", "decide"}
                     /\ req'[r].kind = "init" =>
                          "verification-required" \in Cached(req'[r].at, req'[r].user).states

Ends(r) ==
  /\ InFlight(r) /\ ~InFlight(r)' /\ SameRequest(r) /\ writes'[r] = NoChange
  /\ req'[r].answer = "invalid" => req[r].answer = "invalid" /\ Put(r)

Continues(r) ==
  /\ InFlight(r) /\ InFlight(r)' /\ SameRequest(r)
  /\ SameTracked(writes[r].set, writes'[r].set) /\ writes'[r].del = writes[r].del
  /\ req'[r].answer = "invalid" <=> req[r].answer = "invalid"
  /\ req[r].pc \in {"get", "put"} => req'[r].pc \in {"get", "put"}
  /\ req'[r].pc \notin {"checkPhone", "decide"}

Sends(r) ==
  /\ req[r].pc = "send" /\ req'[r].pc = "get" /\ SameRequest(r) /\ req[r].kind = "init"
  /\ req'[r].answer = "ok" /\ UNCHANGED log
  /\ writes'[r].del = writes[r].del
  /\ Tracked \subseteq DOMAIN writes'[r].set
  /\ writes'[r].set.code \in Codes /\ sms[writes'[r].set.code] = None
  /\ writes'[r].set.attempts = 0

Decides(r) ==
  LET a == Verdict(Base(r), req[r].code) IN
    /\ req[r].pc = "decide" /\ req'[r].pc = "get" /\ SameRequest(r) /\ req[r].kind = "verify"
    /\ req'[r].answer = a /\ UNCHANGED log
    /\ writes'[r] = VerifyWrites(Base(r), a)

\* The code and the attempts come with the decision of the handler.
Shape(r) ==
  LET set == writes[r].set IN
    /\ req[r].pc \in {"checkPhone", "decide"} => writes[r] = NoChange
    /\ req[r].pc \notin {"get", "put"} => DOMAIN set \cap Tracked = {}
    /\ req[r].kind = "verify" =>
         /\ "code" \in DOMAIN set => set.code = None
         /\ writes[r].del # {} => "code" \in DOMAIN set
    /\ req[r].answer = "invalid" => req[r].kind = "verify" /\ Base(r) # Absent

Shaped == \A r \in Requests : Shape(r)

Effect(r) == Begins(r) \/ Ends(r) \/ Continues(r) \/ Sends(r) \/ Decides(r)

LEMMA InvalidIsAnAnswer == None # "invalid"
BY NoneAssumption DEF Answers

LEMMA StartEffect ==
  ASSUME IInv, NEW r \in Requests, MayStart(r), NEW p \in Replicas, NEW u \in Users,
         NEW kind, NEW ph, NEW c, NEW pc, NEW a,
         Start(r, kind, p, u, ph, c, pc, a), UNCHANGED <<log, writes>>,
         \/ pc = "checkPhone" /\ "verification-required" \in Cached(p, u).states
         \/ pc = "decide" /\ kind # "init"
         \/ pc = "done",
         a # "invalid"
  PROVE  Effect(r)
<1>1. req'[r] = [Idle EXCEPT !.pc = pc, !.kind = kind, !.at = p, !.user = u,
                             !.phone = ph, !.code = c, !.base = seen[p][u], !.answer = a]
  BY DEF Start, IInv, TypeOK
<1>2. /\ req'[r].pc = pc /\ req'[r].user = u /\ req'[r].base = seen[p][u] /\ req'[r].answer = a
      /\ req'[r].at = p /\ req'[r].kind = kind
  BY <1>1 DEF Idle
<1>3. writes[r] = NoChange /\ writes'[r] = NoChange /\ ~InFlight(r)
  BY DEF MayStart, IInv, UpdatesHold, InFlight
<1> QED
  BY <1>2, <1>3 DEF Effect, Begins, InFlight

LEMMA AnswerEffect ==
  ASSUME IInv, NEW r \in Requests, InFlight(r), NEW a \in Answers, Answer(r, a),
         a = "invalid" => req[r].answer = "invalid" /\ Put(r)
  PROVE  Effect(r)
<1>1. req'[r] = Done(r, a) /\ writes'[r] = NoChange
  BY DEF Answer, IInv, TypeOK
<1>2. SameRequest(r) /\ req'[r].pc = "done" /\ req'[r].answer = a
  BY <1>1, DoneRequest DEF IInv
<1> QED
  BY <1>1, <1>2 DEF Effect, Ends, InFlight

LEMMA RetryEffect ==
  ASSUME IInv, NEW r \in Requests, req[r].pc \in {"get", "put"}, Retry(r)
  PROVE  Effect(r)
<1>1. InFlight(r)
  BY DEF InFlight
<1>2. CASE Answer(r, "internal")
  BY <1>1, <1>2, AnswerEffect DEF Answers
<1>3. CASE ~ Answer(r, "internal")
  <2>1. /\ req'[r].pc = "get" /\ req'[r].answer = req[r].answer /\ SameRequest(r)
        /\ writes' = writes
    <3>1. writes' = writes /\ req'[r] = [req[r] EXCEPT !.pc = "get", !.tries = req[r].tries + 1]
      BY <1>3 DEF Retry, IInv, TypeOK
    <3>2. req[r] \in Request
      BY DEF IInv, TypeOK
    <3> QED
      BY <3>1, <3>2 DEF SameRequest, Request
  <2> QED
    BY <1>1, <2>1 DEF Effect, Continues, InFlight, SameTracked
<1> QED
  BY <1>2, <1>3

LEMMA InitCheckPhoneEffect ==
  ASSUME IInv, Answered, Shaped, NEW r \in Requests, InitCheckPhone(r)
  PROVE  Effect(r)
<1> DEFINE set == With([phone |-> req[r].phone], Reset(Base(r)))
           w == [NoChange EXCEPT !.set = set]
<1>1. /\ InFlight(r) /\ HandlerTypeOK(r) /\ Base(r) \in Signup /\ req[r] \in Request
      /\ req[r].kind = "init" /\ req[r].pc = "checkPhone" /\ req[r].answer = None
  BY BaseType DEF InitCheckPhone, InFlight, HandlerTypeOK, Answered, AnswerHolds, Placed, IInv, TypeOK
<1>2. IsUpdate(w)
  BY <1>1, ResetIsUpdate DEF HandlerTypeOK, IInv
<1>3. w.set = set /\ w.del = {} /\ DOMAIN set \cap Tracked = {}
  BY DEF NoChange, With, Reset, NoFields, Tracked
<1>4. writes[r].del = {} /\ DOMAIN writes[r].set \cap Tracked = {}
  BY <1>1 DEF Shaped, Shape, NoChange, NoFields
<1> HIDE DEF set, w
<1>5. CASE Answer(r, "phoneInUse")
  BY <1>1, <1>5, AnswerEffect DEF Answers
<1>6. CASE Update(r, w, "limit")
  <2>1. /\ req'[r].pc = "get" /\ req'[r].answer = "limit" /\ SameRequest(r) /\ writes'[r] = w
    BY <1>2, <1>6, UpdateType DEF Answers, IInv
  <2> QED
    BY <1>1, <1>3, <1>4, <2>1, InvalidIsAnAnswer DEF Effect, Continues, InFlight, SameTracked, Tracked
<1>7. CASE /\ req' = [req EXCEPT ![r].pc = IF LookupApplies(r) THEN "lookup" ELSE "send",
                                 ![r].clock = now]
           /\ writes' = [writes EXCEPT ![r] = w]
  <2> DEFINE pc == IF LookupApplies(r) THEN "lookup" ELSE "send"
  <2>1. /\ req'[r] = [req[r] EXCEPT !.pc = pc, !.clock = now]
        /\ writes'[r] = w
    BY <1>7 DEF IInv, TypeOK
  <2>2. pc \in {"lookup", "send"}
    OBVIOUS
  <2> HIDE DEF pc
  <2>3. req'[r].pc = pc /\ req'[r].answer = None /\ SameRequest(r)
    BY <1>1, <2>1 DEF Request, SameRequest
  <2> QED
    BY <1>1, <1>3, <1>4, <2>1, <2>2, <2>3 DEF Effect, Continues, InFlight, SameTracked, Tracked
<1> QED
  BY <1>5, <1>6, <1>7 DEF InitCheckPhone, set, w

LEMMA InitLookupEffect ==
  ASSUME IInv, Answered, Shaped, NEW r \in Requests, InitLookup(r)
  PROVE  Effect(r)
<1>1. /\ InFlight(r) /\ HandlerTypeOK(r) /\ IsUpdate(writes[r])
      /\ req[r] \in Request /\ req[r].kind = "init" /\ req[r].answer = None /\ req[r].pc = "lookup"
  BY BaseType DEF InitLookup, InFlight, IInv, TypeOK, HandlerTypeOK, Answered, AnswerHolds, Placed
<1>2. ASSUME SameRequest(r), writes'[r].del = writes[r].del,
             \/ req'[r].pc = "send" /\ req'[r].answer = None
             \/ req'[r].pc = "get" /\ req'[r].answer = "rejected",
             \/ writes'[r].set = writes[r].set
             \/ \E risk : writes'[r].set = With(writes[r].set, [risk |-> risk])
      PROVE  Effect(r)
  <2>1. SameTracked(writes[r].set, writes'[r].set)
    BY <1>2 DEF SameTracked, Tracked, With
  <2> QED
    BY <1>1, <1>2, <2>1, InvalidIsAnAnswer DEF Effect, Continues, InFlight
<1>3. ASSUME Goto(r, "send")
      PROVE  SameRequest(r) /\ req'[r].pc = "send" /\ req'[r].answer = None
  <2>1. req'[r] = [req[r] EXCEPT !.pc = "send"]
    BY <1>3 DEF Goto, IInv, TypeOK
  <2> QED
    BY <1>1, <2>1 DEF Request, SameRequest
<1>4. CASE Goto(r, "send") /\ UNCHANGED writes
  BY <1>2, <1>3, <1>4
<1>5. ASSUME NEW risk \in {"low", "high"}
      PROVE  LET w == [writes[r] EXCEPT !.set = With(@, [risk |-> risk])] IN
               /\ Goto(r, "send") /\ writes' = [writes EXCEPT ![r] = w] => Effect(r)
               /\ /\ req' = [req EXCEPT ![r].pc = "get", ![r].answer = "rejected"]
                  /\ writes' = [writes EXCEPT ![r] = [w EXCEPT !.add = {"rejected"}]]
                  => Effect(r)
  <2> DEFINE set == With(writes[r].set, [risk |-> risk])
             w == [writes[r] EXCEPT !.set = set]
             x == [w EXCEPT !.add = {"rejected"}]
  <2>1. w.set = set /\ x.set = set /\ w.del = writes[r].del /\ x.del = writes[r].del
    BY <1>1, UpdateParts
  <2> HIDE DEF w, x
  <2>2. ASSUME Goto(r, "send"), writes' = [writes EXCEPT ![r] = w]
        PROVE  Effect(r)
    BY <1>2, <1>3, <2>1, <2>2 DEF TypeOK, IInv
  <2>3. ASSUME req' = [req EXCEPT ![r].pc = "get", ![r].answer = "rejected"],
               writes' = [writes EXCEPT ![r] = x]
        PROVE  Effect(r)
    <3>1. req'[r] = [req[r] EXCEPT !.pc = "get", !.answer = "rejected"]
      BY <2>3 DEF TypeOK, IInv
    <3>2. req'[r].pc = "get" /\ req'[r].answer = "rejected" /\ SameRequest(r)
      BY <1>1, <3>1 DEF SameRequest, Request
    <3>3. writes'[r].set = set /\ writes'[r].del = writes[r].del
      BY <2>1, <2>3 DEF TypeOK, IInv
    <3> QED
      BY <1>2, <3>2, <3>3
  <2> QED
    BY <2>2, <2>3 DEF w, x
<1> QED
  BY <1>4, <1>5 DEF InitLookup

LEMMA InitSendEffect ==
  ASSUME IInv, Answered, Shaped, NEW r \in Requests, InitSend(r)
  PROVE  Effect(r)
<1>1. /\ InFlight(r) /\ HandlerTypeOK(r) /\ IsUpdate(writes[r]) /\ UNCHANGED log
      /\ req[r] \in Request /\ req[r].kind = "init" /\ req[r].answer = None /\ req[r].pc = "send"
  BY BaseType
     DEF InitSend, InFlight, IInv, TypeOK, HandlerTypeOK, Answered, AnswerHolds, Placed, storeVars
<1>2. ASSUME NEW a, req' = [req EXCEPT ![r].pc = "get", ![r].answer = a]
      PROVE  req'[r].pc = "get" /\ SameRequest(r) /\ req'[r].answer = a
  <2>1. req'[r] = [req[r] EXCEPT !.pc = "get", !.answer = a]
    BY <1>2 DEF TypeOK, IInv
  <2> QED
    BY <1>1, <2>1 DEF TypeOK, SameRequest, Request
<1>3. CASE UNCHANGED writes /\ req' = [req EXCEPT ![r].pc = "get", ![r].answer = "internal"]
  <2>1. req'[r].pc = "get" /\ SameRequest(r) /\ req'[r].answer = "internal"
    BY <1>2, <1>3
  <2>2. SameTracked(writes[r].set, writes'[r].set) /\ writes'[r].del = writes[r].del
    BY <1>3 DEF SameTracked
  <2>3. req[r].answer # "invalid"
    BY <1>1, InvalidIsAnAnswer
  <2> QED
    BY <1>1, <2>1, <2>2, <2>3 DEF Effect, Continues, InFlight
<1>4. ASSUME NEW c \in Codes, sms[c] = None,
             writes' = [writes EXCEPT ![r].set = With(@, CodeFields(r, c))],
             req' = [req EXCEPT ![r].pc = "get", ![r].answer = "ok"]
      PROVE  Effect(r)
  <2> DEFINE set == With(writes[r].set, CodeFields(r, c))
             w == [writes[r] EXCEPT !.set = set]
  <2>1. writes'[r] = w
    BY <1>4 DEF TypeOK, IInv
  <2>2. w.set = set /\ w.del = writes[r].del
    BY <1>1, UpdateParts
  <2>3. Tracked \subseteq DOMAIN set /\ set["code"] = c /\ set["attempts"] = 0
    BY DEF With, CodeFields, Tracked
  <2> HIDE DEF set, w
  <2>4. Sends(r)
    BY <1>1, <1>2, <1>4, <2>1, <2>2, <2>3 DEF Sends
  <2> QED
    BY <2>4 DEF Effect
<1> QED
  BY <1>3, <1>4 DEF InitSend

LEMMA VerifyDecideEffect ==
  ASSUME IInv, NEW r \in Requests, VerifyDecide(r)
  PROVE  Effect(r)
<1> DEFINE a == Verdict(Base(r), req[r].code)
           w == VerifyWrites(Base(r), a)
<1>1. InFlight(r) /\ HandlerTypeOK(r) /\ Base(r) \in Signup /\ UNCHANGED log
      /\ req[r].kind = "verify" /\ req[r].pc = "decide"
  BY BaseType DEF VerifyDecide, InFlight, HandlerTypeOK, IInv, storeVars
<1>2. IsUpdate(w) /\ a \in Answers
  BY <1>1, VerifyIsUpdate
<1>3. CASE Answer(r, "phoneInUse")
  BY <1>1, <1>3, AnswerEffect DEF Answers
<1>4. CASE Update(r, w, a)
  <2> HIDE DEF a, w
  <2>1. req'[r].pc = "get" /\ req'[r].answer = a /\ SameRequest(r) /\ writes'[r] = w
    BY <1>2, <1>4, UpdateType DEF IInv
  <2> QED
    BY <1>1, <2>1 DEF Effect, Decides, a, w
<1> QED
  BY <1>3, <1>4 DEF VerifyDecide, a, w

LEMMA GetEffect ==
  ASSUME IInv, NEW r \in Requests, Get(r)
  PROVE  Effect(r)
<1>1. CASE Retry(r)
  BY <1>1, RetryEffect DEF Get
<1>2. CASE /\ req' = [req EXCEPT ![r].pc = "put", ![r].copy = seen[req[r].at][req[r].user]]
           /\ UNCHANGED writes
  <2>1. /\ req'[r] = [req[r] EXCEPT !.pc = "put", !.copy = seen[req[r].at][req[r].user]]
        /\ req[r] \in Request /\ req[r].pc = "get"
    BY <1>2 DEF Get, IInv, TypeOK
  <2>2. req'[r].pc = "put" /\ SameRequest(r) /\ req'[r].answer = req[r].answer
    BY <2>1 DEF SameRequest, Request
  <2> QED
    BY <1>2, <2>1, <2>2 DEF Effect, Continues, InFlight, SameTracked
<1> QED
  BY <1>1, <1>2 DEF Get

LEMMA PutEffect ==
  ASSUME IInv, NEW r \in Requests, Put(r)
  PROVE  Effect(r)
<1>1. InFlight(r) /\ HandlerTypeOK(r) /\ req[r].answer \in Answers
  BY DEF Put, InFlight, IInv, TypeOK, HandlerTypeOK, Request, Opt
<1> QED
  BY <1>1, AnswerEffect DEF Put

\* Each request takes a step of its own or none.
LEMMA EffectStep ==
  ASSUME IInv, Answered, Shaped, [Next]_vars, NEW r \in Requests
  PROVE  Effect(r) \/ (req'[r] = req[r] /\ writes'[r] = writes[r])
<1>1. CASE UNCHANGED <<req, writes>>
  BY <1>1
<1>2. ASSUME NEW q \in Requests, NEW p \in Replicas, NEW u \in Users, NEW ph \in Phones, InitStart(q, p, u, ph)
      PROVE  Effect(q)
  BY <1>2, StartEffect, InvalidIsAnAnswer DEF InitStart, MayVerify, storeVars
<1>3. ASSUME NEW q \in Requests, NEW p \in Replicas, NEW u \in Users, NEW c \in Codes, VerifyStart(q, p, u, c)
      PROVE  Effect(q)
  BY <1>3, StartEffect, InvalidIsAnAnswer DEF VerifyStart, storeVars
<1>4. ASSUME NEW q \in Requests, Handle(q)
      PROVE  Effect(q)
  BY <1>4, InitCheckPhoneEffect, InitLookupEffect, InitSendEffect, VerifyDecideEffect, GetEffect,
     PutEffect, RetryEffect DEF Handle, PutConflict, PutError
<1>5. ASSUME NEW q \in Requests, Arrive(q) \/ Handle(q)
      PROVE  /\ Effect(q)
             /\ q # r => req'[r] = req[r] /\ writes'[r] = writes[r]
  <2>1. Effect(q)
    BY <1>2, <1>3, <1>4, <1>5 DEF Arrive
  <2>2. StepOf(q)
    BY <1>5, HandleAnswer, StartAnswer, StepGrows DEF Arrive, InitStart, VerifyStart, IInv
  <2> QED
    BY <2>1, <2>2 DEF StepOf, IInv, TypeOK
<1>6. ASSUME NEW p \in Replicas, Crash(p)
      PROVE  Effect(r) \/ (req'[r] = req[r] /\ writes'[r] = writes[r])
  <2>1. CASE InFlight(r) /\ req[r].at = p
    <3>1. req'[r] = Done(r, "lost") /\ writes'[r] = NoChange
      BY <1>6, <2>1 DEF Crash
    <3>2. SameRequest(r) /\ req'[r].pc = "done" /\ req'[r].answer = "lost"
      BY <3>1, DoneRequest DEF Answers, IInv
    <3> QED
      BY <2>1, <3>1, <3>2 DEF Effect, Ends, InFlight
  <2>2. CASE ~(InFlight(r) /\ req[r].at = p)
    BY <1>6, <2>2 DEF Crash
  <2> QED
    BY <2>1, <2>2
<1> QED
  BY <1>1, <1>5, <1>6 DEF Next, Finished, vars, phoneVars

\* A request is told that its code is the wrong one when it is decided, and this of the version
\* that it was decided on.
LEMMA InvalidStep ==
  ASSUME IInv, Answered, Shaped, [Next]_vars, NEW r \in Requests, req'[r].answer = "invalid"
  PROVE  /\ Base(r)' = Base(r) /\ SameRequest(r)
         /\ \/ req[r].answer = "invalid"
            \/ Decides(r) /\ Verdict(Base(r), req[r].code) = "invalid"
<1>1. Grows /\ AnswerHolds(r)
  BY StepGrows DEF Answered, IInv
<1>2. CASE req'[r] = req[r]
  <2>1. req[r].pc # "idle"
    BY <1>1, <1>2, InvalidIsAnAnswer DEF AnswerHolds, Placed
  <2>2. SameRequest(r)
    BY <1>2 DEF SameRequest
  <2>3. Base(r)' = Base(r)
    BY <1>1, <2>1, <2>2, PhoneOfStable DEF AnswerHolds, Placed, Grows
  <2> QED
    BY <1>2, <2>2, <2>3
<1>3. CASE Effect(r)
  <2>1. InFlight(r) /\ SameRequest(r) /\ ~Begins(r) /\ ~Sends(r)
    BY <1>3 DEF Effect, Begins, Ends, Continues, Sends, Decides, InFlight
  <2>2. Base(r)' = Base(r)
    BY <1>1, <2>1, PhoneOfStable DEF AnswerHolds, Placed, InFlight, Grows
  <2> QED
    BY <1>3, <2>1, <2>2 DEF Effect, Ends, Continues, Decides
<1> QED
  BY <1>2, <1>3, EffectStep

LEMMA ShapeStep ==
  ASSUME IInv, Answered, Shaped, [Next]_vars
  PROVE  Shaped'
<1> SUFFICES ASSUME NEW r \in Requests
             PROVE  Shape(r)'
  BY DEF Shaped
<1>1. Shape(r) /\ (Effect(r) \/ (req'[r] = req[r] /\ writes'[r] = writes[r]))
  BY EffectStep DEF Shaped
<1>2. NoChange.set = NoFields /\ NoChange.del = {} /\ DOMAIN NoFields = {}
  BY DEF NoChange, NoFields
<1>inv. req'[r].answer = "invalid" => req'[r].kind = "verify" /\ Base(r)' # Absent
  <2> SUFFICES ASSUME req'[r].answer = "invalid"
               PROVE  req'[r].kind = "verify" /\ Base(r)' # Absent
    OBVIOUS
  <2>1. Base(r)' = Base(r) /\ SameRequest(r)
    BY InvalidStep
  <2>2. CASE req[r].answer = "invalid"
    BY <1>1, <2>1, <2>2 DEF Shape, SameRequest
  <2>3. CASE Decides(r)
    BY <2>1, <2>3 DEF Decides, SameRequest, InFlight, IInv, TypeOK, HandlerTypeOK
  <2> QED
    BY <2>2, <2>3, InvalidStep
<1>3. CASE req'[r] = req[r] /\ writes'[r] = writes[r]
  BY <1>inv, <1>1, <1>3 DEF Shape
<1>4. CASE Begins(r)
  BY <1>inv, <1>2, <1>4 DEF Begins, Shape
<1>5. CASE Ends(r)
  BY <1>inv, <1>1, <1>2, <1>5 DEF Ends, Shape, SameRequest, InFlight
<1>6. CASE Continues(r)
  BY <1>inv, <1>1, <1>6 DEF Continues, Shape, SameRequest, SameTracked, Tracked
<1>7. CASE Sends(r)
  BY <1>inv, <1>7, NoneAssumption DEF Sends, Shape, SameRequest
<1>8. CASE Decides(r)
  <2> DEFINE s == Base(r)
             a == Verdict(s, req[r].code)
  <2>1. writes'[r] = VerifyWrites(s, a) /\ req'[r].pc = "get" /\ req'[r].kind = "verify"
    BY <1>8 DEF Decides, SameRequest
  <2>2. CASE a = "ok"
    <3>1. writes'[r].set = Cleared
      BY <2>1, <2>2 DEF VerifyWrites
    <3>2. "code" \in DOMAIN Cleared /\ Cleared.code = None
      BY DEF Cleared
    <3> QED
      BY <1>inv, <2>1, <3>1, <3>2 DEF Shape
  <2>3. CASE a # "ok"
    <3>1. writes'[r].del = {} /\ "code" \notin DOMAIN writes'[r].set
      BY <2>1, <2>3, <1>2 DEF VerifyWrites, NoChange
    <3> QED
      BY <1>inv, <2>1, <3>1 DEF Shape
  <2> QED
    BY <2>2, <2>3
<1> QED
  BY <1>1, <1>3, <1>4, <1>5, <1>6, <1>7, <1>8 DEF Effect

-----------------------------------------------------------------------------
(* A verified UserSignup is settled.                                       *)

Unverified(u) == Latest(u) # Absent => "verification-required" \in Latest(u).states

SettledInv ==
  /\ CachesFresh /\ Alone /\ Shaped
  /\ \A r \in Requests : InFlight(r) /\ req[r].kind = "init" => Unverified(req[r].user)
  /\ \A u \in Users : Latest(u) # Absent /\ "verification-required" \notin Latest(u).states =>
       Latest(u).code = None

LEMMA LatestStep ==
  ASSUME TypeOK, [Next]_vars, NEW u \in Users, Latest(u)' # Absent
  PROVE  \/ log'[u] = log[u] /\ Latest(u)' = Latest(u)
         \/ Writes(u) /\ Next /\ Latest(u) \in Signup
<1>1. CASE log'[u] = log[u]
  BY <1>1 DEF Latest
<1>2. CASE log'[u] # log[u]
  <2>1. Latest(u) # Absent /\ \E s \in Signup \cup {Absent} : log'[u] = Append(log[u], s)
    BY <1>2, LogStep
  <2>2. log[u] \in Seq(Signup \cup {Absent}) /\ Len(log'[u]) = Len(log[u]) + 1
    BY <2>1 DEF TypeOK, StoreTypeOK
  <2> QED
    BY <1>2, <2>1, <2>2, LatestType DEF Writes, TypeOK, vars
<1> QED
  BY <1>1, <1>2

\* The fields of a version that a request writes.
LEMMA RequestWrites ==
  ASSUME IInv, NEW r \in Requests, NEW s \in Signup
  PROVE  LET t == Apply(s, writes[r]) IN
           /\ t.states = (s.states \cup writes[r].add) \ writes[r].del
           /\ t.phone = IF "phone" \in DOMAIN writes[r].set THEN writes[r].set.phone ELSE s.phone
           /\ t.code = IF "code" \in DOMAIN writes[r].set THEN writes[r].set.code ELSE s.code
           /\ t.attempts = IF "attempts" \in DOMAIN writes[r].set THEN writes[r].set.attempts ELSE s.attempts
<1>1. IsUpdate(writes[r]) /\ {"phone", "code", "attempts"} \subseteq Annotations
  BY DEF IInv, TypeOK, Annotations, Numbers
<1> QED
  BY <1>1, ApplyType

LEMMA OperatorWritesFields ==
  ASSUME NEW s \in Signup
  PROVE  /\ \A t \in {Approved(s), Deactivated(s), ApprovedManually(s)} :
              t.phone = s.phone /\ t.code = s.code /\ t.attempts = s.attempts
         /\ \A c : /\ Reported(s, c).phone = s.phone /\ Reported(s, c).code = s.code
                   /\ Reported(s, c).attempts = s.attempts
BY DEF Approved, Deactivated, ApprovedManually, Reported, Signup

\* Who writes, once more: a request that alone is in flight, or the environment.
LEMMA SettledWrites ==
  ASSUME IInv, Answered, SettledInv, "admin" \notin External, Next, NEW u \in Users, Writes(u)
  PROVE  LET s == Latest(u)
             t == Latest(u)' IN
           \/ /\ \E r \in Requests : InFlight(r) /\ req[r].user = u /\ req[r].kind = "init"
              /\ "verification-required" \in s.states /\ "verification-required" \in t.states
           \/ /\ \E r \in Requests : InFlight(r) /\ req[r].user = u /\ req[r].kind = "verify"
              /\ t.phone = s.phone
              /\ t.code \in {s.code, None}
              /\ t.code = None \/ ("verification-required" \in s.states => "verification-required" \in t.states)
           \/ /\ t.phone = s.phone /\ t.code = s.code
              /\ "verification-required" \in s.states <=> "verification-required" \in t.states
<1>1. Latest(u) \in Signup /\ Latest(u) # Absent
  BY LatestType DEF IInv, TypeOK, Writes
<1>2. ASSUME NEW r \in Requests, req[r].pc = "put", req[r].user = u,
             Latest(u)' = Apply(Latest(u), writes[r])
      PROVE  \/ /\ InFlight(r) /\ req[r].kind = "init"
                /\ "verification-required" \in Latest(u).states
                /\ "verification-required" \in Latest(u)'.states
             \/ /\ InFlight(r) /\ req[r].kind = "verify"
                /\ Latest(u)'.phone = Latest(u).phone
                /\ Latest(u)'.code \in {Latest(u).code, None}
                /\ \/ Latest(u)'.code = None
                   \/ "verification-required" \in Latest(u).states =>
                        "verification-required" \in Latest(u)'.states
  <2>1. /\ InFlight(r) /\ UpdateOK(r) /\ HandlerTypeOK(r) /\ Shape(r) /\ AnswerHolds(r)
        /\ req[r].kind \in {"init", "verify"}
    BY <1>2 DEF IInv, TypeOK, UpdatesHold, InFlight, HandlerTypeOK, SettledInv, Shaped, Answered
  <2>2. /\ Latest(u)'.states = (Latest(u).states \cup writes[r].add) \ writes[r].del
        /\ Latest(u)'.phone = IF "phone" \in DOMAIN writes[r].set THEN writes[r].set.phone ELSE Latest(u).phone
        /\ Latest(u)'.code = IF "code" \in DOMAIN writes[r].set THEN writes[r].set.code ELSE Latest(u).code
    BY <1>1, <1>2, RequestWrites
  <2>3. CASE req[r].kind = "init"
    BY <1>1, <1>2, <2>1, <2>2, <2>3 DEF SettledInv, Unverified, UpdateOK
  <2>4. CASE req[r].kind = "verify" /\ req[r].kind # "init"
    BY <2>1, <2>2, <2>4 DEF AnswerHolds, Shape, UpdateOK
  <2> QED
    BY <2>1, <2>3, <2>4
<1>3. \/ \E r \in Requests : /\ req[r].pc = "put" /\ req[r].user = u
                             /\ Latest(u)' = Apply(Latest(u), writes[r])
      \/ Latest(u)' = Approved(Latest(u))
      \/ Latest(u)' = Deactivated(Latest(u))
      \/ \E c : Latest(u)' = Reported(Latest(u), c)
  BY WhoWrites DEF IInv
<1> QED
  BY <1>1, <1>2, <1>3, OperatorStates, OperatorWritesFields

LEMMA SettledStep ==
  ASSUME IInv, IInv', Answered, SettledInv, Sequential, "admin" \notin External, [Next]_vars
  PROVE  SettledInv'
<1>1. CachesFresh' /\ Alone' /\ Shaped'
  BY FreshStep, AloneStep, ShapeStep DEF SettledInv, IInv
<1>2. ASSUME NEW r \in Requests, InFlight(r)', req'[r].kind = "init",
             NEW u \in Users, u = req'[r].user, Latest(u)' # Absent
      PROVE  "verification-required" \in Latest(u)'.states
  <2>1. CASE Begins(r)
    <3>1. Latest(u)' = Latest(u) /\ Cached(req'[r].at, u) = Latest(u)
      BY <1>2, <2>1 DEF Begins, Latest, Cached, SettledInv, CachesFresh
    <3> QED
      BY <1>2, <2>1, <3>1 DEF Begins
  <2>2. CASE ~Begins(r)
    <3>1. InFlight(r) /\ SameRequest(r)
      BY <1>2, <2>2, EffectStep
         DEF Effect, Ends, Continues, Sends, Decides, InFlight, SameRequest, SettledInv
    <3>2. Unverified(u) /\ req[r].kind = "init" /\ req[r].user = u
      BY <1>2, <3>1 DEF SettledInv, SameRequest
    <3>3. CASE log'[u] = log[u] /\ Latest(u)' = Latest(u)
      BY <1>2, <3>2, <3>3 DEF Unverified
    <3>4. CASE Writes(u) /\ Next
      <4>1. \A q \in Requests : InFlight(q) => q = r
        BY <3>1 DEF SettledInv, Alone
      <4>2. "verification-required" \in Latest(u).states
        BY <3>2, <3>4 DEF Unverified, Writes
      <4> QED
        BY <3>2, <3>4, <4>1, <4>2, SettledWrites
    <3> QED
      BY <1>2, <3>3, <3>4, LatestStep DEF IInv
  <2> QED
    BY <2>1, <2>2
<1>3. ASSUME NEW u \in Users, Latest(u)' # Absent, "verification-required" \notin Latest(u)'.states
      PROVE  Latest(u)'.code = None
  <2>1. CASE Latest(u)' = Latest(u)
    BY <1>3, <2>1 DEF SettledInv
  <2>2. CASE Writes(u) /\ Next
    <3>1. Latest(u) # Absent
      BY <2>2 DEF Writes
    <3> QED
      BY <1>3, <2>2, <3>1, SettledWrites DEF SettledInv
  <2> QED
    BY <1>3, <2>1, <2>2, LatestStep DEF IInv
<1>4. ASSUME NEW r \in Requests, InFlight(r)', req'[r].kind = "init"
      PROVE  Unverified(req[r].user)'
  <2>1. req'[r].user \in Users
    BY <1>4 DEF IInv, TypeOK, HandlerTypeOK
  <2> QED
    BY <1>2, <1>4, <2>1 DEF Unverified, Latest
<1> QED
  BY <1>1, <1>3, <1>4 DEF SettledInv

LEMMA SettledInit == Init => SettledInv
<1> SUFFICES ASSUME Init
             PROVE  SettledInv
  OBVIOUS
<1>1. \A r \in Requests : req[r] = Idle /\ writes[r] = NoChange
  BY DEF Init
<1>2. ASSUME NEW u \in Users
      PROVE  /\ Len(log[u]) = 1 /\ Latest(u).code = None
             /\ \A p \in Replicas : seen[p][u] = 1
  <2>1. PICK score \in Scores, activated \in Counters : log[u] = <<Fresh(score, activated)>>
    BY DEF Init
  <2> QED
    BY <2>1 DEF Latest, Fresh, Init
<1>3. Alone /\ Shaped
  BY <1>1, NoneAssumption, InvalidIsAnAnswer
     DEF Alone, Shaped, Shape, InFlight, Idle, NoChange, NoFields
<1>4. \A r \in Requests : ~InFlight(r)
  BY <1>1 DEF InFlight, Idle
<1>5. CachesFresh
  BY <1>2 DEF CachesFresh
<1> QED
  BY <1>2, <1>3, <1>4, <1>5 DEF SettledInv

\* With requests handled one at a time, on caches that do not lag, and no administrator in
\* between: a verified UserSignup keeps its phone and gets no new code
\* (verification_service.go:92-96).
THEOREM VerifiedStaysSettled ==
  ASSUME Sequential, "admin" \notin External
  PROVE  Spec => VerifiedIsSettled
<1>1. Init => SettledInv
  BY SettledInit
<1>2. IInv /\ IInv' /\ Answered /\ SettledInv /\ [Next]_vars => SettledInv'
  BY SettledStep
<1>3. ASSUME IInv, Answered, SettledInv, Next, NEW u \in Users, Writes(u),
             "verification-required" \notin Latest(u).states
      PROVE  Latest(u)'.phone = Latest(u).phone /\ Latest(u)'.code = Latest(u).code
  <2>1. Latest(u).code = None
    BY <1>3 DEF SettledInv, Writes
  <2> QED
    BY <1>3, <2>1, SettledWrites
<1>4. IInv /\ Answered /\ SettledInv /\ [Next]_vars =>
        [\A u \in Users : Writes(u) /\ "verification-required" \notin Latest(u).states =>
           Latest(u)'.phone = Latest(u).phone /\ Latest(u)'.code = Latest(u).code]_vars
  BY <1>3
<1> QED
  BY <1>1, <1>2, <1>4, AnsweredHolds, PTL DEF Spec, VerifiedIsSettled

-----------------------------------------------------------------------------
(* Wrong codes are counted.                                                *)

\* The requests answered that c is not the code they came with.
Wrong(c) == {r \in Requests : req[r].answer = "invalid" /\ Base(r).code = c}

Counted(c) == {r \in Wrong(c) : ~InFlight(r)}

\* The attempts s tells of are as many as have been made, if it has a code: with that of
\* the request in flight, and without it.
CountsAll(s) == s.code # None => Cardinality(Wrong(s.code)) <= s.attempts

CountsAnswered(s) == s.code # None => Cardinality(Counted(s.code)) <= s.attempts

CountInv ==
  /\ CachesFresh /\ Alone /\ Shaped
  /\ \A c \in Codes : Cardinality(Wrong(c)) <= AttemptsAllowed
  /\ \A u \in Users : Latest(u) # Absent => CountsAnswered(Latest(u))
  /\ \A r \in Requests : InFlight(r) /\ Latest(req[r].user) # Absent =>
       CountsAll(Apply(Latest(req[r].user), writes[r]))
  /\ \A r \in Requests : req[r].pc = "decide" =>
       /\ CountsAll(Base(r))
       /\ Latest(req[r].user) # Absent => /\ Latest(req[r].user).code = Base(r).code
                                          /\ Latest(req[r].user).attempts = Base(r).attempts

LEMMA Fewer ==
  ASSUME NEW B \in SUBSET Requests, NEW A \in SUBSET B
  PROVE  Cardinality(A) \in Nat /\ Cardinality(B) \in Nat /\ Cardinality(A) <= Cardinality(B)
<1>1. IsFiniteSet(B) /\ IsFiniteSet(A)
  BY RequestsFinite, FS_Subset
<1> QED
  BY <1>1, FS_Subset, FS_CardinalityType

LEMMA OneMore ==
  ASSUME NEW B \in SUBSET Requests, NEW r \in Requests, NEW A \in SUBSET (B \cup {r})
  PROVE  Cardinality(A) <= Cardinality(B) + 1
<1>1. B \cup {r} \in SUBSET Requests
  OBVIOUS
<1>2. Cardinality(A) <= Cardinality(B \cup {r}) /\ Cardinality(A) \in Nat /\ Cardinality(B \cup {r}) \in Nat
  BY <1>1, Fewer
<1>3. IsFiniteSet(B) /\ Cardinality(B) \in Nat
  BY RequestsFinite, FS_Subset, FS_CardinalityType
<1>4. Cardinality(B \cup {r}) = IF r \in B THEN Cardinality(B) ELSE Cardinality(B) + 1
  BY <1>3, FS_AddElement
<1> QED
  BY <1>2, <1>3, <1>4

\* A wrong answer is one that was given before, or the handler's decision.
LEMMA WrongStep ==
  ASSUME IInv, Answered, Shaped, [Next]_vars, NEW c, NEW r \in Wrong(c)'
  PROVE  \/ r \in Wrong(c)
         \/ Decides(r) /\ Verdict(Base(r), req[r].code) = "invalid" /\ Base(r).code = c
<1>1. r \in Requests /\ req'[r].answer = "invalid" /\ Base(r)'.code = c
  BY DEF Wrong
<1> QED
  BY <1>1, InvalidStep DEF Wrong

LEMMA CountedStep ==
  ASSUME IInv, Answered, Shaped, [Next]_vars, NEW c, NEW r \in Counted(c)'
  PROVE  r \in Wrong(c) /\ (r \in Counted(c) \/ Put(r))
<1>1. r \in Wrong(c)' /\ r \in Requests /\ ~InFlight(r)'
  BY DEF Counted, Wrong
<1>2. ~Decides(r)
  BY <1>1 DEF Decides, InFlight
<1>3. r \in Wrong(c)
  BY <1>1, <1>2, WrongStep
<1>4. CASE InFlight(r)
  <2>1. Ends(r)
    BY <1>1, <1>4, EffectStep DEF Effect, Begins, Continues, Sends, Decides, InFlight
  <2> QED
    BY <1>1, <1>3, <2>1 DEF Ends, Wrong
<1> QED
  BY <1>3, <1>4 DEF Counted

\* A request that writes, alone: its update applied to the latest version.
LEMMA CountWrites ==
  ASSUME IInv, Alone, Next, NEW u \in Users, Writes(u), NEW r \in Requests, InFlight(r), req[r].user = u
  PROVE  \/ req[r].pc = "put" /\ Latest(u)' = Apply(Latest(u), writes[r])
         \/ Latest(u)'.code = Latest(u).code /\ Latest(u)'.attempts = Latest(u).attempts
<1>1. Latest(u) \in Signup
  BY LatestType DEF IInv, TypeOK, Writes
<1>2. \A q \in Requests : req[q].pc = "put" => q = r
  BY DEF Alone, InFlight
<1> QED
  BY <1>1, <1>2, WhoWrites, OperatorWritesFields DEF IInv

LEMMA CountWritesOf ==
  ASSUME IInv, Next, NEW u \in Users, Writes(u)
  PROVE  \/ \E r \in Requests : /\ req[r].pc = "put" /\ req[r].user = u
                                /\ Latest(u)' = Apply(Latest(u), writes[r])
         \/ Latest(u)'.code = Latest(u).code /\ Latest(u)'.attempts = Latest(u).attempts
<1>1. Latest(u) \in Signup
  BY LatestType DEF IInv, TypeOK, Writes
<1> QED
  BY <1>1, WhoWrites, OperatorWritesFields DEF IInv

\* Put writes a version of its own UserSignup only.
LEMMA PutWrites ==
  ASSUME IInv, NEW r \in Requests, Put(r), NEW u \in Users
  PROVE  /\ u = req[r].user => Latest(u)' = Apply(Latest(u), writes[r]) /\ Latest(u) # Absent
         /\ u # req[r].user => log'[u] = log[u]
<1>1. req[r].user \in Users /\ Written(r) \in Signup
  BY WrittenType DEF Put, IInv
<1>2. /\ log'[req[r].user] = Append(log[req[r].user], Written(r))
      /\ \A v \in Users \ {req[r].user} : log'[v] = log[v]
      /\ log[req[r].user] \in Seq(Signup \cup {Absent})
  BY <1>1, NewVersionType DEF Put, IInv, TypeOK, StoreTypeOK
<1> QED
  BY <1>2 DEF Put, IsCurrent, Written, Latest

\* A stored code is its user's, and has its attempts.
LEMMA LatestCode ==
  ASSUME IInv, NEW u \in Users, Latest(u) # Absent
  PROVE  /\ Latest(u) \in Signup
         /\ Latest(u).code # None => /\ Latest(u).code \in Codes /\ Latest(u).attempts \in Nat
                                     /\ sms[Latest(u).code].user = u
<1>1. Latest(u) \in Signup /\ Latest(u) \in Versions(u)
  BY LatestType DEF IInv, TypeOK, StoreTypeOK, Versions, Latest
<1> QED
  BY <1>1 DEF IInv, StoredCodeWasSent, CodeComplete, Signup, Opt

LEMMA LatestCodeNext ==
  ASSUME IInv', NEW u \in Users, Latest(u)' # Absent
  PROVE  /\ Latest(u)' \in Signup
         /\ Latest(u)'.code # None => Latest(u)'.code \in Codes /\ Latest(u)'.attempts \in Nat
<1>1. log'[u] \in Seq(Signup \cup {Absent}) /\ Len(log'[u]) > 0
  BY DEF IInv, TypeOK, StoreTypeOK
<1>2. Latest(u)' \in Signup /\ Latest(u)' \in Versions(u)'
  BY <1>1 DEF Versions, Latest
<1>3. Latest(u)'.code # None => Latest(u)'.attempts # None
  BY <1>2 DEF IInv, CodeComplete
<1> QED
  BY <1>2, <1>3 DEF Signup, Opt

LEMMA WrongUser ==
  ASSUME IInv, Answered, Shaped, NEW c, c # None, NEW r \in Wrong(c)
  PROVE  r \in Requests /\ sms[c] # None /\ sms[c].user = req[r].user
<1>1. r \in Requests /\ req[r].answer = "invalid" /\ Base(r).code = c /\ Base(r) # Absent
  BY DEF Wrong, Shaped, Shape
<1>2. req[r].pc # "idle"
  BY <1>1, InvalidIsAnAnswer DEF Answered, AnswerHolds, Placed
<1>3. req[r].user \in Users /\ req[r].base \in 1 .. Len(log[req[r].user])
  BY <1>1, <1>2 DEF Answered, AnswerHolds, Placed
<1>4. req[r].base \in DOMAIN log[req[r].user]
  BY <1>3 DEF IInv, TypeOK, StoreTypeOK
<1> QED
  BY <1>1, <1>3, <1>4 DEF IInv, StoredCodeWasSent, Versions, Base

\* A code that was never sent is not compared with any.
LEMMA UnsentCode ==
  ASSUME IInv, Answered, Shaped, NEW c, sms[c] = None, c # None
  PROVE  Wrong(c) = {}
BY WrongUser

\* The latest version tells of the attempts that have been answered.
LEMMA CountedByLatest ==
  ASSUME IInv, IInv', Answered, CountInv, [Next]_vars, NEW u \in Users, Latest(u)' # Absent
  PROVE  CountsAnswered(Latest(u))'
<1>1. SUFFICES ASSUME NEW t, t = Latest(u)', t.code # None, NEW C, C = Counted(t.code)'
               PROVE  Cardinality(C) <= t.attempts
  BY DEF CountsAnswered, Counted, Wrong, Latest
<1>2. Shaped /\ Alone
  BY DEF CountInv
<1>3. /\ C \subseteq Wrong(t.code) /\ Wrong(t.code) \in SUBSET Requests
      /\ \A r \in C : r \in Counted(t.code) \/ Put(r)
  BY <1>1, <1>2, CountedStep DEF Wrong
<1>4. t \in Signup /\ t.code \in Codes /\ t.attempts \in Nat
  BY <1>1, LatestCodeNext
<1>5. ASSUME NEW r \in Requests, req[r].pc = "put", req[r].user = u, t = Apply(Latest(u), writes[r]),
             Latest(u) # Absent
      PROVE  Cardinality(C) <= t.attempts
  <2>1. Cardinality(Wrong(t.code)) <= t.attempts
    BY <1>1, <1>5 DEF CountInv, CountsAll, InFlight
  <2>2. Cardinality(C) <= Cardinality(Wrong(t.code)) /\ Cardinality(C) \in Nat
        /\ Cardinality(Wrong(t.code)) \in Nat
    BY <1>3, Fewer
  <2> QED
    BY <1>4, <2>1, <2>2
<1>6. CASE \E r \in Requests : Put(r) /\ req[r].user = u
  BY <1>1, <1>5, <1>6, PutWrites DEF Put
<1>7. CASE /\ \A r \in Requests : Put(r) => req[r].user # u
           /\ Latest(u) # Absent /\ t.code = Latest(u).code /\ t.attempts = Latest(u).attempts
  <2>1. sms[t.code].user = u
    BY <1>1, <1>7, LatestCode
  <2>2. C \subseteq Counted(t.code)
    BY <1>1, <1>2, <1>3, <1>7, <2>1, WrongUser
  <2>3. Cardinality(Counted(t.code)) <= t.attempts
    BY <1>1, <1>7 DEF CountInv, CountsAnswered
  <2>4. Cardinality(C) <= Cardinality(Counted(t.code)) /\ Cardinality(C) \in Nat
        /\ Cardinality(Counted(t.code)) \in Nat
    BY <1>3, <2>2, Fewer DEF Counted
  <2> QED
    BY <1>4, <2>3, <2>4
<1>8. CASE Writes(u) /\ Next
  BY <1>1, <1>5, <1>6, <1>7, <1>8, CountWritesOf DEF Writes
<1>9. CASE Latest(u)' = Latest(u)
  BY <1>1, <1>6, <1>7, <1>9
<1> QED
  BY <1>1, <1>8, <1>9, LatestStep DEF IInv

\* The decision that a code is wrong is one more attempt, and not one too many.
LEMMA OneMoreWrong ==
  ASSUME IInv, Answered, CountInv, [Next]_vars, NEW r \in Requests, Decides(r),
         Verdict(Base(r), req[r].code) = "invalid",
         NEW c, c = Base(r).code, NEW W, W = Wrong(c)'
  PROVE  /\ c # None /\ Base(r).attempts \in Nat
         /\ Cardinality(W) <= Base(r).attempts + 1
         /\ Base(r).attempts + 1 <= AttemptsAllowed
<1>1. InFlight(r) /\ HandlerTypeOK(r) /\ Base(r) \in Signup
  BY BaseType DEF Decides, InFlight, IInv
<1>2. /\ Base(r).attempts \in Nat /\ Base(r).attempts + 1 <= AttemptsAllowed
      /\ Base(r).expiry # None
  BY <1>1, PhoneVerificationAssumption, HostStoreAssumption
     DEF Verdict, AttemptsUsedUp, Attempts, Signup, Opt
<1>3. c # None
  <2>1. req[r].base \in DOMAIN log[req[r].user] /\ req[r].user \in Users
    BY <1>1 DEF HandlerTypeOK, IInv, TypeOK, StoreTypeOK
  <2>2. Base(r) \in Versions(req[r].user)
    BY <1>1, <2>1 DEF HandlerTypeOK, Versions, Base
  <2> QED
    BY <1>2, <2>1, <2>2 DEF IInv, CodeComplete
<1>4. Cardinality(Wrong(c)) <= Base(r).attempts
  BY <1>3 DEF CountInv, CountsAll, Decides
<1>5. W \in SUBSET (Wrong(c) \cup {r})
  <2>1. \A x \in Requests : Decides(x) => x = r
    BY <1>1 DEF CountInv, Alone, Decides, InFlight
  <2> QED
    BY <2>1, WrongStep DEF CountInv, Wrong
<1>6. Wrong(c) \in SUBSET Requests
  BY DEF Wrong
<1>7. Cardinality(W) <= Cardinality(Wrong(c)) + 1 /\ Cardinality(W) \in Nat /\ Cardinality(Wrong(c)) \in Nat
  <2>1. W \in SUBSET Requests
    BY <1>5, <1>6
  <2> QED
    BY <1>5, <1>6, <2>1, OneMore, Fewer
<1> QED
  BY <1>2, <1>3, <1>4, <1>7

\* Without such a decision there are no more wrong answers than before.
LEMMA NoMoreWrong ==
  ASSUME IInv, Answered, Shaped, [Next]_vars, NEW c, NEW W, W = Wrong(c)',
         \A r \in Requests : Decides(r) /\ Verdict(Base(r), req[r].code) = "invalid" => Base(r).code # c
  PROVE  /\ Cardinality(W) <= Cardinality(Wrong(c))
         /\ Cardinality(W) \in Nat /\ Cardinality(Wrong(c)) \in Nat
<1>1. W \in SUBSET Wrong(c) /\ Wrong(c) \in SUBSET Requests
  BY WrongStep DEF Wrong
<1> QED
  BY <1>1, Fewer

LEMMA WrongBounded ==
  ASSUME IInv, Answered, CountInv, [Next]_vars, NEW c \in Codes, NEW W, W = Wrong(c)'
  PROVE  Cardinality(W) <= AttemptsAllowed /\ Cardinality(W) \in Nat
<1>1. W \in SUBSET Requests
  BY DEF Wrong
<1>2. Cardinality(W) \in Nat
  BY <1>1, Fewer
<1>3. CASE \E r \in Requests : Decides(r) /\ Verdict(Base(r), req[r].code) = "invalid" /\ Base(r).code = c
  <2>1. PICK r \in Requests : Decides(r) /\ Verdict(Base(r), req[r].code) = "invalid" /\ Base(r).code = c
    BY <1>3
  <2>2. /\ Base(r).attempts \in Nat
        /\ Cardinality(W) <= Base(r).attempts + 1 /\ Base(r).attempts + 1 <= AttemptsAllowed
    BY <2>1, OneMoreWrong
  <2> QED
    BY <1>2, <2>2, PhoneVerificationAssumption
<1>4. CASE ~ \E r \in Requests : Decides(r) /\ Verdict(Base(r), req[r].code) = "invalid" /\ Base(r).code = c
  <2>1. Cardinality(W) <= Cardinality(Wrong(c)) /\ Cardinality(Wrong(c)) \in Nat
    BY <1>4, NoMoreWrong DEF CountInv
  <2>2. Cardinality(Wrong(c)) <= AttemptsAllowed
    BY DEF CountInv
  <2> QED
    BY <1>2, <2>1, <2>2, PhoneVerificationAssumption
<1> QED
  BY <1>3, <1>4

\* What the update of a request would leave of the count, after the step.
LEMMA CountedByUpdate ==
  ASSUME IInv, IInv', Answered, CountInv, Sequential, [Next]_vars, NEW r \in Requests, InFlight(r)',
         NEW u, u = req'[r].user, Latest(u)' # Absent
  PROVE  CountsAll(Apply(Latest(u), writes[r]))'
<1> DEFINE set == writes'[r].set
<1>1. u \in Users
  BY DEF IInv, TypeOK, HandlerTypeOK
<1>2. SUFFICES ASSUME NEW l, l = Latest(u)', NEW t, t = Apply(l, writes'[r]), t.code # None,
                      NEW W, W = Wrong(t.code)'
               PROVE  Cardinality(W) <= t.attempts
  BY DEF CountsAll, Wrong, Latest
<1>3. Shaped /\ Alone
  BY DEF CountInv
<1>4. l \in Signup /\ (l.code # None => l.code \in Codes /\ l.attempts \in Nat)
  BY <1>1, <1>2, LatestCodeNext
<1>5. /\ t.code = IF "code" \in DOMAIN set THEN set.code ELSE l.code
      /\ t.attempts = IF "attempts" \in DOMAIN set THEN set.attempts ELSE l.attempts
  <2>1. IsUpdate(writes'[r]) /\ {"code", "attempts"} \subseteq Annotations
    BY DEF IInv, TypeOK, Annotations, Numbers
  <2> QED
    BY <1>2, <1>4, <2>1, ApplyType
<1>attempts. t.attempts \in Nat
  <2>1. t \in Signup
    BY <1>2, <1>4, ApplyType DEF IInv, TypeOK
  <2>2. /\ "code" \in DOMAIN set /\ set.code # None => "attempts" \in DOMAIN set
        /\ "attempts" \in DOMAIN set /\ set.attempts = None => "code" \in DOMAIN set /\ set.code = None
    BY DEF IInv, UpdatesHold, UpdateOK
  <2> QED
    BY <1>2, <1>4, <1>5, <2>1, <2>2 DEF Signup, Opt
<1> HIDE DEF set
<1>6. CASE Begins(r)
  <2>1. \A q \in Requests : ~InFlight(q) \/ q = r
    BY <1>6, NewInFlight DEF Begins
  <2>2. \A q \in Requests : ~InFlight(q)
    BY <1>6, <2>1 DEF Begins
  <2>3. \A q \in Requests : ~Decides(q)
    BY <2>2 DEF Decides, InFlight
  <2>4. l = Latest(u) /\ Latest(u) # Absent /\ set = NoFields
    BY <1>2, <1>6 DEF Begins, Latest, set, NoChange
  <2>5. t.code = l.code /\ t.attempts = l.attempts
    BY <1>5, <2>4 DEF NoFields
  <2>6. Cardinality(W) <= Cardinality(Wrong(t.code)) /\ Cardinality(W) \in Nat
        /\ Cardinality(Wrong(t.code)) \in Nat
    BY <1>2, <1>3, <2>3, NoMoreWrong
  <2>7. Wrong(t.code) = Counted(t.code)
    BY <2>2 DEF Counted, Wrong
  <2>8. Cardinality(Counted(t.code)) <= t.attempts
    BY <1>1, <1>2, <2>4, <2>5 DEF CountInv, CountsAnswered
  <2> QED
    BY <1>2, <1>4, <2>5, <2>6, <2>7, <2>8
<1>7. CASE Sends(r)
  <2>1. /\ "code" \in DOMAIN set /\ "attempts" \in DOMAIN set
        /\ set.code \in Codes /\ sms[set.code] = None /\ set.attempts = 0
    BY <1>7 DEF Sends, Tracked, set
  <2>2. t.code = set.code /\ t.attempts = 0
    BY <1>5, <2>1
  <2>3. Wrong(t.code) = {}
    BY <1>2, <1>3, <2>1, <2>2, UnsentCode
  <2>4. \A q \in Requests : ~Decides(q)
    BY <1>3, <1>7 DEF Alone, Sends, Decides, InFlight
  <2>5. Cardinality(W) <= Cardinality(Wrong(t.code))
    BY <1>2, <1>3, <2>4, NoMoreWrong
  <2> QED
    BY <2>2, <2>3, <2>5, FS_EmptySet
<1>8. CASE Decides(r)
  <2> DEFINE s == Base(r)
             a == Verdict(s, req[r].code)
  <2>1. set = VerifyWrites(s, a).set /\ l = Latest(u) /\ u = req[r].user /\ Latest(u) # Absent
    BY <1>2, <1>8 DEF Decides, Latest, set, SameRequest
  <2>2. InFlight(r) /\ HandlerTypeOK(r) /\ s \in Signup
    BY <1>8, BaseType DEF Decides, InFlight, IInv
  <2>3. l.code = s.code /\ l.attempts = s.attempts /\ CountsAll(s)
    BY <1>8, <2>1 DEF CountInv, Decides
  <2>4. \A q \in Requests : Decides(q) => q = r
    BY <1>3, <1>8 DEF Alone, Decides, InFlight
  <2> HIDE DEF s
  <2>5. CASE a = "ok"
    <3>1. "code" \in DOMAIN Cleared /\ Cleared.code = None
      BY DEF Cleared
    <3> QED
      BY <1>2, <1>5, <2>1, <2>5, <3>1 DEF VerifyWrites
  <2>6. CASE a = "invalid"
    <3>1. set = [attempts |-> s.attempts + 1]
      BY <2>1, <2>6, AnswersDiffer DEF VerifyWrites, NoChange
    <3>2. t.code = s.code /\ t.attempts = s.attempts + 1
      BY <1>5, <2>3, <3>1
    <3>3. Cardinality(W) <= s.attempts + 1
      BY <1>2, <1>8, <2>6, <3>2, OneMoreWrong DEF s
    <3> QED
      BY <3>2, <3>3
  <2>7. CASE a \notin {"ok", "invalid"} /\ s.attempts = None
    <3>1. set = [attempts |-> AttemptsAllowed]
      BY <2>1, <2>7 DEF VerifyWrites, NoChange
    <3>2. t.code = l.code /\ t.attempts = AttemptsAllowed
      BY <1>5, <3>1
    <3> QED
      BY <1>2, <1>4, <3>2, WrongBounded
  <2>8. CASE a \notin {"ok", "invalid"} /\ s.attempts # None
    <3>1. set = NoFields
      BY <2>1, <2>8 DEF VerifyWrites, NoChange
    <3>2. t.code = s.code /\ t.attempts = s.attempts
      BY <1>5, <2>3, <3>1 DEF NoFields
    <3>3. \A q \in Requests : ~(Decides(q) /\ Verdict(Base(q), req[q].code) = "invalid")
      BY <2>4, <2>8 DEF s
    <3>4. Cardinality(W) <= Cardinality(Wrong(t.code)) /\ Cardinality(W) \in Nat
          /\ Cardinality(Wrong(t.code)) \in Nat
      BY <1>2, <1>3, <3>3, NoMoreWrong
    <3>5. Cardinality(Wrong(t.code)) <= t.attempts
      BY <1>2, <2>3, <3>2 DEF CountsAll
    <3> QED
      BY <1>2, <1>4, <2>3, <3>2, <3>4, <3>5
  <2> QED
    BY <2>5, <2>6, <2>7, <2>8
<1>9. CASE InFlight(r) /\ SameRequest(r) /\ SameTracked(writes[r].set, set) /\ ~Decides(r)
  <2>1. u = req[r].user /\ Latest(u) # Absent
    BY <1>1, <1>2, <1>9, LatestStep DEF SameRequest, IInv, Writes
  <2>2. Latest(u) \in Signup
    BY <1>1, <2>1, LatestCode
  <2> DEFINE b == Apply(Latest(u), writes[r])
  <2>3. /\ b.code = IF "code" \in DOMAIN writes[r].set THEN writes[r].set.code ELSE Latest(u).code
        /\ b.attempts = IF "attempts" \in DOMAIN writes[r].set THEN writes[r].set.attempts
                                                             ELSE Latest(u).attempts
    BY <2>2, RequestWrites
  <2>4. CountsAll(b)
    BY <1>9, <2>1 DEF CountInv
  <2> HIDE DEF b
  <2>5. \/ l.code = Latest(u).code /\ l.attempts = Latest(u).attempts
        \/ l.code = b.code /\ l.attempts = b.attempts
    <3>1. CASE Latest(u)' = Latest(u)
      BY <1>2, <3>1
    <3>2. CASE Writes(u) /\ Next
      BY <1>1, <1>2, <1>3, <1>9, <2>1, <3>2, CountWrites DEF b
    <3> QED
      BY <1>1, <1>2, <3>1, <3>2, LatestStep DEF IInv
  <2>6. t.code = b.code /\ t.attempts = b.attempts
    BY <1>5, <1>9, <2>3, <2>5 DEF SameTracked, Tracked
  <2>7. \A q \in Requests : ~Decides(q)
    BY <1>3, <1>9 DEF Alone, Decides, InFlight
  <2>8. Cardinality(W) <= Cardinality(Wrong(t.code)) /\ Cardinality(W) \in Nat
        /\ Cardinality(Wrong(t.code)) \in Nat
    BY <1>2, <1>3, <2>7, NoMoreWrong
  <2>9. Cardinality(Wrong(t.code)) <= t.attempts
    BY <1>2, <2>4, <2>6 DEF CountsAll
  <2> QED
    BY <1>attempts, <2>8, <2>9
<1> QED
  BY <1>3, <1>6, <1>7, <1>8, <1>9, EffectStep DEF Effect, Ends, Continues, SameRequest, InFlight, SameTracked, set

\* What a decision is about to be made on is still the latest version, for the code and its attempts.
LEMMA CountedByDecision ==
  ASSUME IInv, IInv', Answered, CountInv, CachesFresh', Sequential, [Next]_vars,
         NEW r \in Requests, req'[r].pc = "decide", NEW u, u = req'[r].user
  PROVE  /\ CountsAll(Base(r))'
         /\ Latest(u)' # Absent => /\ Latest(u)'.code = Base(r)'.code
                                  /\ Latest(u)'.attempts = Base(r)'.attempts
<1>1. Shaped /\ Alone /\ CachesFresh
  BY DEF CountInv
<1>2. InFlight(r)' /\ u \in Users /\ Base(r)' \in Signup /\ writes'[r] = NoChange
  <2>1. InFlight(r)'
    BY DEF InFlight
  <2>2. HandlerTypeOK(r)'
    BY <2>1 DEF IInv, TypeOK
  <2>3. Shape(r)'
    BY <1>1, ShapeStep DEF Shaped
  <2> QED
    BY <2>1, <2>2, <2>3 DEF HandlerTypeOK, Base, IInv, TypeOK, StoreTypeOK, Shape
<1>3. CASE Begins(r)
  <2>1. Base(r)' = Latest(u)'
    BY <1>2, <1>3 DEF Begins, Base, Latest, CountInv, CachesFresh
  <2>2. Base(r)' # Absent
    BY <1>2 DEF InFlight, IInv, TypeOK, HandlerTypeOK
  <2>3. CountsAll(Apply(Latest(u), writes[r]))'
    BY <1>2, <2>1, <2>2, CountedByUpdate
  <2>4. ASSUME NEW l \in Signup, NEW t, t = Apply(l, NoChange)
        PROVE  t.code = l.code /\ t.attempts = l.attempts
    BY <2>4 DEF Apply, With, NoChange, NoFields, Signup
  <2>5. CountsAll(Base(r))'
    <3> SUFFICES ASSUME NEW l, l = Base(r)', NEW t, t = Apply(l, NoChange),
                        NEW W, W = Wrong(l.code)', NEW X, X = Wrong(t.code)',
                        l.code # None,
                        t.code # None => Cardinality(X) <= t.attempts
                 PROVE  Cardinality(W) <= l.attempts
      BY <1>2, <2>1, <2>3 DEF CountsAll, Wrong, Base, Latest
    <3>1. t.code = l.code /\ t.attempts = l.attempts
      BY <1>2, <2>4
    <3>2. X = W
      BY <3>1 DEF Wrong
    <3> QED
      BY <3>1, <3>2
  <2> QED
    BY <2>1, <2>5
<1>4. CASE req'[r] = req[r] /\ writes'[r] = writes[r]
  <2>1. /\ req[r].pc = "decide" /\ InFlight(r) /\ SameRequest(r) /\ req[r].user = u
        /\ HandlerTypeOK(r)
    BY <1>2, <1>4 DEF InFlight, SameRequest, IInv, TypeOK
  <2>2. Base(r)' = Base(r)
    BY <2>1, StepGrows, PhoneOfStable DEF Grows, HandlerTypeOK, IInv
  <2>3. \A q \in Requests : ~Decides(q)
    BY <1>1, <1>4, <2>1 DEF Alone, Decides, InFlight
  <2>4. CountsAll(Base(r))'
    <3> SUFFICES ASSUME NEW s, s = Base(r), s.code # None, NEW W, W = Wrong(s.code)'
                 PROVE  Cardinality(W) <= s.attempts
      BY <2>2 DEF CountsAll, Wrong
    <3>1. Cardinality(W) <= Cardinality(Wrong(s.code)) /\ Cardinality(W) \in Nat
          /\ Cardinality(Wrong(s.code)) \in Nat
      BY <1>1, <2>3, NoMoreWrong
    <3>2. Cardinality(Wrong(s.code)) <= s.attempts
      BY <2>1 DEF CountInv, CountsAll
    <3>3. s \in Signup /\ s.attempts \in Nat
      <4>1. s \in Signup
        BY <2>1, BaseType DEF IInv
      <4>0. req[r].base \in DOMAIN log[req[r].user]
        BY <2>1 DEF HandlerTypeOK, IInv, TypeOK, StoreTypeOK
      <4>2. s \in Versions(req[r].user)
        BY <2>1, <4>0, <4>1 DEF HandlerTypeOK, Versions, Base
      <4>3. s.attempts # None
        BY <2>1, <4>2 DEF IInv, CodeComplete, HandlerTypeOK
      <4> QED
        BY <4>1, <4>3 DEF Signup, Opt
    <3> QED
      BY <3>1, <3>2, <3>3
  <2>5. ASSUME Latest(u)' # Absent
        PROVE  Latest(u)'.code = Base(r)'.code /\ Latest(u)'.attempts = Base(r)'.attempts
    <3>1. ASSUME Latest(u) # Absent
          PROVE  Latest(u).code = Base(r).code /\ Latest(u).attempts = Base(r).attempts
      BY <2>1, <3>1 DEF CountInv
    <3>2. CASE Latest(u)' = Latest(u)
      BY <2>2, <2>5, <3>1, <3>2
    <3>3. CASE Writes(u) /\ Next
      <4>1. Latest(u)'.code = Latest(u).code /\ Latest(u)'.attempts = Latest(u).attempts
        BY <1>1, <1>2, <2>1, <3>3, CountWrites
      <4> QED
        BY <2>2, <3>1, <3>3, <4>1 DEF Writes
    <3> QED
      BY <1>2, <2>5, <3>2, <3>3, LatestStep DEF IInv
  <2> QED
    BY <2>4, <2>5
<1> QED
  BY <1>1, <1>3, <1>4, EffectStep DEF Effect, Ends, Continues, Sends, Decides, InFlight

LEMMA CountStep ==
  ASSUME IInv, IInv', Answered, CountInv, Sequential, [Next]_vars
  PROVE  CountInv'
<1>1. CachesFresh' /\ Alone' /\ Shaped'
  BY FreshStep, AloneStep, ShapeStep DEF CountInv, IInv
<1>2. \A c \in Codes : Cardinality(Wrong(c)') <= AttemptsAllowed
  BY WrongBounded
<1>3. \A u \in Users : Latest(u)' # Absent => CountsAnswered(Latest(u))'
  BY CountedByLatest
<1>4. ASSUME NEW r \in Requests, InFlight(r)', NEW u, u = req'[r].user, Latest(u)' # Absent
      PROVE  CountsAll(Apply(Latest(u), writes[r]))'
  BY <1>4, CountedByUpdate
<1>5. ASSUME NEW r \in Requests, req'[r].pc = "decide", NEW u, u = req'[r].user
      PROVE  /\ CountsAll(Base(r))'
             /\ Latest(u)' # Absent => /\ Latest(u)'.code = Base(r)'.code
                                      /\ Latest(u)'.attempts = Base(r)'.attempts
  BY <1>1, <1>5, CountedByDecision
<1>6. \A r \in Requests : InFlight(r)' /\ Latest(req[r].user)' # Absent =>
        CountsAll(Apply(Latest(req[r].user), writes[r]))'
  BY <1>4 DEF Latest, CountsAll, Wrong
<1>7. \A r \in Requests : req'[r].pc = "decide" =>
        /\ CountsAll(Base(r))'
        /\ Latest(req[r].user)' # Absent => /\ Latest(req[r].user)'.code = Base(r)'.code
                                           /\ Latest(req[r].user)'.attempts = Base(r)'.attempts
  BY <1>5 DEF Latest
<1> QED
  BY <1>1, <1>2, <1>3, <1>6, <1>7 DEF CountInv

LEMMA CountInit == Init => CountInv
<1> SUFFICES ASSUME Init
             PROVE  CountInv
  OBVIOUS
<1>1. CachesFresh /\ Alone /\ Shaped
  BY SettledInit DEF SettledInv
<1>2. \A r \in Requests : req[r] = Idle /\ ~InFlight(r)
  BY DEF Init, InFlight, Idle
<1>3. \A c : Wrong(c) = {}
  BY <1>2, InvalidIsAnAnswer DEF Wrong, Idle
<1>4. Cardinality({}) = 0
  BY FS_EmptySet
<1>5. \A c \in Codes : Cardinality(Wrong(c)) <= AttemptsAllowed
  BY <1>3, <1>4, PhoneVerificationAssumption
<1>6. ASSUME NEW u \in Users
      PROVE  Latest(u).code = None
  <2>1. PICK score \in Scores, activated \in Counters : log[u] = <<Fresh(score, activated)>>
    BY DEF Init
  <2> QED
    BY <2>1 DEF Latest, Fresh
<1>7. \A r \in Requests : req[r].pc = "idle"
  BY <1>2 DEF Idle
<1> QED
  BY <1>1, <1>2, <1>5, <1>6, <1>7 DEF CountInv, CountsAnswered

\* With requests handled one at a time, on caches that do not lag, no code is compared with more
\* wrong ones than AttemptsAllowed: whatever fails, crashes or is written by others, and however
\* often the user asks for another code (verification_service.go:366).
THEOREM AttemptsAlwaysPerCode ==
  ASSUME Sequential
  PROVE  Spec => []AttemptsPerCode
<1>1. Init => CountInv
  BY CountInit
<1>2. IInv /\ IInv' /\ Answered /\ CountInv /\ [Next]_vars => CountInv'
  BY CountStep
<1>3. CountInv => AttemptsPerCode
  BY DEF CountInv, AttemptsPerCode, Wrong
<1> QED
  BY <1>1, <1>2, <1>3, AnsweredHolds, PTL DEF Spec

-----------------------------------------------------------------------------
(* Messages are counted.                                                   *)

\* No write is lost, which would leave a message uncounted; and who writes at the same time leaves
\* a UserSignup that is to be verified alone, so that no update runs out of tries.
Unhindered ==
  /\ Sequential /\ ~WriteErrors /\ ~Crashes
  /\ External \subseteq {"ban", "banUser", "approve", "deactivate"}

\* The messages sent to u, and those of them sent at t or later.
Messages(u) == {c \in Codes : sms[c] # None /\ sms[c].user = u}

SentSince(u, t) == {c \in Messages(u) : sms[c].at >= t}

\* The counter n and the timestamp t are about the messages sent to u: all of them went out in
\* the window that t began, or before it.
Tallies(u, n, t) ==
  IF t = None THEN n = 0 /\ Messages(u) = {}
  ELSE /\ t <= now
       /\ n = Cardinality(SentSince(u, t))
       /\ \A c \in Messages(u) : sms[c].at <= t + Window

\* A UserSignup loses its counter only when it is verified, and keeps it until then.
Match(u, s) ==
  IF s.counter = None THEN "verification-required" \notin s.states
                      ELSE Tallies(u, s.counter, s.initAt)

\* The message of r may have gone out, and is not counted yet.
Owes(r) == req[r].kind = "init" /\ req[r].pc \in {"get", "put"}

\* Between the check of the limit and the message: a new window has begun and nothing was sent
\* in it, or the one of the snapshot goes on.
Timely(r) ==
  LET set == writes[r].set IN
    /\ "counter" \in DOMAIN set <=> "initAt" \in DOMAIN set
    /\ IF "initAt" \in DOMAIN set
       THEN /\ set.initAt = req[r].clock /\ set.counter = 0
            /\ \A c \in Messages(req[r].user) : sms[c].at < req[r].clock
       ELSE /\ Base(r).initAt # None
            /\ Base(r).initAt <= req[r].clock /\ req[r].clock <= Base(r).initAt + Window

\* What a handler has decided to write keeps the counter right, of the version that is the latest
\* now; and nobody else writes while an InitVerification is under way.
Tallied(r) ==
  LET u == req[r].user IN
    /\ req[r].pc \in {"get", "put"} => Match(u, Apply(Latest(u), writes[r]))
    /\ req[r].pc \in {"lookup", "send"} => Timely(r) /\ req[r].clock <= now
    /\ InFlight(r) /\ req[r].kind = "init" =>
         /\ Base(r) = Latest(u)
         /\ req[r].pc = "put" => req[r].copy = Len(log[u])

TallyInv ==
  /\ SettledInv
  /\ \A u \in Users :
       /\ IsFiniteSet(Messages(u))
       /\ Latest(u) # Absent
       /\ Latest(u).approval = "approved" => "verification-required" \notin Latest(u).states
       /\ Match(u, Latest(u)) \/ \E r \in Requests : Owes(r) /\ req[r].user = u
  /\ \A r \in Requests : Tallied(r)

LEMMA MatchSame ==
  ASSUME NEW u, NEW s, NEW t, Match(u, s), t.counter = s.counter, t.initAt = s.initAt,
         "verification-required" \in t.states => "verification-required" \in s.states
  PROVE  Match(u, t)
BY DEF Match

\* It stays right while no message goes out.
LEMMA MatchStays ==
  ASSUME NEW u, NEW s, NEW t, Match(u, s), t.counter = s.counter, t.initAt = s.initAt,
         "verification-required" \in t.states => "verification-required" \in s.states,
         s.initAt \in Opt(Nat), now \in Nat, now' \in Nat, now <= now',
         \A c \in Codes : sms'[c] = sms[c]
  PROVE  Match(u, t)'
<1>1. Messages(u)' = Messages(u)
  BY DEF Messages
<1>2. \A x : SentSince(u, x)' = SentSince(u, x)
  BY <1>1 DEF SentSince, Messages
<1>3. s.initAt # None => s.initAt \in Nat
  BY DEF Opt
<1>4. Messages(u) \subseteq Codes
  BY DEF Messages
<1> QED
  BY <1>1, <1>2, <1>3, <1>4 DEF Match, Tallies

\* The counter and the timestamp of a version an update has been applied to.
LEMMA AppliedCounter ==
  ASSUME NEW s \in Signup, NEW w, IsUpdate(w), NEW t, t = Apply(s, w)
  PROVE  /\ t \in Signup /\ t.approval = s.approval
         /\ t.states = (s.states \cup w.add) \ w.del
         /\ t.counter = IF "counter" \in DOMAIN w.set THEN w.set.counter ELSE s.counter
         /\ t.initAt = IF "initAt" \in DOMAIN w.set THEN w.set.initAt ELSE s.initAt
<1>1. {"counter", "initAt"} \subseteq Annotations
  BY DEF Annotations, Numbers
<1> QED
  BY <1>1, ApplyType

LEMMA NumbersAreNotNone == \A n \in Nat : n # None
BY HostStoreAssumption

\* No message of a window that begins at k.
LEMMA NoneSince ==
  ASSUME NEW u, NEW k \in Nat, \A c \in Messages(u) : sms[c].at \in Nat /\ sms[c].at < k
  PROVE  Cardinality(SentSince(u, k)) = 0
<1>1. SentSince(u, k) = {}
  BY DEF SentSince
<1> QED
  BY <1>1, FS_EmptySet

\* Who is to be verified has a counter, and it is right when a handler decides.
LEMMA TallyFacts ==
  ASSUME IInv, TallyInv, NEW r \in Requests, InFlight(r), req[r].kind = "init", NEW u, u = req[r].user
  PROVE  /\ u \in Users /\ Base(r) = Latest(u) /\ Latest(u) \in Signup
         /\ "verification-required" \in Latest(u).states
         /\ ~Owes(r) => Match(u, Latest(u)) /\ Latest(u).counter # None
<1>1. HandlerTypeOK(r) /\ StoreTypeOK
  BY DEF IInv, TypeOK
<1>2. u \in Users /\ Base(r) = Latest(u) /\ Base(r) # Absent
  BY <1>1 DEF HandlerTypeOK, TallyInv, Tallied
<1>3. Latest(u) \in Signup /\ "verification-required" \in Latest(u).states
  BY <1>1, <1>2, LatestType DEF TallyInv, SettledInv, Unverified
<1>4. ASSUME ~Owes(r)
      PROVE  Match(u, Latest(u))
  <2>1. \A q \in Requests : Owes(q) => q = r
    BY DEF Owes, InFlight, TallyInv, SettledInv, Alone
  <2> QED
    BY <1>2, <1>4, <2>1 DEF TallyInv
<1> QED
  BY <1>2, <1>3, <1>4 DEF Match

\* The window a handler decides in.
LEMMA WindowDecided ==
  ASSUME NEW u, NEW s \in Signup, Match(u, s), s.counter # None, now \in Nat,
         \A c \in Messages(u) : sms[c].at \in Nat
  PROVE  IF WindowOver(s) THEN \A c \in Messages(u) : sms[c].at < now
                          ELSE s.initAt \in Nat /\ s.initAt <= now /\ now <= s.initAt + Window
<1>1. Tallies(u, s.counter, s.initAt)
  BY DEF Match
<1>2. s.initAt = None \/ s.initAt \in Nat
  BY DEF Signup, Opt
<1>3. Window \in Nat
  BY PhoneVerificationAssumption
<1> QED
  BY <1>1, <1>2, <1>3 DEF Tallies, WindowOver

\* Whatever else is decided without a message: the counter and the timestamp agree.
LEMMA PendingMatch ==
  ASSUME NEW u, NEW s \in Signup, Match(u, s), s.counter # None, "verification-required" \in s.states,
         NEW w, IsUpdate(w), NEW k \in Nat, now \in Nat, k <= now,
         \A c \in Messages(u) : sms[c].at \in Nat,
         "counter" \in DOMAIN w.set <=> "initAt" \in DOMAIN w.set,
         "initAt" \in DOMAIN w.set => /\ w.set.initAt = k /\ w.set.counter = 0
                                     /\ \A c \in Messages(u) : sms[c].at < k
  PROVE  Match(u, Apply(s, w))
<1> DEFINE t == Apply(s, w)
<1>1. /\ t.counter = IF "counter" \in DOMAIN w.set THEN w.set.counter ELSE s.counter
      /\ t.initAt = IF "initAt" \in DOMAIN w.set THEN w.set.initAt ELSE s.initAt
  BY AppliedCounter
<1> HIDE DEF t
<1>2. ASSUME "initAt" \in DOMAIN w.set
      PROVE  Match(u, t)
  <2>1. t.counter = 0 /\ t.initAt = k /\ k # None /\ t.counter # None
    BY <1>1, <1>2, NumbersAreNotNone
  <2>2. Cardinality(SentSince(u, k)) = 0
    BY <1>2, NoneSince
  <2>3. \A c \in Messages(u) : sms[c].at <= k + Window
    BY <1>2, PhoneVerificationAssumption
  <2> QED
    BY <2>1, <2>2, <2>3 DEF Match, Tallies
<1>3. ASSUME "initAt" \notin DOMAIN w.set
      PROVE  Match(u, t)
  BY <1>1, <1>3, MatchSame
<1> QED
  BY <1>2, <1>3 DEF t

LEMMA MessageTimes ==
  ASSUME IInv, NEW u, NEW c \in Messages(u)
  PROVE  c \in Codes /\ sms[c] \in Message /\ sms[c].at \in Nat /\ sms[c].user = u
BY DEF IInv, TypeOK, Messages, Opt, Message

LEMMA LatestIsSignup ==
  ASSUME IInv, TallyInv, NEW u \in Users
  PROVE  Latest(u) \in Signup /\ Latest(u) # Absent /\ Latest(u).initAt \in Opt(Nat)
<1>1. Latest(u) \in Signup /\ Latest(u) # Absent
  BY LatestType DEF IInv, TypeOK, TallyInv
<1> QED
  BY <1>1 DEF Signup

\* A request that takes no step, while no message goes out and its UserSignup keeps its counter,
\* its timestamp and verification-required.
LEMMA SameTallied ==
  ASSUME IInv, TallyInv, UNCHANGED sms, now' \in Nat, now <= now', NEW r \in Requests,
         req'[r] = req[r], writes'[r] = writes[r], NEW u, u = req[r].user,
         InFlight(r) =>
           \/ log'[u] = log[u]
           \/ /\ req[r].kind # "init"
              /\ \E t \in Signup :
                   /\ log'[u] = Append(log[u], t)
                   /\ t.counter = Latest(u).counter /\ t.initAt = Latest(u).initAt
                   /\ t.states \cap {"verification-required"}
                        = Latest(u).states \cap {"verification-required"}
  PROVE  Tallied(r)'
<1>1. ASSUME InFlight(r)
      PROVE  HandlerTypeOK(r) /\ u \in Users /\ IsUpdate(writes[r]) /\ log[u] \in Seq(Signup \cup {Absent})
  BY <1>1 DEF IInv, TypeOK, StoreTypeOK, HandlerTypeOK
<1>2. ASSUME req[r].pc \in {"get", "put"}
      PROVE  Match(u, Apply(Latest(u), writes[r]))'
  <2>1. InFlight(r) /\ now \in Nat /\ \A c \in Codes : sms'[c] = sms[c]
    BY <1>2 DEF InFlight, IInv, TypeOK, StoreTypeOK
  <2>2. PICK l \in Signup : /\ Latest(u)' = l
                            /\ l.counter = Latest(u).counter /\ l.initAt = Latest(u).initAt
                            /\ l.states \cap {"verification-required"}
                                 = Latest(u).states \cap {"verification-required"}
    <3>1. CASE log'[u] = log[u]
      BY <1>1, <2>1, <3>1, LatestIsSignup DEF Latest
    <3>2. CASE log'[u] # log[u]
      <4>1. PICK t \in Signup : /\ log'[u] = Append(log[u], t)
                                /\ t.counter = Latest(u).counter /\ t.initAt = Latest(u).initAt
                                /\ t.states \cap {"verification-required"}
                                     = Latest(u).states \cap {"verification-required"}
        BY <2>1, <3>2
      <4>2. Latest(u)' = t
        <5>1. ASSUME NEW S, NEW f \in Seq(S), NEW x
              PROVE  Append(f, x)[Len(Append(f, x))] = x
          OBVIOUS
        <5>2. log[u] \in Seq(Signup \cup {Absent})
          BY <1>1, <2>1
        <5> QED
          BY <4>1, <5>1, <5>2 DEF Latest
      <4> QED
        BY <4>1, <4>2
    <3> QED
      BY <3>1, <3>2
  <2>3. ASSUME NEW s, s = Apply(Latest(u), writes[r]), NEW t, t = Apply(l, writes[r])
        PROVE  Match(u, t)'
    <3>1. /\ s \in Signup
          /\ s.states = (Latest(u).states \cup writes[r].add) \ writes[r].del
          /\ s.counter = IF "counter" \in DOMAIN writes[r].set THEN writes[r].set.counter ELSE Latest(u).counter
          /\ s.initAt = IF "initAt" \in DOMAIN writes[r].set THEN writes[r].set.initAt ELSE Latest(u).initAt
      BY <1>1, <2>1, <2>3, LatestIsSignup, AppliedCounter
    <3>2. /\ t.states = (l.states \cup writes[r].add) \ writes[r].del
          /\ t.counter = IF "counter" \in DOMAIN writes[r].set THEN writes[r].set.counter ELSE l.counter
          /\ t.initAt = IF "initAt" \in DOMAIN writes[r].set THEN writes[r].set.initAt ELSE l.initAt
      BY <1>1, <2>1, <2>3, AppliedCounter
    <3>3. s.initAt \in Opt(Nat)
      BY <3>1 DEF Signup
    <3>4. /\ t.counter = s.counter /\ t.initAt = s.initAt
          /\ "verification-required" \in t.states => "verification-required" \in s.states
      BY <2>2, <3>1, <3>2
    <3>5. Match(u, s)
      BY <1>2, <2>3 DEF TallyInv, Tallied
    <3> QED
      BY <2>1, <3>3, <3>4, <3>5, MatchStays
  <2>4. ASSUME NEW t, t = Apply(l, writes[r])
        PROVE  Match(u, Apply(Latest(u), writes[r]))'
    <3>1. Match(u, t)'
      BY <2>3, <2>4
    <3>2. t = Apply(Latest(u)', writes'[r])
      BY <2>2, <2>4
    <3> QED
      BY <3>1, <3>2 DEF Match, Tallies, SentSince, Messages
  <2> QED
    BY <2>4
<1>3. ASSUME req[r].pc \in {"lookup", "send"}
      PROVE  Timely(r)' /\ req'[r].clock <= now'
  <2>1. InFlight(r) /\ Base(r)' = Base(r) /\ Messages(u)' = Messages(u)
    BY <1>1, <1>3 DEF Messages, Base, InFlight, HandlerTypeOK
  <2>2. Timely(r) /\ req[r].clock <= now /\ req[r].clock \in Nat /\ now \in Nat
    BY <1>3 DEF TallyInv, Tallied, IInv, TypeOK, StoreTypeOK, Request
  <2> QED
    BY <2>1, <2>2 DEF Timely
<1>4. ASSUME InFlight(r), req[r].kind = "init"
      PROVE  /\ Base(r)' = Latest(u)'
             /\ req'[r].pc = "put" => req'[r].copy = Len(log'[u])
  BY <1>4 DEF TallyInv, Tallied, Base, Latest
<1>5. InFlight(r)' <=> InFlight(r)
  BY DEF InFlight
<1> QED
  BY <1>2, <1>3, <1>4, <1>5 DEF Tallied, Latest

\* No version and no message: only the requests count.
LEMMA TallyStill ==
  ASSUME IInv, TallyInv, SettledInv', UNCHANGED <<log, sms>>, now' \in Nat, now <= now',
         \A r \in Requests : Tallied(r)',
         \A r \in Requests : Owes(r) => Owes(r)' /\ req'[r].user = req[r].user
  PROVE  TallyInv'
<1>1. ASSUME NEW u \in Users
      PROVE  /\ IsFiniteSet(Messages(u))'
             /\ (Latest(u) # Absent)'
             /\ (Latest(u).approval = "approved" => "verification-required" \notin Latest(u).states)'
             /\ (Match(u, Latest(u)) \/ \E r \in Requests : Owes(r) /\ req[r].user = u)'
  <2>1. Latest(u)' = Latest(u) /\ Messages(u)' = Messages(u)
    BY DEF Latest, Messages
  <2>2. ASSUME Match(u, Latest(u)), NEW l, l = Latest(u)
        PROVE  Match(u, Latest(u))'
    <3>1. Match(u, l)'
      BY <2>2, MatchStays, LatestIsSignup DEF IInv, TypeOK, StoreTypeOK
    <3> QED
      BY <2>1, <2>2, <3>1 DEF Match, Tallies, SentSince, Messages
  <2> QED
    BY <2>1, <2>2 DEF TallyInv
<1> QED
  BY <1>1 DEF TallyInv

\* A step of one request that neither writes nor sends.
LEMMA RequestTallied ==
  ASSUME IInv, TallyInv, SettledInv', UNCHANGED <<storeVars, sms>>, NEW r \in Requests,
         \A q \in Requests \ {r} : req'[q] = req[q] /\ writes'[q] = writes[q],
         Tallied(r)',
         Owes(r) => Owes(r)' /\ req'[r].user = req[r].user
  PROVE  TallyInv'
<1>1. now \in Nat /\ now' = now /\ UNCHANGED log
  BY DEF IInv, TypeOK, StoreTypeOK, storeVars
<1>2. \A q \in Requests \ {r} : Tallied(q)'
  BY <1>1, SameTallied
<1>3. \A q \in Requests : Owes(q) => Owes(q)' /\ req'[q].user = req[q].user
  BY DEF Owes
<1> QED
  BY <1>1, <1>2, <1>3, TallyStill

LEMMA StartTallied ==
  ASSUME Sequential, IInv, TallyInv, SettledInv', NEW r \in Requests, NEW p \in Replicas, NEW u \in Users,
         NEW kind, NEW ph, NEW c, NEW pc, NEW a,
         MayStart(r), Start(r, kind, p, u, ph, c, pc, a), pc \in {"checkPhone", "decide", "done"},
         UNCHANGED <<storeVars, writes, sms>>
  PROVE  TallyInv'
<1>1. req'[r] = [Idle EXCEPT !.pc = pc, !.kind = kind, !.at = p, !.user = u,
                             !.phone = ph, !.code = c, !.base = seen[p][u], !.answer = a]
  BY DEF Start, IInv, TypeOK
<1>2. req'[r].pc = pc /\ req'[r].user = u /\ req'[r].base = seen[p][u]
  BY <1>1 DEF Idle
<1>3. \A q \in Requests \ {r} : req'[q] = req[q] /\ writes'[q] = writes[q]
  BY DEF Start, IInv, TypeOK
<1>4. Base(r)' = Latest(u)'
  BY <1>2 DEF Base, Latest, TallyInv, SettledInv, CachesFresh, storeVars
<1>5. Tallied(r)'
  BY <1>2, <1>4 DEF Tallied, Latest
<1>6. ~Owes(r)
  BY DEF MayStart, Owes
<1> QED
  BY <1>3, <1>5, <1>6, RequestTallied

\* How a request is answered without having written.
LEMMA AnswerTallied ==
  ASSUME IInv, TallyInv, SettledInv', NEW r \in Requests, InFlight(r), ~Owes(r), NEW a \in Answers,
         Answer(r, a), UNCHANGED <<storeVars, sms>>
  PROVE  TallyInv'
<1>1. req'[r] = Done(r, a) /\ \A q \in Requests \ {r} : req'[q] = req[q] /\ writes'[q] = writes[q]
  BY DEF Answer, IInv, TypeOK
<1>2. req'[r].pc = "done"
  BY <1>1, DoneRequest DEF IInv
<1>3. Tallied(r)'
  BY <1>2 DEF Tallied, InFlight
<1> QED
  BY <1>1, <1>3, RequestTallied

\* What r has decided to write, when nothing else changes.
LEMMA MatchKept ==
  ASSUME NEW r \in Requests, UNCHANGED <<log, sms, now>>, req'[r].user = req[r].user,
         NEW t, t = Apply(Latest(req[r].user), writes'[r]), Match(req[r].user, t)
  PROVE  Match(req[r].user, Apply(Latest(req[r].user), writes[r]))'
<1>1. t = Apply(Latest(req[r].user), writes[r])'
  BY DEF Latest
<1>2. \A u : Messages(u)' = Messages(u)
  BY DEF Messages
<1>3. \A u, x : SentSince(u, x)' = SentSince(u, x)
  BY <1>2 DEF SentSince
<1> QED
  BY <1>1, <1>2, <1>3 DEF Match, Tallies

\* How a request goes on to its update.
LEMMA DecidedTallied ==
  ASSUME IInv, TallyInv, SettledInv', NEW r \in Requests, InFlight(r), ~Owes(r),
         NEW u, u = req[r].user, UNCHANGED <<storeVars, sms>>,
         SameRequest(r), req'[r].pc = "get", NEW w, writes'[r] = w,
         \A q \in Requests \ {r} : req'[q] = req[q] /\ writes'[q] = writes[q],
         Match(u, Apply(Latest(u), w))
  PROVE  TallyInv'
<1>1. log' = log /\ sms' = sms /\ now' = now /\ req'[r].user = u
  BY DEF storeVars, SameRequest
<1>2. Match(req[r].user, Apply(Latest(req[r].user), writes[r]))'
  <2>1. ASSUME NEW t, t = Apply(Latest(req[r].user), writes'[r])
        PROVE  Match(req[r].user, Apply(Latest(req[r].user), writes[r]))'
    BY <1>1, <2>1, MatchKept
  <2> QED
    BY <2>1
<1>3. req'[r].kind = "init" => Base(r)' = Latest(req[r].user)'
  BY <1>1 DEF Base, Latest, SameRequest, TallyInv, Tallied
<1>4. Tallied(r)'
  BY <1>2, <1>3 DEF Tallied
<1> QED
  BY <1>4, RequestTallied

LEMMA InitCheckPhoneTallied ==
  ASSUME IInv, Answered, TallyInv, SettledInv', NEW r \in Requests, InitCheckPhone(r)
  PROVE  TallyInv'
<1> DEFINE set == With([phone |-> req[r].phone], Reset(Base(r)))
           w == [NoChange EXCEPT !.set = set]
<1>1. /\ InFlight(r) /\ ~Owes(r) /\ HandlerTypeOK(r) /\ req[r] \in Request
      /\ req[r].kind = "init" /\ UNCHANGED <<storeVars, sms>> /\ now \in Nat
  BY BaseType DEF InitCheckPhone, InFlight, HandlerTypeOK, IInv, TypeOK, Owes, StoreTypeOK
<1>2. IsUpdate(w)
  BY <1>1, ResetIsUpdate, BaseType DEF HandlerTypeOK, IInv
<1>3. ASSUME NEW u, u = req[r].user
      PROVE  /\ u \in Users /\ Base(r) = Latest(u) /\ Latest(u) \in Signup
             /\ Match(u, Latest(u)) /\ Latest(u).counter # None
             /\ "verification-required" \in Latest(u).states
  BY <1>1, <1>3, TallyFacts
<1>4. /\ "counter" \in DOMAIN w.set <=> WindowOver(Base(r))
      /\ "initAt" \in DOMAIN w.set <=> WindowOver(Base(r))
      /\ WindowOver(Base(r)) => w.set.initAt = now /\ w.set.counter = 0
  BY DEF NoChange, With, Reset, NoFields
<1>5. IF WindowOver(Base(r))
      THEN \A c \in Messages(req[r].user) : sms[c].at < now
      ELSE Base(r).initAt \in Nat /\ Base(r).initAt <= now /\ now <= Base(r).initAt + Window
  BY <1>1, <1>3, WindowDecided, MessageTimes
<1> HIDE DEF set, w
<1>6. CASE Answer(r, "phoneInUse")
  BY <1>1, <1>6, AnswerTallied DEF Answers
<1>7. CASE Update(r, w, "limit")
  <2>1. /\ req'[r].pc = "get" /\ SameRequest(r) /\ writes'[r] = w
        /\ \A q \in Requests \ {r} : req'[q] = req[q] /\ writes'[q] = writes[q]
    BY <1>1, <1>2, <1>7, UpdateType DEF Answers, IInv, Update, TypeOK
  <2>2. Match(req[r].user, Apply(Latest(req[r].user), w))
    BY <1>1, <1>2, <1>3, <1>4, <1>5, PendingMatch, MessageTimes
  <2> QED
    BY <1>1, <2>1, <2>2, DecidedTallied
<1>8. CASE /\ req' = [req EXCEPT ![r].pc = IF LookupApplies(r) THEN "lookup" ELSE "send",
                                 ![r].clock = now]
           /\ writes' = [writes EXCEPT ![r] = w]
  <2> DEFINE pc == IF LookupApplies(r) THEN "lookup" ELSE "send"
  <2>1. /\ req'[r] = [req[r] EXCEPT !.pc = pc, !.clock = now]
        /\ writes'[r] = w
        /\ \A q \in Requests \ {r} : req'[q] = req[q] /\ writes'[q] = writes[q]
    BY <1>8 DEF IInv, TypeOK
  <2>2. pc \in {"lookup", "send"}
    OBVIOUS
  <2> HIDE DEF pc
  <2>3. req'[r].pc = pc /\ req'[r].clock = now /\ SameRequest(r)
    BY <1>1, <2>1 DEF Request, SameRequest
  <2>4. Base(r)' = Base(r) /\ now' = now /\ log' = log /\ Messages(req[r].user)' = Messages(req[r].user)
    BY <1>1, <2>3 DEF Base, SameRequest, storeVars, Messages
  <2>5. Timely(r)'
    BY <1>1, <1>4, <1>5, <2>1, <2>3, <2>4, NumbersAreNotNone DEF Timely, SameRequest
  <2>6. Tallied(r)'
    BY <1>1, <1>3, <2>2, <2>3, <2>4, <2>5 DEF Tallied, SameRequest, Latest
  <2> QED
    BY <1>1, <2>1, <2>6, RequestTallied
<1> QED
  BY <1>6, <1>7, <1>8 DEF InitCheckPhone, set, w

SameWindow(f, g) ==
  \A k \in {"counter", "initAt"} : (k \in DOMAIN f <=> k \in DOMAIN g) /\ (k \in DOMAIN f => f[k] = g[k])

\* An update that is decided on without a message after the limit was checked.
LEMMA TimelyMatch ==
  ASSUME IInv, TallyInv, NEW r \in Requests, req[r].pc \in {"lookup", "send"}, NEW u, u = req[r].user,
         NEW w, IsUpdate(w), SameWindow(writes[r].set, w.set)
  PROVE  Match(u, Apply(Latest(u), w))
<1>1. /\ InFlight(r) /\ req[r].kind = "init" /\ ~Owes(r)
      /\ now \in Nat /\ req[r].clock \in Nat /\ req[r].clock <= now /\ Timely(r)
  BY DEF InFlight, IInv, TypeOK, HandlerTypeOK, Owes, StoreTypeOK, Request, TallyInv, Tallied
<1>2. /\ u \in Users /\ Base(r) = Latest(u) /\ Latest(u) \in Signup
      /\ Match(u, Latest(u)) /\ Latest(u).counter # None
      /\ "verification-required" \in Latest(u).states
  BY <1>1, TallyFacts
<1>3. /\ "counter" \in DOMAIN w.set <=> "initAt" \in DOMAIN w.set
      /\ "initAt" \in DOMAIN w.set => /\ w.set.initAt = req[r].clock /\ w.set.counter = 0
                                     /\ \A c \in Messages(u) : sms[c].at < req[r].clock
  BY <1>1 DEF Timely, SameWindow
<1> QED
  BY <1>1, <1>2, <1>3, PendingMatch, MessageTimes

LEMMA InitLookupTallied ==
  ASSUME IInv, IInv', Answered, TallyInv, SettledInv', NEW r \in Requests, InitLookup(r)
  PROVE  TallyInv'
<1>1. /\ InFlight(r) /\ ~Owes(r) /\ HandlerTypeOK(r) /\ IsUpdate(writes[r]) /\ req[r] \in Request
      /\ req[r].kind = "init" /\ req[r].pc = "lookup" /\ UNCHANGED <<storeVars, sms>>
      /\ IsUpdate(writes'[r]) /\ Timely(r) /\ req[r].clock <= now
  BY DEF InitLookup, InFlight, Owes, IInv, TypeOK, HandlerTypeOK, TallyInv, Tallied
<1>2. \A q \in Requests \ {r} : req'[q] = req[q] /\ writes'[q] = writes[q]
  BY DEF InitLookup, Goto, IInv, TypeOK
<1>3. ASSUME SameRequest(r), SameWindow(writes[r].set, writes'[r].set),
             \/ req'[r].pc = "send" /\ req'[r].clock = req[r].clock
             \/ req'[r].pc = "get"
      PROVE  TallyInv'
  <2>1. CASE req'[r].pc = "send" /\ req'[r].clock = req[r].clock
    <3>1. Base(r)' = Base(r) /\ now' = now /\ log' = log /\ Messages(req[r].user)' = Messages(req[r].user)
      BY <1>1, <1>3 DEF Base, SameRequest, storeVars, Messages
    <3>2. Timely(r)'
      BY <1>1, <1>3, <2>1, <3>1 DEF Timely, SameRequest, SameWindow
    <3>3. Tallied(r)'
      BY <1>1, <1>3, <2>1, <3>1, <3>2 DEF Tallied, SameRequest, Latest, TallyInv
    <3> QED
      BY <1>1, <1>2, <3>3, RequestTallied
  <2>2. CASE req'[r].pc = "get"
    <3>1. ASSUME NEW w, w = writes'[r]
          PROVE  Match(req[r].user, Apply(Latest(req[r].user), w))
      BY <1>1, <1>3, <3>1, TimelyMatch
    <3> QED
      BY <1>1, <1>2, <1>3, <2>2, <3>1, DecidedTallied
  <2> QED
    BY <1>3, <2>1, <2>2
<1>4. ASSUME Goto(r, "send")
      PROVE  SameRequest(r) /\ req'[r].pc = "send" /\ req'[r].clock = req[r].clock
  <2>1. req'[r] = [req[r] EXCEPT !.pc = "send"]
    BY <1>4 DEF Goto, IInv, TypeOK
  <2> QED
    BY <1>1, <2>1 DEF Request, SameRequest
<1>5. CASE Goto(r, "send") /\ UNCHANGED writes
  BY <1>3, <1>4, <1>5 DEF SameWindow
<1>6. ASSUME NEW risk \in {"low", "high"}
      PROVE  LET w == [writes[r] EXCEPT !.set = With(@, [risk |-> risk])] IN
               /\ Goto(r, "send") /\ writes' = [writes EXCEPT ![r] = w] => TallyInv'
               /\ /\ req' = [req EXCEPT ![r].pc = "get", ![r].answer = "rejected"]
                  /\ writes' = [writes EXCEPT ![r] = [w EXCEPT !.add = {"rejected"}]]
                  => TallyInv'
  <2> DEFINE set == With(writes[r].set, [risk |-> risk])
             w == [writes[r] EXCEPT !.set = set]
             x == [w EXCEPT !.add = {"rejected"}]
  <2>1. w.set = set /\ x.set = set /\ SameWindow(writes[r].set, set)
    BY <1>1, UpdateParts DEF SameWindow, With
  <2> HIDE DEF w, x, set
  <2>2. ASSUME Goto(r, "send"), writes' = [writes EXCEPT ![r] = w]
        PROVE  TallyInv'
    BY <1>3, <1>4, <2>1, <2>2 DEF TypeOK, IInv
  <2>3. ASSUME req' = [req EXCEPT ![r].pc = "get", ![r].answer = "rejected"],
               writes' = [writes EXCEPT ![r] = x]
        PROVE  TallyInv'
    <3>1. req'[r] = [req[r] EXCEPT !.pc = "get", !.answer = "rejected"]
      BY <2>3 DEF TypeOK, IInv
    <3>2. req'[r].pc = "get" /\ SameRequest(r)
      BY <1>1, <3>1 DEF SameRequest, Request
    <3>3. writes'[r].set = set
      BY <2>1, <2>3 DEF TypeOK, IInv
    <3> QED
      BY <1>3, <2>1, <3>2, <3>3
  <2> QED
    BY <2>2, <2>3 DEF w, x, set
<1> QED
  BY <1>5, <1>6 DEF InitLookup

\* A message to u is one more since any time that has come before it.
LEMMA MessageSent ==
  ASSUME IInv, NEW u \in Users, NEW c \in Codes, sms[c] = None, NEW m \in Message, m.user = u,
         sms' = [sms EXCEPT ![c] = m]
  PROVE  /\ Messages(u)' = Messages(u) \cup {c} /\ c \notin Messages(u)
         /\ \A v : v # u => Messages(v)' = Messages(v)
         /\ \A d \in Codes \ {c} : sms'[d] = sms[d]
         /\ sms'[c] = m
         /\ \A k \in Nat : k <= m.at => /\ SentSince(u, k)' = SentSince(u, k) \cup {c}
                                       /\ c \notin SentSince(u, k)
<1>1. sms'[c] = m /\ m # None /\ m.at \in Nat /\ \A d \in Codes \ {c} : sms'[d] = sms[d]
  BY NoneAssumption DEF IInv, TypeOK, Message
<1>2. Messages(u)' = Messages(u) \cup {c} /\ c \notin Messages(u)
  BY <1>1 DEF Messages
<1>3. \A v : v # u => Messages(v)' = Messages(v)
  BY <1>1 DEF Messages
<1>4. ASSUME NEW k \in Nat, k <= m.at
      PROVE  SentSince(u, k)' = SentSince(u, k) \cup {c} /\ c \notin SentSince(u, k)
  <2>1. \A d \in Messages(u) : d \in Codes \ {c}
    BY <1>2 DEF Messages
  <2>2. \A d \in Messages(u) : sms'[d] = sms[d]
    BY <1>1, <2>1
  <2>3. m.at >= k
    BY <1>1, <1>4
  <2> QED
    BY <1>1, <1>2, <2>2, <2>3 DEF SentSince
<1> QED
  BY <1>1, <1>2, <1>3, <1>4

\* The counter that goes with the message.
LEMMA SentMatch ==
  ASSUME IInv, TallyInv, NEW r \in Requests, req[r].pc = "send", NEW u, u = req[r].user, UNCHANGED now,
         NEW c \in Codes, sms[c] = None, NEW m \in Message, m.user = u, m.at = req[r].clock,
         sms' = [sms EXCEPT ![c] = m],
         NEW w, IsUpdate(w), w.set = With(writes[r].set, CodeFields(r, c)),
         NEW s, s = Latest(u), NEW t, t = Apply(s, w)
  PROVE  Match(u, t)'
<1> DEFINE set == writes[r].set
           k == IF "initAt" \in DOMAIN set THEN req[r].clock ELSE s.initAt
<1>1. /\ InFlight(r) /\ req[r].kind = "init" /\ ~Owes(r)
      /\ now \in Nat /\ req[r].clock \in Nat /\ req[r].clock <= now /\ Timely(r)
  BY DEF InFlight, IInv, TypeOK, HandlerTypeOK, Owes, StoreTypeOK, Request, TallyInv, Tallied
<1>2. /\ u \in Users /\ Base(r) = s /\ s \in Signup /\ Match(u, s) /\ s.counter # None
  BY <1>1, TallyFacts
<1>3. Tallies(u, s.counter, s.initAt) /\ IsFiniteSet(Messages(u)) /\ Window \in Nat
  BY <1>2, PhoneVerificationAssumption DEF Match, TallyInv
<1>4. /\ t.counter = NextCounter(r) /\ t.initAt = k
  <2>1. /\ "counter" \in DOMAIN w.set /\ w.set.counter = NextCounter(r)
        /\ "initAt" \in DOMAIN w.set <=> "initAt" \in DOMAIN set
        /\ "initAt" \in DOMAIN set => w.set.initAt = set.initAt
    BY DEF With, CodeFields
  <2>2. /\ t.counter = IF "counter" \in DOMAIN w.set THEN w.set.counter ELSE s.counter
        /\ t.initAt = IF "initAt" \in DOMAIN w.set THEN w.set.initAt ELSE s.initAt
    BY <1>2, AppliedCounter
  <2>3. "initAt" \in DOMAIN set => set.initAt = req[r].clock
    BY <1>1 DEF Timely
  <2> QED
    BY <2>1, <2>2, <2>3
<1>5. k \in Nat /\ k <= req[r].clock /\ req[r].clock <= k + Window
  BY <1>1, <1>2, <1>3 DEF Timely, Signup, Opt
<1>6. Cardinality(SentSince(u, k)) = NextCounter(r) - 1 /\ NextCounter(r) \in Nat
  <2>1. CASE "initAt" \in DOMAIN set
    <3>1. Cardinality(SentSince(u, k)) = 0
      BY <1>1, <2>1, NoneSince, MessageTimes DEF Timely
    <3>2. NextCounter(r) = 1
      BY <1>1, <2>1 DEF NextCounter, Timely
    <3> QED
      BY <3>1, <3>2
  <2>2. CASE "initAt" \notin DOMAIN set
    <3>1. Cardinality(SentSince(u, k)) = s.counter
      BY <1>1, <1>2, <1>3, <2>2 DEF Timely, Tallies
    <3>2. NextCounter(r) = 1 + s.counter /\ s.counter \in Nat
      BY <1>1, <1>2, <2>2 DEF NextCounter, Timely, Signup, Opt
    <3> QED
      BY <3>1, <3>2
  <2> QED
    BY <2>1, <2>2
<1>7. \A d \in Messages(u) : sms[d].at <= k + Window
  <2>1. CASE "initAt" \in DOMAIN set
    BY <1>1, <1>3, <2>1, MessageTimes DEF Timely
  <2>2. CASE "initAt" \notin DOMAIN set
    BY <1>1, <1>2, <1>3, <2>2 DEF Timely, Tallies
  <2> QED
    BY <2>1, <2>2
<1> HIDE DEF set
<1>8. ASSUME NEW n \in Nat, n = k
      PROVE  Match(u, t)'
  <2>1. n <= m.at /\ m.at = req[r].clock /\ m.at <= n + Window
    BY <1>5, <1>8
  <2>2. t.counter = NextCounter(r) /\ t.initAt = n /\ n # None /\ t.counter # None
    BY <1>4, <1>6, <1>8, NumbersAreNotNone
  <2> HIDE DEF k
  <2>3. /\ Messages(u)' = Messages(u) \cup {c} /\ c \notin Messages(u)
        /\ \A d \in Codes \ {c} : sms'[d] = sms[d]
        /\ sms'[c] = m
    BY <1>2, MessageSent
  <2>4. SentSince(u, n)' = SentSince(u, n) \cup {c} /\ c \notin SentSince(u, n)
    <3>1. \A j \in Nat : j <= m.at => /\ SentSince(u, j)' = SentSince(u, j) \cup {c}
                                     /\ c \notin SentSince(u, j)
      BY <1>2, MessageSent
    <3> QED
      BY <2>1, <3>1
  <2>5. IsFiniteSet(SentSince(u, n))
    BY <1>3, FS_Subset DEF SentSince
  <2>6. Cardinality(SentSince(u, n)') = NextCounter(r)
    <3>1. Cardinality(SentSince(u, n)) = NextCounter(r) - 1
      BY <1>6, <1>8
    <3>2. Cardinality(SentSince(u, n) \cup {c}) = Cardinality(SentSince(u, n)) + 1
      BY <2>4, <2>5, FS_AddElement
    <3> QED
      BY <1>6, <2>4, <3>1, <3>2
  <2>7. \A d \in Messages(u)' : sms'[d].at <= n + Window
    <3>1. \A d \in Messages(u) : d \in Codes \ {c} /\ sms[d].at <= n + Window
      BY <1>7, <1>8, <2>3 DEF Messages
    <3> QED
      BY <2>1, <2>3, <3>1
  <2>8. n <= now'
    BY <1>1, <2>1
  <2> QED
    BY <2>2, <2>6, <2>7, <2>8 DEF Match, Tallies
<1> QED
  BY <1>5, <1>8

\* The messages of others are not touched.
LEMMA OthersMatch ==
  ASSUME NEW v, NEW s, Match(v, s), Messages(v)' = Messages(v), UNCHANGED now,
         \A d \in Messages(v) : sms'[d] = sms[d]
  PROVE  Match(v, s)'
<1>1. \A x : SentSince(v, x)' = SentSince(v, x)
  BY DEF SentSince
<1> QED
  BY <1>1 DEF Match, Tallies

\* The message goes out: the counter is behind until the update is written.
LEMMA SendTallied ==
  ASSUME IInv, IInv', TallyInv, SettledInv', NEW r \in Requests, req[r].pc = "send", NEW c \in Codes,
         sms[c] = None, NEW m \in Message, m.user = req[r].user, m.at = req[r].clock,
         sms' = [sms EXCEPT ![c] = m], UNCHANGED storeVars,
         SameRequest(r), req'[r].pc = "get",
         writes' = [writes EXCEPT ![r].set = With(@, CodeFields(r, c))],
         \A q \in Requests \ {r} : req'[q] = req[q]
  PROVE  TallyInv'
<1>1. /\ InFlight(r) /\ HandlerTypeOK(r) /\ req[r].kind = "init" /\ now' = now /\ log' = log
      /\ InFlight(r)' /\ IsUpdate(writes'[r])
  BY DEF InFlight, IInv, TypeOK, HandlerTypeOK, storeVars
<1>2. writes'[r].set = With(writes[r].set, CodeFields(r, c))
  <2>1. writes[r] = [set |-> writes[r].set, add |-> writes[r].add, del |-> writes[r].del]
    BY DEF IInv, TypeOK, IsUpdate
  <2>2. writes'[r] = [writes[r] EXCEPT !.set = With(@, CodeFields(r, c))]
    BY DEF IInv, TypeOK
  <2> QED
    BY <2>1, <2>2
<1>3. ASSUME NEW u, u = req[r].user
      PROVE  /\ Match(u, Apply(Latest(u), writes[r]))'
             /\ Base(r)' = Latest(u)'
  <2>1. ASSUME NEW s, s = Latest(u), NEW w, w = writes'[r], NEW t, t = Apply(s, w)
        PROVE  Match(u, t)'
    BY <1>1, <1>2, <1>3, <2>1, SentMatch
  <2>2. ASSUME NEW t, t = Apply(Latest(u), writes'[r])
        PROVE  Match(u, Apply(Latest(u), writes[r]))'
    <3>1. Match(u, t)'
      BY <2>1, <2>2
    <3>2. t = Apply(Latest(u)', writes'[r])
      BY <1>1, <2>2 DEF Latest
    <3> QED
      BY <3>1, <3>2 DEF Match, Tallies, SentSince, Messages
  <2>3. Base(r)' = Latest(u)'
    BY <1>1, <1>3 DEF TallyInv, Tallied, Base, Latest, SameRequest
  <2> QED
    BY <2>2, <2>3
<1>4. Tallied(r)'
  BY <1>1, <1>3 DEF Tallied, Latest, Match, Tallies, SentSince, Messages, SameRequest
<1>5. \A q \in Requests \ {r} : ~InFlight(q) /\ ~Owes(q) /\ Tallied(q)'
  <2>1. \A q \in Requests \ {r} : ~InFlight(q)
    BY <1>1 DEF TallyInv, SettledInv, Alone
  <2> QED
    BY <2>1 DEF Tallied, InFlight, Owes
<1>6. ~Owes(r) /\ Owes(r)' /\ req'[r].user = req[r].user /\ req[r].user \in Users
  BY <1>1 DEF Owes, SameRequest, HandlerTypeOK
<1>7. ASSUME NEW u \in Users
      PROVE  /\ IsFiniteSet(Messages(u))'
             /\ (Match(u, Latest(u)) \/ \E q \in Requests : Owes(q) /\ req[q].user = u)'
  <2>1. /\ Messages(m.user)' = Messages(m.user) \cup {c}
        /\ \A v : v # m.user => Messages(v)' = Messages(v)
        /\ \A d \in Codes \ {c} : sms'[d] = sms[d]
    BY <1>6, MessageSent
  <2>2. IsFiniteSet(Messages(u))
    BY DEF TallyInv
  <2>3. CASE u = req[r].user
    <3>1. IsFiniteSet(Messages(u) \cup {c})
      BY <2>2, FS_AddElement
    <3> QED
      BY <1>6, <2>1, <2>3, <3>1
  <2>4. CASE u # req[r].user
    <3>1. Messages(u)' = Messages(u) /\ \A d \in Messages(u) : sms'[d] = sms[d]
      BY <2>1, <2>4 DEF Messages
    <3>2. Match(u, Latest(u))
      BY <1>5, <1>6 DEF TallyInv
    <3>3. ASSUME NEW l, l = Latest(u)
          PROVE  Match(u, l)'
      BY <1>1, <3>1, <3>2, <3>3, OthersMatch
    <3>4. ASSUME NEW l, l = Latest(u)
          PROVE  Match(u, Latest(u))'
      <4>1. l = Latest(u)' /\ Match(u, l)'
        BY <1>1, <3>3, <3>4 DEF Latest
      <4> QED
        BY <4>1 DEF Match, Tallies, SentSince, Messages
    <3> QED
      BY <2>2, <3>1, <3>4
  <2> QED
    BY <2>3, <2>4
<1>8. \A q \in Requests : Tallied(q)'
  BY <1>4, <1>5
<1>9. \A u \in Users : /\ (Latest(u) # Absent)'
                       /\ (Latest(u).approval = "approved" => "verification-required" \notin Latest(u).states)'
  BY <1>1 DEF Latest, TallyInv
<1> QED
  BY <1>7, <1>8, <1>9 DEF TallyInv

LEMMA InitSendTallied ==
  ASSUME IInv, IInv', Answered, TallyInv, SettledInv', NEW r \in Requests, InitSend(r)
  PROVE  TallyInv'
<1>1. /\ InFlight(r) /\ ~Owes(r) /\ HandlerTypeOK(r) /\ IsUpdate(writes[r]) /\ req[r] \in Request
      /\ req[r].kind = "init" /\ req[r].pc = "send" /\ UNCHANGED storeVars
  BY DEF InitSend, InFlight, Owes, IInv, TypeOK, HandlerTypeOK
<1>2. ASSUME NEW a, req' = [req EXCEPT ![r].pc = "get", ![r].answer = a]
      PROVE  /\ SameRequest(r) /\ req'[r].pc = "get"
             /\ \A q \in Requests \ {r} : req'[q] = req[q]
  <2>1. req'[r] = [req[r] EXCEPT !.pc = "get", !.answer = a]
    BY <1>2 DEF IInv, TypeOK
  <2> QED
    BY <1>1, <1>2, <2>1 DEF Request, SameRequest, IInv, TypeOK
<1>3. ASSUME NEW c \in Codes, sms[c] = None,
             sms' = [sms EXCEPT ![c] = [user |-> req[r].user, phone |-> req[r].phone, at |-> req[r].clock]],
             writes' = [writes EXCEPT ![r].set = With(@, CodeFields(r, c))],
             req' = [req EXCEPT ![r].pc = "get", ![r].answer = "ok"]
      PROVE  TallyInv'
  <2>1. ASSUME NEW m, m = [user |-> req[r].user, phone |-> req[r].phone, at |-> req[r].clock]
        PROVE  TallyInv'
    <3>1. m \in Message /\ m.user = req[r].user /\ m.at = req[r].clock
      BY <1>1, <2>1 DEF Message, Request, HandlerTypeOK
    <3>2. /\ SameRequest(r) /\ req'[r].pc = "get"
          /\ \A q \in Requests \ {r} : req'[q] = req[q]
      BY <1>2, <1>3
    <3>3. sms' = [sms EXCEPT ![c] = m]
      BY <1>3, <2>1
    <3> QED
      BY <1>1, <1>3, <3>1, <3>2, <3>3, SendTallied
  <2> QED
    BY <2>1
<1>4. CASE req' = [req EXCEPT ![r].pc = "get", ![r].answer = "internal"] /\ UNCHANGED <<writes, sms>>
  <2>1. ASSUME NEW w, w = writes[r]
        PROVE  Match(req[r].user, Apply(Latest(req[r].user), w))
    BY <1>1, <2>1, TimelyMatch DEF SameWindow
  <2>2. /\ SameRequest(r) /\ req'[r].pc = "get"
        /\ \A q \in Requests \ {r} : req'[q] = req[q] /\ writes'[q] = writes[q]
    BY <1>2, <1>4
  <2> QED
    BY <1>1, <1>4, <2>1, <2>2, DecidedTallied
<1> QED
  BY <1>3, <1>4 DEF InitSend

LEMMA VerifyDecideTallied ==
  ASSUME IInv, IInv', TallyInv, SettledInv', NEW r \in Requests, VerifyDecide(r)
  PROVE  TallyInv'
<1> DEFINE a == Verdict(Base(r), req[r].code)
           w == VerifyWrites(Base(r), a)
<1>1. /\ InFlight(r) /\ HandlerTypeOK(r) /\ Base(r) \in Signup /\ UNCHANGED <<storeVars, sms>>
      /\ req[r].kind = "verify" /\ req[r].pc = "decide" /\ req[r].user \in Users
  BY BaseType DEF VerifyDecide, InFlight, IInv, HandlerTypeOK
<1>2. IsUpdate(w) /\ a \in Answers
  BY <1>1, VerifyIsUpdate
<1>3. ~Owes(r)
  BY <1>1 DEF Owes
<1>4. /\ {"counter", "initAt"} \subseteq DOMAIN w.set \/ {"counter", "initAt"} \cap DOMAIN w.set = {}
      /\ {"counter", "initAt"} \cap DOMAIN w.set = {} => w.del = {} /\ w.add = {}
      /\ "counter" \in DOMAIN w.set => w.set.counter = None /\ w.del = {"verification-required"}
  BY DEF VerifyWrites, Cleared, NoChange, NoFields
<1> HIDE DEF w, a
<1>5. CASE Answer(r, "phoneInUse")
  BY <1>1, <1>3, <1>5, AnswerTallied DEF Answers
<1>6. CASE Update(r, w, a)
  <2>1. /\ req'[r].pc = "get" /\ SameRequest(r) /\ writes'[r] = w
        /\ \A q \in Requests \ {r} : req'[q] = req[q] /\ writes'[q] = writes[q]
    BY <1>1, <1>2, <1>6, UpdateType DEF IInv, Update, TypeOK
  <2>2. ASSUME NEW u, u = req[r].user, NEW l, l = Latest(u), NEW v, v = w
        PROVE  Match(u, Apply(l, v))
    <3>1. Match(u, l) /\ l \in Signup
      <4>1. \A q \in Requests : ~Owes(q)
        BY <1>1, <1>3 DEF Owes, InFlight, TallyInv, SettledInv, Alone
      <4> QED
        BY <1>1, <2>2, <4>1, LatestIsSignup DEF TallyInv
    <3> DEFINE t == Apply(l, v)
    <3>2. /\ t.states = (l.states \cup v.add) \ v.del
          /\ t.counter = IF "counter" \in DOMAIN v.set THEN v.set.counter ELSE l.counter
          /\ t.initAt = IF "initAt" \in DOMAIN v.set THEN v.set.initAt ELSE l.initAt
      BY <1>2, <2>2, <3>1, AppliedCounter
    <3> HIDE DEF t
    <3>3. CASE "counter" \in DOMAIN v.set
      BY <1>4, <2>2, <3>2, <3>3 DEF Match, t
    <3>4. CASE "counter" \notin DOMAIN v.set
      BY <1>4, <2>2, <3>1, <3>2, <3>4, MatchSame DEF t
    <3> QED
      BY <3>3, <3>4
  <2>3. ASSUME NEW u, u = req[r].user, NEW v, v = w
        PROVE  Match(u, Apply(Latest(u), v))
    BY <2>2, <2>3
  <2>4. ASSUME NEW u, u = req[r].user, NEW v, v = w
        PROVE  TallyInv'
    <3>1. Match(u, Apply(Latest(u), v))
      BY <2>3, <2>4
    <3> QED
      BY <1>1, <1>3, <2>1, <2>4, <3>1, DecidedTallied
  <2> QED
    BY <2>4
<1> QED
  BY <1>5, <1>6 DEF VerifyDecide, w, a

\* Another try, or none: what the request has decided stays.
LEMMA AgainTallied ==
  ASSUME IInv, TallyInv, SettledInv', UNCHANGED <<storeVars, sms, writes>>, NEW r \in Requests,
         req[r].pc \in {"get", "put"}, SameRequest(r), req'[r].pc \in {"get", "put"},
         req'[r].pc = "put" /\ req[r].kind = "init" => req'[r].copy = Len(log[req[r].user]),
         \A q \in Requests \ {r} : req'[q] = req[q]
  PROVE  TallyInv'
<1>1. InFlight(r) /\ now' = now /\ sms' = sms /\ log' = log /\ writes' = writes
  BY DEF InFlight, storeVars
<1>2. Match(req[r].user, Apply(Latest(req[r].user), writes[r]))'
  <2>1. ASSUME NEW t, t = Apply(Latest(req[r].user), writes'[r])
        PROVE  Match(req[r].user, Apply(Latest(req[r].user), writes[r]))'
    <3>1. Match(req[r].user, t)
      BY <1>1, <2>1 DEF TallyInv, Tallied
    <3> QED
      BY <1>1, <2>1, <3>1, MatchKept DEF SameRequest
  <2> QED
    BY <2>1
<1>3. req[r].kind = "init" => Base(r)' = Latest(req[r].user)'
  BY <1>1 DEF TallyInv, Tallied, Base, Latest, SameRequest
<1>4. req'[r].pc = "put" /\ req[r].kind = "init" => req'[r].copy = Len(log[req[r].user])'
  BY <1>1 DEF SameRequest
<1>5. Tallied(r)'
  BY <1>2, <1>3, <1>4 DEF Tallied, SameRequest
<1> QED
  BY <1>1, <1>5, RequestTallied DEF Owes, SameRequest

LEMMA RetryTallied ==
  ASSUME IInv, TallyInv, SettledInv', UNCHANGED <<storeVars, sms>>, NEW r \in Requests,
         req[r].pc \in {"get", "put"}, req[r].kind # "init", Retry(r)
  PROVE  TallyInv'
<1>1. InFlight(r) /\ ~Owes(r)
  BY DEF InFlight, Owes
<1>2. CASE Answer(r, "internal")
  BY <1>1, <1>2, AnswerTallied DEF Answers
<1>3. CASE /\ req' = [req EXCEPT ![r].pc = "get", ![r].tries = @ + 1]
           /\ UNCHANGED writes
  <2>1. req'[r].pc = "get" /\ SameRequest(r) /\ \A q \in Requests \ {r} : req'[q] = req[q]
    <3>1. req'[r] = [req[r] EXCEPT !.pc = "get", !.tries = req[r].tries + 1]
      BY <1>3 DEF IInv, TypeOK
    <3> QED
      BY <1>3, <3>1 DEF IInv, TypeOK, Request, SameRequest
  <2> QED
    BY <1>3, <2>1, AgainTallied
<1> QED
  BY <1>2, <1>3 DEF Retry

LEMMA GetTallied ==
  ASSUME IInv, TallyInv, SettledInv', NEW r \in Requests, Get(r)
  PROVE  TallyInv'
<1>1. /\ InFlight(r) /\ HandlerTypeOK(r) /\ UNCHANGED <<storeVars, sms>> /\ req[r].pc = "get"
      /\ req[r] \in Request
  BY BaseType DEF Get, InFlight, IInv, TypeOK
<1>2. req[r].user \in Users /\ req[r].at \in Replicas
  BY <1>1 DEF HandlerTypeOK
<1>3. /\ seen[req[r].at][req[r].user] = Len(log[req[r].user])
      /\ Cached(req[r].at, req[r].user) # Absent
  BY <1>2 DEF TallyInv, SettledInv, CachesFresh, Cached, Latest
<1>4. /\ req' = [req EXCEPT ![r].pc = "put", ![r].copy = seen[req[r].at][req[r].user]]
      /\ UNCHANGED writes
  BY <1>3 DEF Get
<1>5. /\ req'[r].pc = "put" /\ SameRequest(r) /\ req'[r].copy = Len(log[req[r].user])
      /\ \A q \in Requests \ {r} : req'[q] = req[q]
  <2>1. req'[r] = [req[r] EXCEPT !.pc = "put", !.copy = seen[req[r].at][req[r].user]]
    BY <1>4 DEF IInv, TypeOK
  <2> QED
    BY <1>1, <1>3, <1>4, <2>1 DEF IInv, TypeOK, Request, SameRequest
<1> QED
  BY <1>1, <1>4, <1>5, AgainTallied

LEMMA PutConflictTallied ==
  ASSUME IInv, TallyInv, SettledInv', NEW r \in Requests, PutConflict(r)
  PROVE  TallyInv'
<1>1. /\ req[r].pc = "put" /\ Retry(r) /\ UNCHANGED <<storeVars, sms>>
      /\ req[r].user \in Users /\ InFlight(r)
  BY DEF PutConflict, InFlight, IInv, TypeOK, HandlerTypeOK
<1>2. req[r].kind # "init"
  BY <1>1 DEF PutConflict, IsCurrent, TallyInv, Tallied
<1> QED
  BY <1>1, <1>2, RetryTallied

\* The write itself.
LEMMA PutTallied ==
  ASSUME IInv, IInv', TallyInv, SettledInv', NEW r \in Requests, Put(r)
  PROVE  TallyInv'
<1>1. /\ req[r].pc = "put" /\ InFlight(r) /\ HandlerTypeOK(r) /\ IsUpdate(writes[r]) /\ UpdateOK(r)
      /\ Answer(r, req[r].answer) /\ now' = now /\ sms' = sms /\ req[r].answer \in Answers
  BY DEF Put, InFlight, IInv, TypeOK, HandlerTypeOK, UpdatesHold, Request, Opt
<1>2. /\ req'[r].pc = "done" /\ \A q \in Requests \ {r} : req'[q] = req[q] /\ writes'[q] = writes[q]
  <2>1. req'[r] = Done(r, req[r].answer)
        /\ \A q \in Requests \ {r} : req'[q] = req[q] /\ writes'[q] = writes[q]
    BY <1>1 DEF Answer, IInv, TypeOK
  <2> QED
    BY <1>1, <2>1, DoneRequest DEF IInv
<1>3. \A q \in Requests : q # r => ~InFlight(q)
  BY <1>1 DEF TallyInv, SettledInv, Alone
<1>4. \A q \in Requests : Tallied(q)'
  BY <1>2, <1>3 DEF Tallied, InFlight
<1>5. ASSUME NEW u \in Users
      PROVE  /\ (Latest(u) # Absent)'
             /\ (Latest(u).approval = "approved" => "verification-required" \notin Latest(u).states)'
             /\ Match(u, Latest(u))'
  <2>1. CASE u = req[r].user
    <3>1. ASSUME NEW l, l = Latest(u), NEW t, t = Apply(l, writes[r])
          PROVE  /\ t # Absent
                 /\ t.approval = "approved" => "verification-required" \notin t.states
                 /\ Match(u, t)' /\ t = Latest(u)'
      <4>1. l \in Signup /\ (l.approval = "approved" => "verification-required" \notin l.states)
        BY <3>1, LatestIsSignup DEF TallyInv
      <4>2. t \in Signup /\ t.approval = l.approval /\ t.states = (l.states \cup writes[r].add) \ writes[r].del
        BY <1>1, <3>1, <4>1, AppliedCounter
      <4>3. writes[r].add \subseteq {"rejected"}
        BY <1>1 DEF UpdateOK
      <4>4. Match(u, t)
        BY <1>1, <2>1, <3>1 DEF TallyInv, Tallied
      <4>5. t = Latest(u)'
        BY <2>1, <3>1, PutWrites
      <4>6. Match(u, t)'
        BY <1>1, <4>4 DEF Match, Tallies, SentSince, Messages
      <4> QED
        BY <4>1, <4>2, <4>3, <4>5, <4>6, HostStoreAssumption
    <3>2. ASSUME NEW l, l = Latest(u), NEW t, t = Apply(l, writes[r])
          PROVE  Match(u, Latest(u))'
      BY <3>1, <3>2 DEF Match, Tallies, SentSince, Messages
    <3> QED
      BY <3>1, <3>2
  <2>2. CASE u # req[r].user
    <3>1. Latest(u)' = Latest(u)
      BY <2>2, PutWrites DEF Latest
    <3>2. Match(u, Latest(u))
      BY <1>3, <2>2 DEF TallyInv, Owes, InFlight
    <3> QED
      BY <1>1, <3>1, <3>2 DEF TallyInv, Match, Tallies, SentSince, Messages
  <2> QED
    BY <2>1, <2>2
<1>6. \A u \in Users : IsFiniteSet(Messages(u))'
  BY <1>1 DEF TallyInv, Messages
<1> QED
  BY <1>4, <1>5, <1>6 DEF TallyInv

\* The host operator writes a UserSignup that is not to be verified.
LEMMA OperatorTallied ==
  ASSUME IInv, TallyInv, SettledInv', UNCHANGED <<sms, req, writes>>, NEW v \in Users, NEW t \in Signup,
         OperatorWrites(v, t), "verification-required" \notin Latest(v).states,
         "verification-required" \notin t.states,
         t.counter = Latest(v).counter, t.initAt = Latest(v).initAt
  PROVE  TallyInv'
<1>1. /\ log'[v] = Append(log[v], t) /\ log[v] \in Seq(Signup \cup {Absent}) /\ t # Absent
      /\ \A u \in Users \ {v} : log'[u] = log[u]
      /\ now' = now /\ now \in Nat /\ sms' = sms
  BY NewVersionType, HostStoreAssumption DEF OperatorWrites, IInv, TypeOK, StoreTypeOK
<1>2. Latest(v)' = t
  BY <1>1 DEF Latest
<1>3. \A r \in Requests : InFlight(r) /\ req[r].kind = "init" => req[r].user # v
  BY TallyFacts
<1>4. ASSUME NEW r \in Requests
      PROVE  Tallied(r)'
  <2>1. CASE InFlight(r) /\ req[r].user = v
    <3>1. req[r].kind # "init"
      BY <1>3, <2>1
    <3>2. \E x \in Signup :
            /\ log'[v] = Append(log[v], x)
            /\ x.counter = Latest(v).counter /\ x.initAt = Latest(v).initAt
            /\ x.states \cap {"verification-required"} = Latest(v).states \cap {"verification-required"}
      BY <1>1
    <3>3. now <= now' /\ now' \in Nat /\ req'[r] = req[r] /\ writes'[r] = writes[r]
      BY <1>1
    <3> QED
      BY <2>1, <3>1, <3>2, <3>3, SameTallied
  <2>2. CASE ~(InFlight(r) /\ req[r].user = v)
    <3>1. InFlight(r) => log'[req[r].user] = log[req[r].user]
      BY <1>1, <2>2 DEF IInv, TypeOK, HandlerTypeOK
    <3> QED
      BY <1>1, <3>1, SameTallied
  <2> QED
    BY <2>1, <2>2
<1>5. ASSUME NEW u \in Users
      PROVE  /\ IsFiniteSet(Messages(u))'
             /\ (Latest(u) # Absent)'
             /\ (Latest(u).approval = "approved" => "verification-required" \notin Latest(u).states)'
             /\ (Match(u, Latest(u)) \/ \E r \in Requests : Owes(r) /\ req[r].user = u)'
  <2>1. CASE u = v
    <3>1. Match(v, Latest(v))
      BY <1>3 DEF TallyInv, Owes, InFlight
    <3>2. Match(v, t)
      BY <3>1, MatchSame
    <3>3. Match(v, Latest(v))'
      <4>1. Messages(v)' = Messages(v) /\ \A x : SentSince(v, x)' = SentSince(v, x)
        BY <1>1 DEF Messages, SentSince
      <4> QED
        BY <1>1, <1>2, <3>2, <4>1 DEF Match, Tallies
    <3>4. IsFiniteSet(Messages(v))'
      BY <1>1 DEF TallyInv, Messages
    <3> QED
      BY <1>1, <1>2, <2>1, <3>3, <3>4
  <2>2. CASE u # v
    <3>1. Latest(u)' = Latest(u)
      BY <1>1, <2>2 DEF Latest
    <3>2. Match(u, Latest(u)) => Match(u, Latest(u))'
      BY <1>1, <3>1 DEF Match, Tallies, SentSince, Messages
    <3>3. \A r \in Requests : Owes(r) <=> Owes(r)'
      BY DEF Owes
    <3> QED
      BY <1>1, <3>1, <3>2, <3>3 DEF TallyInv, Messages
  <2> QED
    BY <2>1, <2>2
<1> QED
  BY <1>4, <1>5 DEF TallyInv

LEMMA StoreTallied ==
  ASSUME Unhindered, IInv, TallyInv, SettledInv', StoreNext, UNCHANGED phoneVars
  PROVE  TallyInv'
<1>1. UNCHANGED <<sms, req, writes>> /\ now \in Nat
  BY DEF phoneVars, IInv, TypeOK, StoreTypeOK
<1>2. CASE UNCHANGED log
  <2>1. now' \in Nat /\ now <= now'
    <3>1. now' = now \/ now' = now + 1
      BY DEF StoreNext, InformerSync, Tick, BanPhone, BanUser, OperatorApproves, OperatorDeactivates,
             OperatorReports, AdminApproves, OperatorDeletes, OperatorWrites
    <3> QED
      BY <1>1, <3>1
  <2>2. \A r \in Requests : Tallied(r)'
    BY <1>1, <1>2, <2>1, SameTallied
  <2> QED
    BY <1>1, <1>2, <2>1, <2>2, TallyStill DEF Owes
<1>3. ASSUME NEW u \in Users, OperatorApproves(u)
      PROVE  TallyInv'
  <2>1. ASSUME NEW s \in Signup
        PROVE  /\ Approved(s).states = s.states
               /\ Approved(s).counter = s.counter /\ Approved(s).initAt = s.initAt
    BY DEF Approved, Signup
  <2>2. /\ Latest(u) \in Signup /\ OperatorWrites(u, Approved(Latest(u)))
        /\ "verification-required" \notin Latest(u).states
    BY <1>3, LatestIsSignup DEF OperatorApproves
  <2>3. ASSUME NEW t, t = Approved(Latest(u))
        PROVE  TallyInv'
    <3>1. t \in Signup /\ t.states = Latest(u).states /\ t.counter = Latest(u).counter /\ t.initAt = Latest(u).initAt
      BY <2>1, <2>2, <2>3, OperatorType
    <3> QED
      BY <1>1, <2>2, <2>3, <3>1, OperatorTallied
  <2> QED
    BY <2>3
<1>4. ASSUME NEW u \in Users, OperatorDeactivates(u)
      PROVE  TallyInv'
  <2>1. ASSUME NEW s \in Signup
        PROVE  /\ Deactivated(s).states = (s.states \cup {"deactivated"}) \ {"approved"}
               /\ Deactivated(s).counter = s.counter /\ Deactivated(s).initAt = s.initAt
    BY DEF Deactivated, Signup
  <2>2. /\ Latest(u) \in Signup /\ OperatorWrites(u, Deactivated(Latest(u)))
        /\ "verification-required" \notin Latest(u).states
    BY <1>4, LatestIsSignup DEF OperatorDeactivates, TallyInv
  <2>3. ASSUME NEW t, t = Deactivated(Latest(u))
        PROVE  TallyInv'
    <3>1. /\ t \in Signup /\ t.states = (Latest(u).states \cup {"deactivated"}) \ {"approved"}
          /\ t.counter = Latest(u).counter /\ t.initAt = Latest(u).initAt
      BY <2>1, <2>2, <2>3, OperatorType
    <3> QED
      BY <1>1, <2>2, <2>3, <3>1, OperatorTallied
  <2> QED
    BY <2>3
<1>5. {"report", "admin", "delete"} \cap External = {}
  BY DEF Unhindered
<1>6. StoreNext => UNCHANGED log \/ \E u \in Users : OperatorApproves(u) \/ OperatorDeactivates(u)
  BY <1>5 DEF StoreNext, InformerSync, Tick, BanPhone, BanUser, OperatorReports, AdminApproves, OperatorDeletes
<1> QED
  BY <1>2, <1>3, <1>4, <1>6

LEMMA TallyStep ==
  ASSUME Unhindered, IInv, IInv', Answered, TallyInv, [Next]_vars
  PROVE  TallyInv'
<1>1. Sequential /\ "admin" \notin External /\ ~WriteErrors /\ ~Crashes
  BY DEF Unhindered
<1>2. SettledInv'
  BY <1>1, SettledStep DEF TallyInv
<1>3. CASE UNCHANGED vars
  <2>1. UNCHANGED <<log, sms, req, writes>> /\ now \in Nat /\ now' = now
    BY <1>3 DEF vars, IInv, TypeOK, StoreTypeOK
  <2>2. \A r \in Requests : Tallied(r)'
    BY <2>1, SameTallied
  <2> QED
    BY <1>2, <2>1, <2>2, TallyStill DEF Owes
<1>4. ASSUME NEW r \in Requests, NEW p \in Replicas, NEW u \in Users, NEW ph \in Phones, InitStart(r, p, u, ph)
      PROVE  TallyInv'
  <2>1. PICK pc, a : pc \in {"checkPhone", "done"} /\ Start(r, "init", p, u, ph, None, pc, a)
    BY <1>4 DEF InitStart
  <2> QED
    BY <1>1, <1>2, <1>4, <2>1, StartTallied DEF InitStart
<1>5. ASSUME NEW r \in Requests, NEW p \in Replicas, NEW u \in Users, NEW c \in Codes, VerifyStart(r, p, u, c)
      PROVE  TallyInv'
  <2>1. PICK pc, a : pc \in {"decide", "done"} /\ Start(r, "verify", p, u, None, c, pc, a)
    BY <1>5 DEF VerifyStart
  <2> QED
    BY <1>1, <1>2, <1>5, <2>1, StartTallied DEF VerifyStart
<1>6. ASSUME NEW r \in Requests, Handle(r)
      PROVE  TallyInv'
  BY <1>1, <1>2, <1>6, InitCheckPhoneTallied, InitLookupTallied, InitSendTallied, VerifyDecideTallied,
     GetTallied, PutTallied, PutConflictTallied DEF Handle, PutError
<1>7. CASE StoreNext /\ UNCHANGED phoneVars
  BY <1>2, <1>7, StoreTallied
<1> QED
  BY <1>1, <1>3, <1>4, <1>5, <1>6, <1>7 DEF Next, Arrive, Crash, Finished

LEMMA TallyInit == Init => TallyInv
<1> SUFFICES ASSUME Init
             PROVE  TallyInv
  OBVIOUS
<1>1. \A r \in Requests : req[r].pc = "idle"
  BY DEF Init, Idle
<1>2. \A r \in Requests : Tallied(r)
  BY <1>1 DEF Tallied, InFlight
<1>3. ASSUME NEW u \in Users
      PROVE  /\ Latest(u) # Absent /\ Latest(u).approval # "approved"
             /\ Latest(u).counter = 0 /\ Latest(u).initAt = None
  <2>1. PICK score \in Scores, activated \in Counters : log[u] = <<Fresh(score, activated)>>
    BY DEF Init
  <2>2. Fresh(score, activated) \in Signup
    BY PhoneVerificationAssumption DEF Fresh, Signup, States, Opt
  <2> QED
    BY <2>1, <2>2, HostStoreAssumption DEF Latest, Fresh
<1>4. ASSUME NEW u \in Users
      PROVE  Messages(u) = {} /\ IsFiniteSet(Messages(u)) /\ Match(u, Latest(u))
  <2>1. Messages(u) = {}
    BY DEF Init, Messages
  <2> QED
    BY <1>3, <2>1, FS_EmptySet, NumbersAreNotNone DEF Match, Tallies
<1> QED
  BY <1>2, <1>3, <1>4, SettledInit DEF TallyInv

\* With requests handled one at a time, on caches that do not lag, without failed writes, crashes,
\* deletions, reports or administrators in between, the counter of a UserSignup is the number of
\* messages sent since its timestamp whenever no request of its user is under way
\* (verification_service.go:122, 158-186).
THEOREM CounterAlwaysCountsMessages ==
  ASSUME Unhindered
  PROVE  Spec => []CounterCountsMessages
<1>1. Init => TallyInv
  BY TallyInit
<1>2. IInv /\ IInv' /\ Answered /\ TallyInv /\ [Next]_vars => TallyInv'
  BY TallyStep
<1>3. ASSUME IInv, TallyInv, NEW u \in Users, Quiet(u), Latest(u).counter # None
      PROVE  Latest(u).counter =
               Cardinality({c \in Codes : sms[c] # None /\ sms[c].user = u /\ sms[c].at >= Latest(u).initAt})
  <2>1. Match(u, Latest(u))
    BY <1>3 DEF TallyInv, Quiet, Owes, InFlight
  <2>2. {c \in Codes : sms[c] # None /\ sms[c].user = u /\ sms[c].at >= Latest(u).initAt}
          = SentSince(u, Latest(u).initAt)
    BY DEF SentSince, Messages
  <2>3. CASE Latest(u).initAt = None
    <3>1. SentSince(u, Latest(u).initAt) = {} /\ Latest(u).counter = 0
      BY <1>3, <2>1, <2>3 DEF Match, Tallies, SentSince
    <3> QED
      BY <2>2, <3>1, FS_EmptySet
  <2>4. CASE Latest(u).initAt # None
    BY <1>3, <2>1, <2>2, <2>4 DEF Match, Tallies
  <2> QED
    BY <2>3, <2>4
<1>4. IInv /\ TallyInv => CounterCountsMessages
  BY <1>3 DEF CounterCountsMessages
<1> QED
  BY <1>1, <1>2, <1>4, AnsweredHolds, PTL DEF Spec
=============================================================================
