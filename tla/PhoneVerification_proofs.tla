----------------------- MODULE PhoneVerification_proofs -----------------------
(***************************************************************************)
(* Proofs about PhoneVerification, for every value of its constants: its   *)
(* types, and the inductive invariant IInv. What is stored is consistent   *)
(* (LimitsHold, StoredCodeWasSent, CodeComplete), and so is what each      *)
(* handler is about to write, whatever version it will be applied to       *)
(* (UpdatesHold). Then the refinement of PhoneGate, from GateInv.          *)
(***************************************************************************)
EXTENDS PhoneVerification, HostStore_proofs

-----------------------------------------------------------------------------
(* Assignments and versions.                                               *)

LEMMA WithType ==
  ASSUME NEW s \in Signup, NEW w, IsUpdate(w)
  PROVE  /\ With(s, w.set) \in Signup
         /\ With(s, w.set).states = s.states
         /\ With(s, w.set).approval = s.approval
         /\ \A k \in Annotations :
              With(s, w.set)[k] = IF k \in DOMAIN w.set THEN w.set[k] ELSE s[k]
BY DEF With, IsUpdate, Signup, Annotations, Numbers, Opt

\* An update of a UserSignup makes a UserSignup, which has the assigned labels and
\* annotations, and its states but for those set and cleared.
LEMMA ApplyType ==
  ASSUME NEW s \in Signup, NEW w, IsUpdate(w)
  PROVE  /\ Apply(s, w) \in Signup
         /\ Apply(s, w).states = (s.states \cup w.add) \ w.del
         /\ Apply(s, w).approval = s.approval
         /\ \A k \in Annotations :
              Apply(s, w)[k] = IF k \in DOMAIN w.set THEN w.set[k] ELSE s[k]
<1> DEFINE t == With(s, w.set)
<1>1. /\ t \in Signup /\ t.states = s.states /\ t.approval = s.approval
      /\ \A k \in Annotations : t[k] = IF k \in DOMAIN w.set THEN w.set[k] ELSE s[k]
  BY WithType
<1>2. Apply(s, w) = [t EXCEPT !.states = (t.states \cup w.add) \ w.del]
  BY DEF Apply
<1>3. w.add \subseteq States /\ w.del \subseteq States
  BY DEF IsUpdate
<1> HIDE DEF t
<1>4. Apply(s, w) \in Signup /\ Apply(s, w).states = (t.states \cup w.add) \ w.del
  BY <1>1, <1>2, <1>3 DEF Signup
<1>5. Apply(s, w).approval = t.approval /\ \A k \in Annotations : Apply(s, w)[k] = t[k]
  BY <1>1, <1>2 DEF Signup, Annotations, Numbers
<1> QED
  BY <1>1, <1>4, <1>5

\* Replacing the parts of an update.
LEMMA UpdateParts ==
  ASSUME NEW w, IsUpdate(w), NEW f, NEW S
  PROVE  /\ [w EXCEPT !.set = f] = [set |-> f, add |-> w.add, del |-> w.del]
         /\ [[w EXCEPT !.set = f] EXCEPT !.add = S] = [set |-> f, add |-> S, del |-> w.del]
<1>1. PICK a, b, c : w = [set |-> a, add |-> b, del |-> c]
  BY DEF IsUpdate
<1> DEFINE v == [w EXCEPT !.set = f]
<1>2. v = [set |-> f, add |-> b, del |-> c]
  BY <1>1
<1> HIDE DEF v
<1>3. [v EXCEPT !.add = S] = [set |-> f, add |-> S, del |-> c]
  BY <1>2
<1>4. v = [set |-> f, add |-> w.add, del |-> w.del] /\ w.del = c
  BY <1>1, <1>2
<1> QED
  BY <1>3, <1>4 DEF v

LEMMA NoChangeIsUpdate == IsUpdate(NoChange)
BY DEF IsUpdate, NoChange, NoFields, Annotations, Numbers

-----------------------------------------------------------------------------
(* What a step does to the handlers.                                       *)

\* What stays of a request while it is handled.
SameRequest(r) ==
  /\ req'[r].kind = req[r].kind /\ req'[r].at = req[r].at /\ req'[r].user = req[r].user
  /\ req'[r].phone = req[r].phone /\ req'[r].code = req[r].code /\ req'[r].base = req[r].base

\* The versions a handler holds stay what they are.
LEMMA BaseStable ==
  ASSUME LogGrows, NEW r \in Requests, HandlerTypeOK(r), SameRequest(r)
  PROVE  Base(r)' = Base(r)
BY DEF LogGrows, HandlerTypeOK, SameRequest, Base

LEMMA HandlerStable ==
  ASSUME LogGrows, NEW r \in Requests, HandlerTypeOK(r), SameRequest(r),
         req'[r].pc \in {"checkPhone", "lookup", "send"} => req[r].kind = "init",
         req'[r].pc = "decide" => req[r].kind = "verify",
         req'[r].pc \in {"get", "put"} => req'[r].answer # None,
         req'[r].pc = "put" => /\ req'[r].copy \in 1 .. Len(log[req[r].user])
                               /\ log[req[r].user][req'[r].copy] # Absent
  PROVE  HandlerTypeOK(r)'
<1>1. Base(r)' = Base(r)
  BY BaseStable
<1>2. \A i \in 1 .. Len(log[req[r].user]) :
        i \in 1 .. Len(log'[req[r].user]) /\ log'[req[r].user][i] = log[req[r].user][i]
  BY DEF LogGrows, HandlerTypeOK
<1> QED
  BY <1>1, <1>2 DEF HandlerTypeOK, SameRequest

\* A step of one handler keeps the types when it keeps those of the store and
\* of that handler.
LEMMA RequestStepType ==
  ASSUME TypeOK, StoreTypeOK', LogGrows, NEW r \in Requests,
         req' = [req EXCEPT ![r] = req'[r]], req'[r] \in Request,
         writes' = [writes EXCEPT ![r] = writes'[r]], IsUpdate(writes'[r]),
         InFlight(r)' => HandlerTypeOK(r)',
         sms' \in [Codes -> Opt(Message)], lookups' \subseteq Users \X Phones
  PROVE  TypeOK'
<1>1. req' \in [Requests -> Request]
  BY DEF TypeOK
<1>2. ASSUME NEW q \in Requests, InFlight(q)'
      PROVE  HandlerTypeOK(q)'
  <2>1. CASE q = r
    BY <1>2, <2>1
  <2>2. CASE q # r
    <3>1. req'[q] = req[q]
      BY <2>2 DEF TypeOK
    <3>2. HandlerTypeOK(q)
      BY <1>2, <3>1 DEF TypeOK, InFlight
    <3> QED
      BY <3>1, <3>2, HandlerStable DEF HandlerTypeOK, SameRequest
  <2> QED
    BY <2>1, <2>2
<1>3. /\ writes' = [q \in Requests |-> writes'[q]]
      /\ \A q \in Requests : IsUpdate(writes'[q])
  BY DEF TypeOK
<1> QED
  BY <1>1, <1>2, <1>3 DEF TypeOK, IsUpdate

\* A request that has been answered.
LEMMA DoneType ==
  ASSUME NEW r \in Requests, req[r] \in Request, NEW a \in Answers
  PROVE  Done(r, a) \in Request /\ Done(r, a).pc = "done"
<1>1. ASSUME NEW q \in Request
      PROVE  [q EXCEPT !.pc = "done", !.answer = a] \in Request
  <2>1. a \in Opt(Answers)
    BY DEF Opt
  <2> QED
    BY <2>1 DEF Request
<1>2. ASSUME NEW q \in Request
      PROVE  /\ [q EXCEPT !.clock = 0, !.copy = 0, !.tries = 0] \in Request
             /\ [q EXCEPT !.clock = 0, !.copy = 0, !.tries = 0].pc = q.pc
  BY DEF Request
<1> DEFINE q == [req[r] EXCEPT !.pc = "done", !.answer = a]
<1>3. q \in Request /\ q.pc = "done"
  BY <1>1 DEF Request
<1>4. Done(r, a) = [q EXCEPT !.clock = 0, !.copy = 0, !.tries = 0]
  BY DEF Done, Request
<1> HIDE DEF q
<1> QED
  BY <1>2, <1>3, <1>4

LEMMA AnswerType ==
  ASSUME TypeOK, NEW r \in Requests, NEW a \in Answers, Answer(r, a)
  PROVE  /\ req' = [req EXCEPT ![r] = req'[r]]
         /\ req'[r] \in Request
         /\ ~InFlight(r)'
         /\ writes' = [writes EXCEPT ![r] = writes'[r]]
         /\ IsUpdate(writes'[r])
<1>1. req'[r] = Done(r, a) /\ req' = [req EXCEPT ![r] = req'[r]]
  BY DEF Answer, TypeOK
<1>2. Done(r, a) \in Request /\ Done(r, a).pc = "done"
  BY DoneType DEF TypeOK
<1>3. writes'[r] = NoChange /\ writes' = [writes EXCEPT ![r] = writes'[r]]
  BY DEF Answer, TypeOK
<1> QED
  BY <1>1, <1>2, <1>3, NoChangeIsUpdate DEF InFlight

\* The step to a place of the handler's code.
LEMMA GotoType ==
  ASSUME TypeOK, NEW r \in Requests, Goto(r, "send")
  PROVE  /\ req' = [req EXCEPT ![r] = req'[r]]
         /\ req'[r] \in Request /\ req'[r].pc = "send" /\ req'[r].clock = req[r].clock
         /\ SameRequest(r)
BY DEF TypeOK, Goto, Request, SameRequest

LEMMA UpdateType ==
  ASSUME TypeOK, NEW r \in Requests, NEW w, IsUpdate(w), NEW a \in Answers, Update(r, w, a)
  PROVE  /\ req' = [req EXCEPT ![r] = req'[r]]
         /\ req'[r] \in Request /\ req'[r].pc = "get" /\ req'[r].answer = a
         /\ SameRequest(r)
         /\ writes' = [writes EXCEPT ![r] = w]
         /\ writes'[r] = w
<1>1. /\ req'[r] = [req[r] EXCEPT !.pc = "get", !.clock = now, !.answer = a]
      /\ req' = [req EXCEPT ![r] = req'[r]]
  BY DEF Update, TypeOK
<1>2. now \in Nat /\ req[r] \in Request
  BY DEF TypeOK, StoreTypeOK
<1>3. /\ req'[r] \in Request /\ req'[r].pc = "get" /\ req'[r].answer = a
      /\ SameRequest(r)
  BY <1>1, <1>2 DEF Request, SameRequest, Opt
<1>4. writes' = [writes EXCEPT ![r] = w] /\ writes'[r] = w
  BY DEF TypeOK, Update
<1> QED
  BY <1>1, <1>3, <1>4

LEMMA RetryType ==
  ASSUME TypeOK, NEW r \in Requests, InFlight(r), Retry(r)
  PROVE  /\ req' = [req EXCEPT ![r] = req'[r]]
         /\ req'[r] \in Request
         /\ \/ /\ req'[r].pc = "get" /\ req'[r].answer = req[r].answer
               /\ SameRequest(r)
               /\ writes' = writes
            \/ ~InFlight(r)' /\ writes'[r] = NoChange /\ req'[r].answer = "internal"
         /\ writes' = [writes EXCEPT ![r] = writes'[r]]
         /\ IsUpdate(writes'[r])
<1>1. CASE req[r].tries + 1 < MaxTries
  <2>1. /\ req'[r] = [req[r] EXCEPT !.pc = "get", !.tries = req[r].tries + 1]
        /\ req' = [req EXCEPT ![r] = req'[r]]
    BY <1>1 DEF Retry, TypeOK
  <2>2. writes' = writes
    BY <1>1 DEF Retry
  <2>3. writes' = [writes EXCEPT ![r] = writes'[r]] /\ IsUpdate(writes'[r])
    BY <2>2 DEF TypeOK
  <2>4. req[r] \in Request /\ req[r].tries + 1 \in Nat
    BY DEF TypeOK, Request
  <2>5. /\ req'[r] \in Request /\ req'[r].pc = "get" /\ req'[r].answer = req[r].answer
        /\ SameRequest(r)
    BY <2>1, <2>4 DEF Request, SameRequest
  <2> QED
    BY <2>1, <2>2, <2>3, <2>5
<1>2. CASE ~(req[r].tries + 1 < MaxTries)
  <2>1. Answer(r, "internal")
    BY <1>2 DEF Retry
  <2>2. writes'[r] = NoChange /\ req'[r].answer = "internal"
    BY <2>1 DEF Answer, TypeOK, Done, Request
  <2> QED
    BY <2>1, <2>2, AnswerType DEF Answers
<1> QED
  BY <1>1, <1>2

-----------------------------------------------------------------------------
(* One lemma per action: it keeps the types.                               *)

\* A request arrives on a replica that has a version of the user's UserSignup.
LEMMA StartType ==
  ASSUME TypeOK, NEW r \in Requests, NEW p \in Replicas, NEW u \in Users,
         NEW kind, NEW ph, NEW c, NEW a \in Opt(Answers),
         \/ kind = "init" /\ ph \in Phones /\ c = None
         \/ kind = "verify" /\ ph = None /\ c \in Codes,
         NEW pc, \/ pc = "done"
                 \/ /\ pc = IF kind = "init" THEN "checkPhone" ELSE "decide"
                    /\ Cached(p, u) # Absent,
         Start(r, kind, p, u, ph, c, pc, a),
         UNCHANGED <<storeVars, writes, sms, lookups>>
  PROVE  TypeOK'
<1>1. /\ req' = [req EXCEPT ![r] = req'[r]]
      /\ req'[r] = [Idle EXCEPT !.pc = pc, !.kind = kind, !.at = p, !.user = u,
                                !.phone = ph, !.code = c, !.base = seen[p][u], !.answer = a]
  BY DEF Start, TypeOK
<1>2. seen[p][u] \in 1 .. Len(log[u]) /\ seen[p][u] \in Nat
  BY DEF TypeOK, StoreTypeOK
<1>3. req'[r] \in Request
  <2>1. req'[r] = [pc |-> pc, kind |-> kind, at |-> p, user |-> u, phone |-> ph, code |-> c,
                   base |-> seen[p][u], clock |-> 0, copy |-> 0, tries |-> 0, answer |-> a]
    BY <1>1 DEF Idle
  <2> QED
    BY <1>2, <2>1 DEF Request, Opt
<1>4. InFlight(r)' => HandlerTypeOK(r)'
  BY <1>1, <1>2 DEF InFlight, HandlerTypeOK, Base, Cached, Idle, storeVars
<1>5. StoreTypeOK' /\ LogGrows
  BY StoreUnchanged DEF TypeOK
<1>6. /\ writes' = [writes EXCEPT ![r] = writes'[r]] /\ IsUpdate(writes'[r])
      /\ sms' \in [Codes -> Opt(Message)] /\ lookups' \subseteq Users \X Phones
  BY DEF TypeOK
<1> QED
  BY <1>1, <1>3, <1>4, <1>5, <1>6, RequestStepType

LEMMA InitStartType ==
  ASSUME TypeOK, NEW r \in Requests, NEW p \in Replicas, NEW u \in Users,
         NEW ph \in Phones, InitStart(r, p, u, ph)
  PROVE  TypeOK'
<1>1. PICK a \in Opt(Answers) :
         \/ Start(r, "init", p, u, ph, None, "done", a)
         \/ Start(r, "init", p, u, ph, None, "checkPhone", a) /\ Cached(p, u) # Absent
  BY DEF InitStart, Opt, Answers
<1>2. UNCHANGED <<storeVars, writes, sms, lookups>>
  BY DEF InitStart
<1> QED
  BY <1>1, <1>2, StartType

LEMMA VerifyStartType ==
  ASSUME TypeOK, NEW r \in Requests, NEW p \in Replicas, NEW u \in Users,
         NEW c \in Codes, VerifyStart(r, p, u, c)
  PROVE  TypeOK'
<1>1. PICK a \in Opt(Answers) :
         \/ Start(r, "verify", p, u, None, c, "done", a)
         \/ Start(r, "verify", p, u, None, c, "decide", a) /\ Cached(p, u) # Absent
  BY DEF VerifyStart, Opt, Answers
<1>2. UNCHANGED <<storeVars, writes, sms, lookups>>
  BY DEF VerifyStart
<1> QED
  BY <1>1, <1>2, StartType

\* What r decides on is a UserSignup.
LEMMA BaseType ==
  ASSUME TypeOK, NEW r \in Requests, InFlight(r)
  PROVE  HandlerTypeOK(r) /\ Base(r) \in Signup
BY LatestType DEF TypeOK, HandlerTypeOK, Base

\* The timestamp, the counter and the phone InitVerification decides to write.
LEMMA ResetIsUpdate ==
  ASSUME TypeOK, NEW s \in Signup, NEW ph \in Phones
  PROVE  IsUpdate([NoChange EXCEPT !.set = With([phone |-> ph], Reset(s))])
<1> DEFINE set == With([phone |-> ph], Reset(s))
           w == [NoChange EXCEPT !.set = set]
<1>1. now \in Nat
  BY DEF TypeOK, StoreTypeOK
<1>2. /\ DOMAIN set \subseteq {"phone", "initAt", "counter"}
      /\ set["phone"] = ph
      /\ "initAt" \in DOMAIN set => set["initAt"] = now
      /\ "counter" \in DOMAIN set => set["counter"] = 0
  BY DEF With, Reset, NoFields
<1>3. w = [set |-> set, add |-> {}, del |-> {}]
  BY DEF NoChange
<1> HIDE DEF set, w
<1>4. IsUpdate(w)
  BY <1>1, <1>2, <1>3 DEF IsUpdate, Annotations, Numbers, Opt
<1> QED
  BY <1>4 DEF w, set

LEMMA InitCheckPhoneType ==
  ASSUME TypeOK, NEW r \in Requests, InitCheckPhone(r)
  PROVE  TypeOK'
<1> DEFINE w == [NoChange EXCEPT !.set = With([phone |-> req[r].phone], Reset(Base(r)))]
<1>1. InFlight(r) /\ HandlerTypeOK(r) /\ Base(r) \in Signup /\ req[r].kind = "init"
  BY BaseType DEF InitCheckPhone, InFlight, HandlerTypeOK
<1>2. IsUpdate(w)
  BY <1>1, ResetIsUpdate DEF HandlerTypeOK
<1> HIDE DEF w
<1>3. StoreTypeOK' /\ LogGrows
  BY StoreUnchanged DEF TypeOK, InitCheckPhone
<1>4. UNCHANGED <<sms, lookups>>
  BY DEF InitCheckPhone
<1>5. CASE Answer(r, "phoneInUse")
  BY <1>3, <1>4, <1>5, AnswerType, RequestStepType DEF Answers, TypeOK
<1>6. CASE Update(r, w, "limit")
  <2>1. /\ req' = [req EXCEPT ![r] = req'[r]]
        /\ req'[r] \in Request /\ req'[r].pc = "get" /\ req'[r].answer = "limit"
        /\ SameRequest(r)
        /\ writes' = [writes EXCEPT ![r] = w] /\ writes'[r] = w
    BY <1>2, <1>6, UpdateType DEF Answers
  <2>2. "limit" # None
    BY NoneAssumption DEF Answers
  <2> QED
    BY <1>1, <1>2, <1>3, <1>4, <2>1, <2>2, HandlerStable, RequestStepType DEF TypeOK
<1>7. CASE /\ req' = [req EXCEPT ![r].pc = IF LookupApplies(r) THEN "lookup" ELSE "send",
                                 ![r].clock = now]
           /\ writes' = [writes EXCEPT ![r] = w]
  <2> DEFINE pc == IF LookupApplies(r) THEN "lookup" ELSE "send"
  <2>1. pc \in {"lookup", "send"}
    OBVIOUS
  <2>2. now \in Nat /\ req[r] \in Request /\ req'[r] = [req[r] EXCEPT !.pc = pc, !.clock = now]
    BY <1>7 DEF TypeOK, StoreTypeOK
  <2> HIDE DEF pc
  <2>3. req'[r] \in Request /\ req'[r].pc \in {"lookup", "send"} /\ SameRequest(r)
    BY <2>1, <2>2 DEF Request, SameRequest
  <2>4. req' = [req EXCEPT ![r] = req'[r]]
    BY <1>7 DEF TypeOK
  <2>5. writes' = [writes EXCEPT ![r] = writes'[r]] /\ IsUpdate(writes'[r])
    BY <1>2, <1>7 DEF TypeOK
  <2> QED
    BY <1>1, <1>3, <1>4, <2>3, <2>4, <2>5, HandlerStable, RequestStepType DEF TypeOK
<1> QED
  BY <1>5, <1>6, <1>7 DEF InitCheckPhone, w

LEMMA LookupIsUpdate ==
  ASSUME NEW w, IsUpdate(w), NEW risk \in {"low", "high"}
  PROVE  /\ IsUpdate([w EXCEPT !.set = With(w.set, [risk |-> risk])])
         /\ IsUpdate([[w EXCEPT !.set = With(w.set, [risk |-> risk])] EXCEPT !.add = {"rejected"}])
<1> DEFINE set == With(w.set, [risk |-> risk])
           v == [w EXCEPT !.set = set]
           x == [v EXCEPT !.add = {"rejected"}]
<1>1. /\ v = [set |-> set, add |-> w.add, del |-> w.del]
      /\ x = [set |-> set, add |-> {"rejected"}, del |-> w.del]
  BY UpdateParts
<1>2. /\ DOMAIN set = DOMAIN w.set \cup {"risk"} /\ set["risk"] = risk
      /\ \A k \in DOMAIN w.set \ {"risk"} : set[k] = w.set[k]
  BY DEF With
<1> HIDE DEF set, v, x
<1>3. IsUpdate(v) /\ IsUpdate(x)
  BY <1>1, <1>2 DEF IsUpdate, Annotations, Numbers, Opt, States
<1> QED
  BY <1>3 DEF v, x, set

LEMMA InitLookupType ==
  ASSUME TypeOK, NEW r \in Requests, InitLookup(r)
  PROVE  TypeOK'
<1>1. InFlight(r) /\ HandlerTypeOK(r) /\ req[r] \in Request /\ req[r].kind = "init"
  BY BaseType DEF InitLookup, InFlight, HandlerTypeOK, TypeOK
<1>2. StoreTypeOK' /\ LogGrows
  BY StoreUnchanged DEF TypeOK, InitLookup
<1>3. /\ sms' \in [Codes -> Opt(Message)]
      /\ lookups' \subseteq Users \X Phones
  BY <1>1 DEF TypeOK, InitLookup, HandlerTypeOK
<1>4. ASSUME Goto(r, "send"), writes' = [writes EXCEPT ![r] = writes'[r]], IsUpdate(writes'[r])
      PROVE  TypeOK'
  BY <1>1, <1>2, <1>3, <1>4, GotoType, HandlerStable, RequestStepType DEF TypeOK
<1>5. CASE Goto(r, "send") /\ UNCHANGED writes
  BY <1>4, <1>5 DEF TypeOK
<1>6. ASSUME NEW risk \in {"low", "high"}
      PROVE  LET w == [writes[r] EXCEPT !.set = With(@, [risk |-> risk])] IN
               /\ Goto(r, "send") /\ writes' = [writes EXCEPT ![r] = w] => TypeOK'
               /\ /\ req' = [req EXCEPT ![r].pc = "get", ![r].answer = "rejected"]
                  /\ writes' = [writes EXCEPT ![r] = [w EXCEPT !.add = {"rejected"}]]
                  => TypeOK'
  <2> DEFINE w == [writes[r] EXCEPT !.set = With(writes[r].set, [risk |-> risk])]
             x == [w EXCEPT !.add = {"rejected"}]
  <2>1. IsUpdate(w) /\ IsUpdate(x)
    BY LookupIsUpdate DEF TypeOK
  <2> HIDE DEF w, x
  <2>2. ASSUME Goto(r, "send"), writes' = [writes EXCEPT ![r] = w]
        PROVE  TypeOK'
    BY <1>4, <2>1, <2>2 DEF TypeOK
  <2>3. ASSUME req' = [req EXCEPT ![r].pc = "get", ![r].answer = "rejected"],
               writes' = [writes EXCEPT ![r] = x]
        PROVE  TypeOK'
    <3>1. /\ req'[r] = [req[r] EXCEPT !.pc = "get", !.answer = "rejected"]
          /\ req' = [req EXCEPT ![r] = req'[r]]
      BY <2>3 DEF TypeOK
    <3>2. req'[r] \in Request /\ req'[r].pc = "get" /\ req'[r].answer # None /\ SameRequest(r)
      <4>1. "rejected" \in Opt(Answers) /\ "rejected" # None
        BY NoneAssumption DEF Opt, Answers
      <4>2. req[r] \in Request
        BY <1>1
      <4>3. req'[r] \in Request /\ req'[r].pc = "get" /\ req'[r].answer = "rejected"
        BY <3>1, <4>1, <4>2 DEF Request
      <4>4. SameRequest(r)
        BY <3>1, <4>2 DEF Request, SameRequest
      <4> QED
        BY <4>1, <4>3, <4>4
    <3>3. writes' = [writes EXCEPT ![r] = writes'[r]] /\ IsUpdate(writes'[r])
      BY <2>1, <2>3 DEF TypeOK
    <3> QED
      BY <1>1, <1>2, <1>3, <3>1, <3>2, <3>3, HandlerStable, RequestStepType DEF TypeOK
  <2> QED
    BY <2>2, <2>3 DEF w, x
<1> QED
  BY <1>5, <1>6 DEF InitLookup

LEMMA CodeIsUpdate ==
  ASSUME TypeOK, NEW r \in Requests, req[r].pc = "send", NEW c \in Codes
  PROVE  IsUpdate([writes[r] EXCEPT !.set = With(writes[r].set, CodeFields(r, c))])
<1> DEFINE set == With(writes[r].set, CodeFields(r, c))
           v == [writes[r] EXCEPT !.set = set]
<1>1. IsUpdate(writes[r]) /\ Base(r) \in Signup /\ req[r] \in Request
  BY BaseType DEF TypeOK, InFlight
<1>2. NextCounter(r) \in Nat /\ req[r].clock + CodeExpires \in Nat
  BY <1>1, PhoneVerificationAssumption DEF NextCounter, Signup, Opt, Request
<1>3. /\ DOMAIN set = DOMAIN writes[r].set \cup {"attempts", "counter", "code", "expiry"}
      /\ set["attempts"] = 0 /\ set["code"] = c
      /\ set["counter"] = NextCounter(r) /\ set["expiry"] = req[r].clock + CodeExpires
      /\ \A k \in DOMAIN writes[r].set \ {"attempts", "counter", "code", "expiry"} :
           set[k] = writes[r].set[k]
  BY DEF With, CodeFields
<1>4. v = [set |-> set, add |-> writes[r].add, del |-> writes[r].del]
  BY <1>1, UpdateParts
<1> HIDE DEF set, v
<1>5. IsUpdate(v)
  BY <1>1, <1>2, <1>3, <1>4 DEF IsUpdate, Annotations, Numbers, Opt
<1> QED
  BY <1>5 DEF v, set

LEMMA InitSendType ==
  ASSUME TypeOK, NEW r \in Requests, InitSend(r)
  PROVE  TypeOK'
<1>1. InFlight(r) /\ HandlerTypeOK(r) /\ req[r] \in Request /\ req[r].kind = "init"
  BY BaseType DEF InitSend, InFlight, HandlerTypeOK, TypeOK
<1>2. StoreTypeOK' /\ LogGrows
  BY StoreUnchanged DEF TypeOK, InitSend
<1>3. ASSUME NEW a \in Answers,
             req' = [req EXCEPT ![r].pc = "get", ![r].answer = a],
             writes' = [writes EXCEPT ![r] = writes'[r]], IsUpdate(writes'[r]),
             sms' \in [Codes -> Opt(Message)]
      PROVE  TypeOK'
  <2>1. /\ req'[r] = [req[r] EXCEPT !.pc = "get", !.answer = a]
        /\ req' = [req EXCEPT ![r] = req'[r]]
    BY <1>3 DEF TypeOK
  <2>2. a # None
    BY NoneAssumption
  <2>3. req'[r] \in Request /\ req'[r].pc = "get" /\ req'[r].answer # None /\ SameRequest(r)
    BY <1>1, <2>1, <2>2 DEF Request, SameRequest, Opt
  <2> QED
    BY <1>1, <1>2, <1>3, <2>1, <2>3, HandlerStable, RequestStepType DEF TypeOK, InitSend
<1>4. ASSUME NEW c \in Codes,
             sms' = [sms EXCEPT ![c] = [user |-> req[r].user, phone |-> req[r].phone, at |-> req[r].clock]],
             writes' = [writes EXCEPT ![r].set = With(@, CodeFields(r, c))],
             req' = [req EXCEPT ![r].pc = "get", ![r].answer = "ok"]
      PROVE  TypeOK'
  <2>1. writes'[r] = [writes[r] EXCEPT !.set = With(writes[r].set, CodeFields(r, c))]
    BY <1>4 DEF TypeOK
  <2>2. IsUpdate(writes'[r])
    BY <2>1, CodeIsUpdate DEF InitSend
  <2>3. writes' = [writes EXCEPT ![r] = writes'[r]]
    BY <1>4 DEF TypeOK
  <2>4. sms' \in [Codes -> Opt(Message)]
    BY <1>1, <1>4 DEF TypeOK, Opt, Message, HandlerTypeOK, Request
  <2> QED
    BY <1>3, <1>4, <2>2, <2>3, <2>4 DEF Answers
<1>5. ASSUME UNCHANGED <<writes, sms>>,
             req' = [req EXCEPT ![r].pc = "get", ![r].answer = "internal"]
      PROVE  TypeOK'
  BY <1>3, <1>5 DEF TypeOK, Answers
<1> QED
  BY <1>4, <1>5 DEF InitSend

LEMMA VerifyIsUpdate ==
  ASSUME NEW s \in Signup, NEW c
  PROVE  IsUpdate(VerifyWrites(s, Verdict(s, c))) /\ Verdict(s, c) \in Answers
<1> DEFINE w == VerifyWrites(s, Verdict(s, c))
<1>1. Verdict(s, c) \in Answers
  BY DEF Verdict, Answers
<1>2. Verdict(s, c) = "invalid" => s.attempts \in Nat
  BY PhoneVerificationAssumption DEF Verdict, AttemptsUsedUp, Attempts, Signup, Opt
<1>3. CASE Verdict(s, c) = "ok"
  <2>1. /\ w = [set |-> Cleared, add |-> {}, del |-> {"verification-required"}]
        /\ DOMAIN Cleared = {"code", "attempts", "counter", "initAt", "expiry"}
        /\ \A k \in DOMAIN Cleared : Cleared[k] = None
    BY <1>3 DEF VerifyWrites, Cleared
  <2> QED
    BY <1>1, <2>1 DEF IsUpdate, Annotations, Numbers, States, Opt
<1>4. CASE Verdict(s, c) = "invalid"
  <2>1. w = [set |-> [attempts |-> s.attempts + 1], add |-> {}, del |-> {}]
    BY <1>4 DEF VerifyWrites, NoChange
  <2> QED
    BY <1>1, <1>2, <1>4, <2>1 DEF IsUpdate, Annotations, Numbers, States, Opt
<1>5. CASE Verdict(s, c) \notin {"ok", "invalid"} /\ s.attempts = None
  <2>1. w = [set |-> [attempts |-> AttemptsAllowed], add |-> {}, del |-> {}]
    BY <1>5 DEF VerifyWrites, NoChange
  <2> QED
    BY <1>1, <2>1, PhoneVerificationAssumption DEF IsUpdate, Annotations, Numbers, States, Opt
<1>6. CASE Verdict(s, c) \notin {"ok", "invalid"} /\ s.attempts # None
  BY <1>1, <1>6, NoChangeIsUpdate DEF VerifyWrites
<1> QED
  BY <1>1, <1>3, <1>4, <1>5, <1>6

LEMMA VerifyDecideType ==
  ASSUME TypeOK, NEW r \in Requests, VerifyDecide(r)
  PROVE  TypeOK'
<1> DEFINE a == Verdict(Base(r), req[r].code)
           w == VerifyWrites(Base(r), a)
<1>1. InFlight(r) /\ HandlerTypeOK(r) /\ Base(r) \in Signup
  BY BaseType DEF VerifyDecide, InFlight
<1>2. IsUpdate(w) /\ a \in Answers
  BY <1>1, VerifyIsUpdate
<1> HIDE DEF a, w
<1>3. StoreTypeOK' /\ LogGrows
  BY StoreUnchanged DEF TypeOK, VerifyDecide
<1>4. UNCHANGED <<sms, lookups>>
  BY DEF VerifyDecide
<1>5. CASE Answer(r, "phoneInUse")
  BY <1>3, <1>4, <1>5, AnswerType, RequestStepType DEF Answers, TypeOK
<1>6. CASE Update(r, w, a)
  <2>1. /\ req' = [req EXCEPT ![r] = req'[r]]
        /\ req'[r] \in Request /\ req'[r].pc = "get" /\ req'[r].answer # None
        /\ SameRequest(r)
        /\ writes' = [writes EXCEPT ![r] = writes'[r]] /\ IsUpdate(writes'[r])
    BY <1>2, <1>6, UpdateType, NoneAssumption
  <2> QED
    BY <1>1, <1>3, <1>4, <2>1, HandlerStable, RequestStepType DEF TypeOK
<1> QED
  BY <1>5, <1>6 DEF VerifyDecide, w, a

\* A failed try.
LEMMA RetryStepType ==
  ASSUME TypeOK, NEW r \in Requests, req[r].pc \in {"get", "put"}, Retry(r),
         StoreTypeOK', LogGrows, UNCHANGED <<sms, lookups>>
  PROVE  TypeOK'
<1>1. InFlight(r) /\ HandlerTypeOK(r)
  BY BaseType DEF InFlight
<1>2. /\ req' = [req EXCEPT ![r] = req'[r]]
      /\ req'[r] \in Request
      /\ \/ req'[r].pc = "get" /\ req'[r].answer = req[r].answer /\ SameRequest(r)
         \/ ~InFlight(r)'
      /\ writes' = [writes EXCEPT ![r] = writes'[r]]
      /\ IsUpdate(writes'[r])
  BY <1>1, RetryType
<1>3. InFlight(r)' => HandlerTypeOK(r)'
  BY <1>1, <1>2, HandlerStable DEF HandlerTypeOK
<1> QED
  BY <1>2, <1>3, RequestStepType DEF TypeOK

LEMMA GetType ==
  ASSUME TypeOK, NEW r \in Requests, Get(r)
  PROVE  TypeOK'
<1>1. InFlight(r) /\ HandlerTypeOK(r) /\ req[r] \in Request
  BY BaseType DEF Get, InFlight, TypeOK
<1>2. StoreTypeOK' /\ LogGrows /\ UNCHANGED <<sms, lookups>>
  BY StoreUnchanged DEF TypeOK, Get
<1>3. CASE Retry(r)
  BY <1>2, <1>3, RetryStepType DEF Get
<1>4. CASE /\ Cached(req[r].at, req[r].user) # Absent
           /\ req' = [req EXCEPT ![r].pc = "put", ![r].copy = seen[req[r].at][req[r].user]]
           /\ UNCHANGED writes
  <2>1. /\ req'[r] = [req[r] EXCEPT !.pc = "put", !.copy = seen[req[r].at][req[r].user]]
        /\ req' = [req EXCEPT ![r] = req'[r]]
    BY <1>4 DEF TypeOK
  <2>2. /\ seen[req[r].at][req[r].user] \in 1 .. Len(log[req[r].user])
        /\ seen[req[r].at][req[r].user] \in Nat
    BY <1>1 DEF TypeOK, StoreTypeOK, HandlerTypeOK
  <2>3. /\ req'[r] \in Request /\ req'[r].pc = "put" /\ req'[r].answer = req[r].answer
        /\ req'[r].copy = seen[req[r].at][req[r].user]
        /\ SameRequest(r)
    BY <1>1, <2>1, <2>2 DEF Request, SameRequest
  <2>4. HandlerTypeOK(r)'
    <3>1. req[r].answer # None
      BY <1>1 DEF Get, HandlerTypeOK
    <3> QED
      BY <1>1, <1>2, <1>4, <2>2, <2>3, <3>1, HandlerStable DEF Cached
  <2> QED
    BY <1>2, <1>4, <2>1, <2>3, <2>4, RequestStepType DEF TypeOK
<1> QED
  BY <1>3, <1>4 DEF Get

\* The version r writes is a UserSignup.
LEMMA WrittenType ==
  ASSUME TypeOK, NEW r \in Requests, req[r].pc = "put"
  PROVE  /\ req[r].user \in Users
         /\ log[req[r].user][req[r].copy] \in Signup
         /\ Written(r) \in Signup
<1>1. HandlerTypeOK(r)
  BY BaseType DEF InFlight
<1>2. log[req[r].user][req[r].copy] \in Signup
  BY <1>1, LatestType DEF TypeOK, HandlerTypeOK
<1> QED
  BY <1>1, <1>2, ApplyType DEF TypeOK, Written, HandlerTypeOK

LEMMA PutType ==
  ASSUME TypeOK, NEW r \in Requests, Put(r)
  PROVE  TypeOK'
<1>1. req[r].pc = "put" /\ InFlight(r) /\ HandlerTypeOK(r) /\ req[r] \in Request
  BY BaseType DEF Put, InFlight, TypeOK
<1>2. StoreTypeOK' /\ LogGrows
  BY <1>1, WrittenType, NewVersionType DEF Put, TypeOK
<1>3. req[r].answer \in Answers
  BY <1>1 DEF HandlerTypeOK, Request, Opt
<1>4. sms' \in [Codes -> Opt(Message)] /\ lookups' \subseteq Users \X Phones
  BY DEF Put, TypeOK
<1> QED
  BY <1>2, <1>3, <1>4, AnswerType, RequestStepType DEF Put

LEMMA PutErrorType ==
  ASSUME TypeOK, NEW r \in Requests, PutError(r)
  PROVE  TypeOK'
<1>1. CASE UNCHANGED <<log, seen>>
  <2>1. StoreTypeOK' /\ LogGrows
    BY <1>1, StoreUnchanged DEF TypeOK, PutError, storeVars
  <2> QED
    BY <2>1, RetryStepType DEF PutError
<1>2. CASE NewVersion(req[r].user, Written(r))
  <2>1. StoreTypeOK' /\ LogGrows
    BY <1>2, WrittenType, NewVersionType DEF PutError, TypeOK
  <2> QED
    BY <2>1, RetryStepType DEF PutError
<1> QED
  BY <1>1, <1>2 DEF PutError

LEMMA PutConflictType ==
  ASSUME TypeOK, NEW r \in Requests, PutConflict(r)
  PROVE  TypeOK'
BY StoreUnchanged, RetryStepType DEF TypeOK, PutConflict

LEMMA CrashType ==
  ASSUME TypeOK, NEW p \in Replicas, Crash(p)
  PROVE  TypeOK'
<1> DEFINE lost(r) == InFlight(r) /\ req[r].at = p
<1>1. StoreTypeOK' /\ LogGrows
  BY DEF TypeOK, StoreTypeOK, Crash, LogGrows
<1>2. ASSUME NEW r \in Requests
      PROVE  /\ req'[r] \in Request
             /\ InFlight(r)' => HandlerTypeOK(r)'
             /\ IsUpdate(writes'[r])
  <2>1. CASE lost(r)
    <3>1. req'[r] = Done(r, "lost") /\ writes'[r] = NoChange
      BY <2>1 DEF Crash
    <3>2. Done(r, "lost") \in Request /\ Done(r, "lost").pc = "done"
      BY DoneType DEF TypeOK, Answers
    <3> QED
      BY <3>1, <3>2, NoChangeIsUpdate DEF InFlight
  <2>2. CASE ~lost(r)
    <3>1. req'[r] = req[r] /\ writes'[r] = writes[r]
      BY <2>2 DEF Crash
    <3>2. InFlight(r)' => HandlerTypeOK(r)
      BY <3>1 DEF TypeOK, InFlight
    <3> QED
      BY <1>1, <3>1, <3>2, HandlerStable DEF TypeOK, HandlerTypeOK, SameRequest
  <2> QED
    BY <2>1, <2>2
<1>3. /\ req' = [r \in Requests |-> req'[r]]
      /\ writes' = [r \in Requests |-> writes'[r]]
  BY DEF Crash
<1>4. req' \in [Requests -> Request]
  BY <1>2, <1>3
<1>5. sms' \in [Codes -> Opt(Message)] /\ lookups' \subseteq Users \X Phones
  BY DEF Crash, TypeOK
<1> QED
  BY <1>1, <1>2, <1>3, <1>4, <1>5 DEF TypeOK, IsUpdate

-----------------------------------------------------------------------------
(* Type correctness.                                                       *)

LEMMA InitType == Init => TypeOK
<1> SUFFICES ASSUME Init
             PROVE  TypeOK
  OBVIOUS
<1>1. \A score \in Scores, activated \in Counters : Fresh(score, activated) \in Signup
  BY PhoneVerificationAssumption DEF Fresh, Signup, States, Opt
<1>2. /\ log \in [Users -> Seq(Signup \cup {Absent})]
      /\ \A u \in Users : Len(log[u]) = 1
  <2>1. \A u \in Users : \E score \in Scores, activated \in Counters :
          log[u] = <<Fresh(score, activated)>>
    BY DEF Init
  <2>2. ASSUME NEW u \in Users
        PROVE  log[u] \in Seq(Signup \cup {Absent}) /\ Len(log[u]) = 1
    <3>1. PICK s \in Signup : log[u] = <<s>>
      BY <1>1, <2>1
    <3> QED
      BY <3>1
  <2>3. DOMAIN log = Users /\ log = [u \in Users |-> log[u]]
    BY DEF Init
  <2> QED
    BY <2>2, <2>3
<1>3. StoreTypeOK
  <2>1. seen = [p \in Replicas |-> [u \in Users |-> 1]] /\ banned = {} /\ now = 0
    BY DEF Init
  <2>2. /\ seen \in [Replicas -> [Users -> Nat]]
        /\ \A p \in Replicas, u \in Users : seen[p][u] = 1
    BY <2>1
  <2>3. ASSUME NEW u \in Users
        PROVE  /\ Len(log[u]) > 0
               /\ \A p \in Replicas : seen[p][u] \in 1 .. Len(log[u])
    <3>1. Len(log[u]) = 1 /\ 1 \in 1 .. 1
      BY <1>2
    <3> QED
      BY <2>2, <3>1
  <2> QED
    BY <1>2, <2>1, <2>2, <2>3 DEF StoreTypeOK
<1>4. Idle \in Request /\ Idle.pc = "idle"
  BY DEF Idle, Request, Opt
<1> QED
  BY <1>3, <1>4, NoChangeIsUpdate DEF Init, TypeOK, InFlight, Opt

LEMMA NextType == TypeOK /\ [Next]_vars => TypeOK'
<1> SUFFICES ASSUME TypeOK, [Next]_vars
             PROVE  TypeOK'
  OBVIOUS
<1>1. CASE UNCHANGED vars
  <2>1. StoreTypeOK'
    BY <1>1, StoreUnchanged DEF TypeOK, vars, storeVars
  <2>2. UNCHANGED <<log, req, writes, sms, lookups>>
    BY <1>1 DEF vars
  <2>3. \A r \in Requests : InFlight(r)' => HandlerTypeOK(r)'
    BY <2>2 DEF TypeOK, InFlight, HandlerTypeOK, Base
  <2> QED
    BY <2>1, <2>2, <2>3 DEF TypeOK, IsUpdate
<1>2. ASSUME NEW r \in Requests, Arrive(r)
      PROVE  TypeOK'
  BY <1>2, InitStartType, VerifyStartType DEF Arrive
<1>3. ASSUME NEW r \in Requests, Handle(r)
      PROVE  TypeOK'
  BY <1>3, InitCheckPhoneType, InitLookupType, InitSendType, VerifyDecideType,
     GetType, PutType, PutConflictType, PutErrorType DEF Handle
<1>4. ASSUME NEW p \in Replicas, Crash(p)
      PROVE  TypeOK'
  BY <1>4, CrashType
<1>5. CASE StoreNext /\ UNCHANGED phoneVars
  <2>1. StoreTypeOK' /\ LogGrows
    BY <1>5, StoreStepType DEF TypeOK
  <2>2. UNCHANGED <<req, writes, sms, lookups>>
    BY <1>5 DEF phoneVars
  <2>3. ASSUME NEW r \in Requests, InFlight(r)'
        PROVE  HandlerTypeOK(r)'
    BY <2>1, <2>2, <2>3, HandlerStable DEF TypeOK, InFlight, HandlerTypeOK, SameRequest
  <2> QED
    BY <2>1, <2>2, <2>3 DEF TypeOK, IsUpdate
<1>6. CASE Finished
  BY <1>1, <1>6 DEF Finished
<1> QED
  BY <1>1, <1>2, <1>3, <1>4, <1>5, <1>6 DEF Next

\* Every version of a UserSignup is a UserSignup, and a handler never holds a version
\* that does not exist or belongs to a deleted one, whatever the caches, conflicts,
\* failures and crashes (pkg/verification/service/verification_service.go).
THEOREM TypeCorrect == Spec => []TypeOK
<1> QED
  BY InitType, NextType, PTL DEF Spec

-----------------------------------------------------------------------------
(* One version.                                                            *)

\* LimitsHold, StoredCodeWasSent and CodeComplete of one version.
VersionOK(u, s) ==
  /\ s.counter # None => s.counter <= DailyLimit
  /\ s.attempts # None => s.attempts <= AttemptsAllowed
  /\ s.code # None => /\ sms[s.code] # None
                      /\ sms[s.code].user = u
                      /\ s.expiry = sms[s.code].at + CodeExpires
                      /\ s.attempts # None
                      /\ s.counter # None
  /\ s.code = None <=> s.expiry = None

VersionsOK == \A u \in Users : \A s \in Versions(u) : VersionOK(u, s)

LEMMA VersionsOKIff == VersionsOK <=> LimitsHold /\ StoredCodeWasSent /\ CodeComplete
BY DEF VersionsOK, VersionOK, LimitsHold, StoredCodeWasSent, CodeComplete

\* Messages are not taken back.
SmsGrows == \A c \in Codes : sms[c] # None => sms'[c] = sms[c]

LEMMA VersionStable ==
  ASSUME NEW u \in Users, NEW s \in Signup, VersionOK(u, s), SmsGrows
  PROVE  VersionOK(u, s)'
BY DEF VersionOK, SmsGrows, Signup, Opt

\* An update that is all right keeps any version all right.
LEMMA ApplyOK ==
  ASSUME NEW r \in Requests, IsUpdate(writes[r]), UpdateOK(r), NEW s \in Signup,
         VersionOK(req[r].user, s)
  PROVE  VersionOK(req[r].user, Apply(s, writes[r]))
<1> DEFINE set == writes[r].set
           t == Apply(s, writes[r])
<1>1. /\ t \in Signup
      /\ \A k \in Annotations : t[k] = IF k \in DOMAIN set THEN set[k] ELSE s[k]
  BY ApplyType
<1>2. {"counter", "attempts", "code", "expiry"} \subseteq Annotations
  BY DEF Annotations, Numbers
<1>3. /\ t.counter = IF "counter" \in DOMAIN set THEN set.counter ELSE s.counter
      /\ t.attempts = IF "attempts" \in DOMAIN set THEN set.attempts ELSE s.attempts
      /\ t.code = IF "code" \in DOMAIN set THEN set.code ELSE s.code
      /\ t.expiry = IF "expiry" \in DOMAIN set THEN set.expiry ELSE s.expiry
  BY <1>1, <1>2
<1> HIDE DEF t
<1>4. VersionOK(req[r].user, t)
  BY <1>3 DEF VersionOK, UpdateOK
<1> QED
  BY <1>4 DEF t

LEMMA OperatorOK ==
  ASSUME NEW u \in Users, NEW s \in Signup, VersionOK(u, s)
  PROVE  /\ VersionOK(u, Approved(s)) /\ VersionOK(u, Deactivated(s)) /\ VersionOK(u, ApprovedManually(s))
         /\ \A c : VersionOK(u, Reported(s, c))
<1>1. \A k \in {"counter", "attempts", "code", "expiry"} :
        /\ Approved(s)[k] = s[k] /\ Deactivated(s)[k] = s[k] /\ ApprovedManually(s)[k] = s[k]
  BY DEF Signup, Approved, Deactivated, ApprovedManually
<1>2. \A c : \A k \in {"counter", "attempts", "code", "expiry"} : Reported(s, c)[k] = s[k]
  BY DEF Signup, Reported
<1> QED
  BY <1>1, <1>2 DEF VersionOK

-----------------------------------------------------------------------------
(* All versions.                                                           *)

LEMMA VersionsStable ==
  ASSUME TypeOK, VersionsOK, SmsGrows, UNCHANGED log
  PROVE  VersionsOK'
<1>1. \A u \in Users : Versions(u)' = Versions(u) /\ Versions(u) \subseteq Signup
  BY DEF Versions, TypeOK, StoreTypeOK
<1> QED
  BY <1>1, VersionStable DEF VersionsOK

LEMMA VersionsWritten ==
  ASSUME TypeOK, VersionsOK, UNCHANGED <<sms, banned, now>>,
         NEW u \in Users, NEW s \in Signup \cup {Absent},
         s = Absent \/ VersionOK(u, s),
         NewVersion(u, s)
  PROVE  VersionsOK'
<1>1. /\ log'[u] = Append(log[u], s)
      /\ \A v \in Users \ {u} : log'[v] = log[v]
  BY NewVersionType DEF TypeOK
<1>2. SmsGrows
  BY DEF SmsGrows
<1>3. ASSUME NEW v \in Users, NEW x \in Versions(v)'
      PROVE  VersionOK(v, x)'
  <2>1. PICK i \in DOMAIN log'[v] : x = log'[v][i]
    BY <1>3 DEF Versions
  <2>2. x # Absent /\ log[v] \in Seq(Signup \cup {Absent})
    BY <1>3 DEF Versions, TypeOK, StoreTypeOK
  <2>3. CASE i \in DOMAIN log[v] /\ x = log[v][i]
    BY <1>2, <2>2, <2>3, VersionStable DEF VersionsOK, Versions
  <2>4. CASE v = u /\ x = s
    BY <1>2, <2>2, <2>4, VersionStable
  <2> QED
    BY <1>1, <2>1, <2>2, <2>3, <2>4
<1> QED
  BY <1>3 DEF VersionsOK

\* The version a handler decides on, and the one it writes.
LEMMA BaseOK ==
  ASSUME TypeOK, VersionsOK, NEW r \in Requests, InFlight(r)
  PROVE  VersionOK(req[r].user, Base(r))
<1>1. HandlerTypeOK(r) /\ log[req[r].user] \in Seq(Signup \cup {Absent})
  BY BaseType DEF TypeOK, StoreTypeOK, HandlerTypeOK
<1>2. Base(r) \in Versions(req[r].user)
  BY <1>1 DEF HandlerTypeOK, Base, Versions
<1> QED
  BY <1>1, <1>2 DEF VersionsOK, HandlerTypeOK

LEMMA WrittenOK ==
  ASSUME TypeOK, VersionsOK, NEW r \in Requests, req[r].pc = "put", UpdateOK(r)
  PROVE  VersionOK(req[r].user, Written(r))
<1>1. HandlerTypeOK(r) /\ log[req[r].user] \in Seq(Signup \cup {Absent})
  BY BaseType DEF TypeOK, StoreTypeOK, HandlerTypeOK, InFlight
<1>2. log[req[r].user][req[r].copy] \in Versions(req[r].user)
  BY <1>1 DEF HandlerTypeOK, Versions
<1>3. VersionOK(req[r].user, log[req[r].user][req[r].copy])
  BY <1>1, <1>2 DEF VersionsOK, HandlerTypeOK
<1> QED
  BY <1>3, ApplyOK, WrittenType DEF TypeOK, Written

-----------------------------------------------------------------------------
(* What the handlers are about to write.                                   *)

LEMMA UpdateStable ==
  ASSUME LogGrows, SmsGrows, NEW r \in Requests, HandlerTypeOK(r), IsUpdate(writes[r]),
         UpdateOK(r), SameRequest(r), writes'[r] = writes[r],
         req'[r].pc \in {"lookup", "send"} => req[r].pc \in {"lookup", "send"}
  PROVE  UpdateOK(r)'
<1>1. Base(r)' = Base(r)
  BY BaseStable
<1>2. NextCounter(r)' = NextCounter(r)
  BY <1>1 DEF NextCounter
<1> DEFINE set == writes[r].set
<1>3. /\ "code" \in DOMAIN set => set.code \in Opt(Codes)
      /\ req[r].kind = "verify" => req[r].code \in Codes
  BY HostStoreAssumption DEF IsUpdate, HandlerTypeOK
<1> QED
  BY <1>2, <1>3 DEF UpdateOK, SmsGrows, SameRequest, Opt

\* The updates of the other handlers are left alone.
LEMMA UpdatesStep ==
  ASSUME TypeOK, UpdatesHold, LogGrows, SmsGrows, NEW r \in Requests,
         req' = [req EXCEPT ![r] = req'[r]],
         writes' = [writes EXCEPT ![r] = writes'[r]],
         IF InFlight(r)' THEN UpdateOK(r)' ELSE writes'[r] = NoChange
  PROVE  UpdatesHold'
<1>1. ASSUME NEW q \in Requests, q # r
      PROVE  IF InFlight(q)' THEN UpdateOK(q)' ELSE writes'[q] = NoChange
  <2>1. req'[q] = req[q] /\ writes'[q] = writes[q]
    BY <1>1 DEF TypeOK
  <2>2. InFlight(q)' <=> InFlight(q)
    BY <2>1 DEF InFlight
  <2>3. InFlight(q) => HandlerTypeOK(q) /\ UpdateOK(q) /\ IsUpdate(writes[q])
    BY DEF TypeOK, UpdatesHold
  <2> QED
    BY <2>1, <2>2, <2>3, UpdateStable DEF SameRequest, UpdatesHold
<1> QED
  BY <1>1 DEF UpdatesHold

-----------------------------------------------------------------------------
(* One lemma per action.                                                   *)

\* What an action that writes no version has to show.
LEMMA StepOK ==
  ASSUME TypeOK, TypeOK', VersionsOK, UpdatesHold, UNCHANGED storeVars, SmsGrows,
         NEW r \in Requests,
         req' = [req EXCEPT ![r] = req'[r]],
         writes' = [writes EXCEPT ![r] = writes'[r]],
         IF InFlight(r)' THEN UpdateOK(r)' ELSE writes'[r] = NoChange
  PROVE  VersionsOK' /\ UpdatesHold'
<1>1. LogGrows
  BY StoreUnchanged DEF TypeOK
<1> QED
  BY <1>1, VersionsStable, UpdatesStep DEF storeVars

LEMMA SmsUnchanged == UNCHANGED sms => SmsGrows
BY DEF SmsGrows

LEMMA StartOK ==
  ASSUME TypeOK, TypeOK', VersionsOK, UpdatesHold, NEW r \in Requests, MayStart(r),
         NEW kind, NEW p, NEW u, NEW ph, NEW c, NEW a,
         NEW pc \in {"done", "checkPhone", "decide"},
         Start(r, kind, p, u, ph, c, pc, a),
         UNCHANGED <<storeVars, writes, sms, lookups>>
  PROVE  VersionsOK' /\ UpdatesHold'
<1>1. req' = [req EXCEPT ![r] = req'[r]] /\ req'[r].pc = pc
  BY DEF Start, TypeOK, Idle
<1>2. writes[r] = NoChange
  BY DEF MayStart, InFlight, UpdatesHold
<1>3. writes' = [writes EXCEPT ![r] = writes'[r]] /\ writes'[r] = NoChange
  BY <1>2 DEF TypeOK
<1>4. UpdateOK(r)'
  BY <1>1, <1>3 DEF UpdateOK, NoChange, NoFields
<1> QED
  BY <1>1, <1>3, <1>4, SmsUnchanged, StepOK

LEMMA AnswerOK ==
  ASSUME TypeOK, TypeOK', VersionsOK, UpdatesHold, UNCHANGED <<storeVars, sms>>,
         NEW r \in Requests, NEW a \in Answers, Answer(r, a)
  PROVE  VersionsOK' /\ UpdatesHold'
<1>1. writes'[r] = NoChange
  BY DEF Answer, TypeOK
<1> QED
  BY <1>1, AnswerType, SmsUnchanged, StepOK

LEMMA InitCheckPhoneOK ==
  ASSUME TypeOK, TypeOK', VersionsOK, UpdatesHold, NEW r \in Requests, InitCheckPhone(r)
  PROVE  VersionsOK' /\ UpdatesHold'
<1> DEFINE s == Base(r)
           set == With([phone |-> req[r].phone], Reset(s))
           w == [NoChange EXCEPT !.set = set]
<1>1. InFlight(r) /\ HandlerTypeOK(r) /\ s \in Signup /\ UNCHANGED <<storeVars, sms>>
  BY BaseType DEF InitCheckPhone, InFlight
<1>2. IsUpdate(w)
  BY <1>1, ResetIsUpdate DEF HandlerTypeOK, InitCheckPhone
<1>3. /\ w = [set |-> set, add |-> {}, del |-> {}]
      /\ DOMAIN set \subseteq {"phone", "initAt", "counter"}
      /\ "counter" \in DOMAIN set => set["counter"] = 0
  <2>1. w = [set |-> set, add |-> {}, del |-> {}]
    BY DEF NoChange
  <2>2. /\ DOMAIN set \subseteq {"phone", "initAt", "counter"}
        /\ "counter" \in DOMAIN set => set["counter"] = 0
    BY DEF With, Reset, NoFields
  <2> QED
    BY <2>1, <2>2
<1>4. "counter" \in DOMAIN set <=> WindowOver(s)
  BY DEF With, Reset, NoFields
<1>5. ~LimitReached(s) =>
        1 + (IF "counter" \in DOMAIN set THEN 0 ELSE IF s.counter = None THEN 0 ELSE s.counter)
          <= DailyLimit
  BY <1>1, <1>4, PhoneVerificationAssumption DEF LimitReached, Counter, Signup, Opt
<1>6. CASE Answer(r, "phoneInUse")
  BY <1>1, <1>6, AnswerOK DEF Answers
<1> HIDE DEF set
<1>7. CASE Update(r, w, "limit")
  <2>1. /\ req' = [req EXCEPT ![r] = req'[r]] /\ req'[r].pc = "get"
        /\ writes' = [writes EXCEPT ![r] = writes'[r]] /\ writes'[r] = w
    BY <1>2, <1>7, UpdateType DEF Answers
  <2>2. UpdateOK(r)'
    BY <1>3, <2>1, PhoneVerificationAssumption, HostStoreAssumption DEF UpdateOK
  <2> QED
    BY <1>1, <2>1, <2>2, SmsUnchanged, StepOK DEF InFlight
<1>8. CASE /\ ~LimitReached(s)
           /\ req' = [req EXCEPT ![r].pc = IF LookupApplies(r) THEN "lookup" ELSE "send",
                                 ![r].clock = now]
           /\ writes' = [writes EXCEPT ![r] = w]
  <2>1. /\ req' = [req EXCEPT ![r] = req'[r]] /\ req'[r].pc \in {"lookup", "send"}
        /\ SameRequest(r)
    BY <1>8 DEF TypeOK, SameRequest, Request
  <2>2. writes' = [writes EXCEPT ![r] = writes'[r]] /\ writes'[r] = w
    BY <1>8 DEF TypeOK
  <2>3. Base(r)' = s
    BY <1>1, <2>1, BaseStable, StoreUnchanged DEF TypeOK
  <2>4. NextCounter(r)' <= DailyLimit
    BY <1>3, <1>5, <1>8, <2>2, <2>3 DEF NextCounter
  <2>5. UpdateOK(r)'
    BY <1>3, <2>1, <2>2, <2>4, PhoneVerificationAssumption, HostStoreAssumption DEF UpdateOK
  <2> QED
    BY <1>1, <2>1, <2>2, <2>5, SmsUnchanged, StepOK DEF InFlight
<1> QED
  BY <1>6, <1>7, <1>8 DEF InitCheckPhone, set

LEMMA InitLookupOK ==
  ASSUME TypeOK, TypeOK', VersionsOK, UpdatesHold, NEW r \in Requests, InitLookup(r)
  PROVE  VersionsOK' /\ UpdatesHold'
<1>1. /\ InFlight(r) /\ HandlerTypeOK(r) /\ IsUpdate(writes[r]) /\ UpdateOK(r)
      /\ UNCHANGED <<storeVars, sms>>
  BY BaseType DEF InitLookup, InFlight, TypeOK, UpdatesHold
<1>2. Base(r) = log[req[r].user][req[r].base]
  BY DEF Base
<1>3. ASSUME SameRequest(r), req' = [req EXCEPT ![r] = req'[r]], req'[r].pc \in {"get", "send"},
             writes' = [writes EXCEPT ![r] = writes'[r]],
             writes'[r] = writes[r]
             \/ \E risk : /\ writes'[r].set = With(writes[r].set, [risk |-> risk])
                          /\ writes'[r].add \in {writes[r].add, {"rejected"}}
                          /\ writes'[r].del = writes[r].del
      PROVE  VersionsOK' /\ UpdatesHold'
  <2>1. /\ \A k \in {"code", "expiry", "attempts", "counter"} :
             /\ k \in DOMAIN writes'[r].set <=> k \in DOMAIN writes[r].set
             /\ k \in DOMAIN writes[r].set => writes'[r].set[k] = writes[r].set[k]
        /\ writes'[r].add \in {writes[r].add, {"rejected"}}
        /\ writes'[r].del = writes[r].del
    BY <1>3 DEF With
  <2>2. Base(r)' = Base(r)
    BY <1>1, <1>3, BaseStable, StoreUnchanged DEF TypeOK
  <2>3. NextCounter(r)' = NextCounter(r)
    BY <2>1, <2>2 DEF NextCounter
  <2>4. UpdateOK(r)'
    BY <1>1, <1>3, <2>1, <2>3 DEF UpdateOK, SameRequest, InitLookup
  <2> QED
    BY <1>1, <1>3, <2>4, SmsUnchanged, StepOK DEF InFlight
<1>4. CASE Goto(r, "send") /\ UNCHANGED writes
  BY <1>3, <1>4, GotoType DEF TypeOK
<1>5. ASSUME NEW risk \in {"low", "high"}
      PROVE  LET w == [writes[r] EXCEPT !.set = With(@, [risk |-> risk])] IN
               /\ Goto(r, "send") /\ writes' = [writes EXCEPT ![r] = w]
                  => VersionsOK' /\ UpdatesHold'
               /\ /\ req' = [req EXCEPT ![r].pc = "get", ![r].answer = "rejected"]
                  /\ writes' = [writes EXCEPT ![r] = [w EXCEPT !.add = {"rejected"}]]
                  => VersionsOK' /\ UpdatesHold'
  <2> DEFINE set == With(writes[r].set, [risk |-> risk])
             w == [writes[r] EXCEPT !.set = set]
             x == [w EXCEPT !.add = {"rejected"}]
  <2>1. /\ w = [set |-> set, add |-> writes[r].add, del |-> writes[r].del]
        /\ x = [set |-> set, add |-> {"rejected"}, del |-> writes[r].del]
    BY <1>1, UpdateParts
  <2> HIDE DEF w, x
  <2>2. ASSUME Goto(r, "send"), writes' = [writes EXCEPT ![r] = w]
        PROVE  VersionsOK' /\ UpdatesHold'
    BY <1>3, <2>1, <2>2, GotoType DEF TypeOK
  <2>3. ASSUME req' = [req EXCEPT ![r].pc = "get", ![r].answer = "rejected"],
               writes' = [writes EXCEPT ![r] = x]
        PROVE  VersionsOK' /\ UpdatesHold'
    <3>1. /\ req' = [req EXCEPT ![r] = req'[r]]
          /\ req'[r] = [req[r] EXCEPT !.pc = "get", !.answer = "rejected"]
          /\ req[r] \in Request
      BY <2>3 DEF TypeOK
    <3>2. req'[r].pc = "get" /\ SameRequest(r)
      BY <3>1 DEF SameRequest, Request
    <3>3. writes' = [writes EXCEPT ![r] = writes'[r]] /\ writes'[r] = x
      BY <2>3 DEF TypeOK
    <3>4. /\ x.set = With(writes[r].set, [risk |-> risk])
          /\ x.add = {"rejected"} /\ x.del = writes[r].del
      BY <2>1
    <3> QED
      BY <1>3, <3>1, <3>2, <3>3, <3>4
  <2> QED
    BY <2>2, <2>3 DEF w, x
<1> QED
  BY <1>4, <1>5 DEF InitLookup

LEMMA InitSendOK ==
  ASSUME TypeOK, TypeOK', VersionsOK, UpdatesHold, NEW r \in Requests, InitSend(r)
  PROVE  VersionsOK' /\ UpdatesHold'
<1>1. /\ InFlight(r) /\ HandlerTypeOK(r) /\ IsUpdate(writes[r]) /\ UpdateOK(r)
      /\ req[r] \in Request /\ req[r].pc = "send" /\ UNCHANGED storeVars
  BY BaseType DEF InitSend, InFlight, TypeOK, UpdatesHold
<1>2. ASSUME NEW a, req' = [req EXCEPT ![r].pc = "get", ![r].answer = a]
      PROVE  req' = [req EXCEPT ![r] = req'[r]] /\ req'[r].pc = "get" /\ SameRequest(r)
  <2>1. req'[r] = [req[r] EXCEPT !.pc = "get", !.answer = a]
    BY <1>2 DEF TypeOK
  <2> QED
    BY <1>1, <1>2, <2>1 DEF TypeOK, SameRequest, Request
<1>3. CASE UNCHANGED <<writes, sms>> /\ req' = [req EXCEPT ![r].pc = "get", ![r].answer = "internal"]
  <2>1. LogGrows /\ SmsGrows
    BY <1>1, <1>3, SmsUnchanged, StoreUnchanged DEF TypeOK
  <2>2. /\ req' = [req EXCEPT ![r] = req'[r]] /\ req'[r].pc = "get" /\ SameRequest(r)
        /\ writes' = [writes EXCEPT ![r] = writes'[r]] /\ writes'[r] = writes[r]
    BY <1>2, <1>3 DEF TypeOK
  <2>3. UpdateOK(r)'
    BY <1>1, <2>1, <2>2, UpdateStable
  <2> QED
    BY <1>1, <2>1, <2>2, <2>3, StepOK DEF InFlight
<1>4. ASSUME NEW c \in Codes, sms[c] = None,
             sms' = [sms EXCEPT ![c] = [user |-> req[r].user, phone |-> req[r].phone, at |-> req[r].clock]],
             writes' = [writes EXCEPT ![r].set = With(@, CodeFields(r, c))],
             req' = [req EXCEPT ![r].pc = "get", ![r].answer = "ok"]
      PROVE  VersionsOK' /\ UpdatesHold'
  <2> DEFINE set == With(writes[r].set, CodeFields(r, c))
             w == [writes[r] EXCEPT !.set = set]
  <2>1. /\ sms'[c] = [user |-> req[r].user, phone |-> req[r].phone, at |-> req[r].clock]
        /\ \A d \in Codes \ {c} : sms'[d] = sms[d]
    BY <1>4 DEF TypeOK
  <2>2. sms'[c] # None
    <3>1. req[r].user \in Users /\ req[r].phone \in Phones /\ req[r].clock \in Nat
      BY <1>1 DEF HandlerTypeOK, InitSend, Request
    <3> QED
      BY <2>1, <3>1, NoneAssumption DEF Message
  <2>3. SmsGrows
    BY <1>4, <2>1 DEF SmsGrows
  <2>4. writes' = [writes EXCEPT ![r] = writes'[r]] /\ writes'[r] = w
    BY <1>4 DEF TypeOK
  <2>5. w = [set |-> set, add |-> writes[r].add, del |-> writes[r].del]
    BY <1>1, UpdateParts
  <2>6. /\ DOMAIN set = DOMAIN writes[r].set \cup {"attempts", "counter", "code", "expiry"}
        /\ set["attempts"] = 0 /\ set["code"] = c
        /\ set["counter"] = NextCounter(r) /\ set["expiry"] = req[r].clock + CodeExpires
    BY DEF With, CodeFields
  <2> HIDE DEF set, w
  <2>7. /\ req' = [req EXCEPT ![r] = req'[r]] /\ req'[r].pc = "get" /\ SameRequest(r)
    BY <1>2, <1>4
  <2>8. NextCounter(r) <= DailyLimit /\ NextCounter(r) \in Nat
    <3>1. Base(r) \in Signup
      BY <1>1, BaseType
    <3> QED
      BY <1>1, <3>1 DEF UpdateOK, NextCounter, Signup, Opt
  <2>9. writes[r].add \subseteq {"rejected"} /\ writes[r].del = {}
    BY <1>1 DEF UpdateOK, HandlerTypeOK
  <2>10. UpdateOK(r)'
    <3>1. /\ c # None /\ 0 # None /\ NextCounter(r) # None
          /\ req[r].clock + CodeExpires # None /\ req[r].clock + CodeExpires \in Nat
      BY <1>1, <2>8, HostStoreAssumption, PhoneVerificationAssumption DEF Request
    <3> QED
      BY <2>1, <2>2, <2>4, <2>5, <2>6, <2>7, <2>8, <2>9, <3>1, PhoneVerificationAssumption
         DEF UpdateOK, SameRequest
  <2> QED
    BY <1>1, <2>3, <2>4, <2>7, <2>10, StepOK DEF InFlight
<1> QED
  BY <1>3, <1>4 DEF InitSend

\* A verdict is only "ok" for the stored code, and only "invalid" below the limit.
LEMMA VerifyWritesOK ==
  ASSUME TypeOK, VersionsOK, NEW r \in Requests, VerifyDecide(r), UNCHANGED <<sms>>,
         SameRequest(r), req'[r].pc = "get",
         writes'[r] = VerifyWrites(Base(r), Verdict(Base(r), req[r].code))
  PROVE  UpdateOK(r)'
<1> DEFINE s == Base(r)
           verdict == Verdict(s, req[r].code)
           w == VerifyWrites(s, verdict)
<1>1. /\ InFlight(r) /\ HandlerTypeOK(r) /\ s \in Signup
      /\ req[r].kind = "verify" /\ req[r].code \in Codes
  BY BaseType, HostStoreAssumption DEF VerifyDecide, InFlight, HandlerTypeOK
<1>2. VersionOK(req[r].user, s)
  BY <1>1, BaseOK
<1> HIDE DEF s
<1>3. CASE verdict = "ok"
  <2>1. s.code = req[r].code /\ s.expiry # None
    BY <1>3 DEF Verdict
  <2>2. sms[req[r].code] # None /\ sms[req[r].code].user = req[r].user
    BY <1>2, <2>1 DEF VersionOK
  <2>3. w = [set |-> Cleared, add |-> {}, del |-> {"verification-required"}]
    BY <1>3 DEF VerifyWrites
  <2>4. /\ DOMAIN Cleared = {"code", "attempts", "counter", "initAt", "expiry"}
        /\ \A k \in DOMAIN Cleared : Cleared[k] = None
    BY DEF Cleared
  <2> HIDE DEF w
  <2> QED
    BY <1>1, <2>2, <2>3, <2>4 DEF UpdateOK, SameRequest, w, s
<1>4. CASE verdict = "invalid"
  <2>1. /\ s.attempts \in Nat /\ s.attempts + 1 <= AttemptsAllowed
        /\ s.attempts + 1 # None
    BY <1>1, <1>4, PhoneVerificationAssumption, HostStoreAssumption
       DEF Verdict, AttemptsUsedUp, Attempts, Signup, Opt
  <2>2. w = [set |-> [attempts |-> s.attempts + 1], add |-> {}, del |-> {}]
    BY <1>4 DEF VerifyWrites, NoChange
  <2> HIDE DEF w
  <2> QED
    BY <2>1, <2>2 DEF UpdateOK, w, s
<1>5. CASE verdict \notin {"ok", "invalid"}
  <2>1. \/ w = [set |-> [attempts |-> AttemptsAllowed], add |-> {}, del |-> {}]
        \/ w = [set |-> NoFields, add |-> {}, del |-> {}]
    BY <1>5 DEF VerifyWrites, NoChange
  <2> HIDE DEF w
  <2> QED
    BY <2>1, PhoneVerificationAssumption, HostStoreAssumption DEF UpdateOK, NoFields, w, s
<1> QED
  BY <1>3, <1>4, <1>5

LEMMA VerifyDecideOK ==
  ASSUME TypeOK, TypeOK', VersionsOK, UpdatesHold, NEW r \in Requests, VerifyDecide(r)
  PROVE  VersionsOK' /\ UpdatesHold'
<1> DEFINE a == Verdict(Base(r), req[r].code)
           w == VerifyWrites(Base(r), a)
<1>1. Base(r) \in Signup /\ UNCHANGED <<storeVars, sms>>
  BY BaseType DEF VerifyDecide, InFlight
<1>2. IsUpdate(w) /\ a \in Answers
  BY <1>1, VerifyIsUpdate
<1>3. CASE Answer(r, "phoneInUse")
  BY <1>1, <1>3, AnswerOK DEF Answers
<1>4. CASE Update(r, w, a)
  <2> HIDE DEF a, w
  <2>1. /\ req' = [req EXCEPT ![r] = req'[r]] /\ req'[r].pc = "get" /\ SameRequest(r)
        /\ writes' = [writes EXCEPT ![r] = writes'[r]] /\ writes'[r] = w
    BY <1>2, <1>4, UpdateType
  <2>2. UpdateOK(r)'
    BY <1>1, <2>1, VerifyWritesOK DEF w, a
  <2> QED
    BY <1>1, <2>1, <2>2, SmsUnchanged, StepOK DEF InFlight
<1> QED
  BY <1>3, <1>4 DEF VerifyDecide

\* After a failed try the handler has the same update, or none.
LEMMA RetryUpdates ==
  ASSUME TypeOK, UpdatesHold, NEW r \in Requests, req[r].pc \in {"get", "put"}, Retry(r),
         LogGrows, SmsGrows
  PROVE  UpdatesHold'
<1>1. InFlight(r) /\ HandlerTypeOK(r) /\ IsUpdate(writes[r]) /\ UpdateOK(r)
  BY BaseType DEF InFlight, TypeOK, UpdatesHold
<1>2. /\ req' = [req EXCEPT ![r] = req'[r]]
      /\ writes' = [writes EXCEPT ![r] = writes'[r]]
      /\ \/ req'[r].pc = "get" /\ SameRequest(r) /\ writes' = writes
         \/ ~InFlight(r)' /\ writes'[r] = NoChange
  BY <1>1, RetryType
<1>3. CASE req'[r].pc = "get" /\ SameRequest(r) /\ writes' = writes
  <2>1. UpdateOK(r)'
    BY <1>1, <1>3, UpdateStable
  <2> QED
    BY <1>2, <1>3, <2>1, UpdatesStep DEF InFlight
<1> QED
  BY <1>2, <1>3, UpdatesStep

LEMMA RetryOK ==
  ASSUME TypeOK, VersionsOK, UpdatesHold, NEW r \in Requests, req[r].pc \in {"get", "put"},
         Retry(r), UNCHANGED <<storeVars, sms>>
  PROVE  VersionsOK' /\ UpdatesHold'
<1>1. LogGrows /\ SmsGrows
  BY StoreUnchanged, SmsUnchanged DEF TypeOK
<1> QED
  BY <1>1, RetryUpdates, VersionsStable DEF storeVars

LEMMA GetOK ==
  ASSUME TypeOK, TypeOK', VersionsOK, UpdatesHold, NEW r \in Requests, Get(r)
  PROVE  VersionsOK' /\ UpdatesHold'
<1>1. /\ InFlight(r) /\ HandlerTypeOK(r) /\ IsUpdate(writes[r]) /\ UpdateOK(r)
      /\ req[r] \in Request /\ UNCHANGED <<storeVars, sms>>
  BY BaseType DEF Get, InFlight, TypeOK, UpdatesHold
<1>2. CASE Retry(r)
  BY <1>1, <1>2, RetryOK DEF Get
<1>3. CASE /\ req' = [req EXCEPT ![r].pc = "put", ![r].copy = seen[req[r].at][req[r].user]]
           /\ UNCHANGED writes
  <2>1. /\ req'[r] = [req[r] EXCEPT !.pc = "put", !.copy = seen[req[r].at][req[r].user]]
        /\ req' = [req EXCEPT ![r] = req'[r]]
        /\ writes' = [writes EXCEPT ![r] = writes'[r]] /\ writes'[r] = writes[r]
    BY <1>3 DEF TypeOK
  <2>2. req'[r].pc = "put" /\ SameRequest(r)
    BY <1>1, <2>1 DEF SameRequest, Request
  <2>3. LogGrows /\ SmsGrows
    BY <1>1, StoreUnchanged, SmsUnchanged DEF TypeOK
  <2>4. UpdateOK(r)'
    BY <1>1, <2>1, <2>2, <2>3, UpdateStable
  <2> QED
    BY <1>1, <2>1, <2>2, <2>3, <2>4, StepOK DEF InFlight
<1> QED
  BY <1>2, <1>3 DEF Get

LEMMA PutOK ==
  ASSUME TypeOK, TypeOK', VersionsOK, UpdatesHold, NEW r \in Requests, Put(r)
  PROVE  VersionsOK' /\ UpdatesHold'
<1>1. UpdateOK(r) /\ HandlerTypeOK(r) /\ req[r].answer \in Answers
  BY BaseType DEF Put, InFlight, UpdatesHold, HandlerTypeOK, TypeOK, Request, Opt
<1>2. VersionOK(req[r].user, Written(r)) /\ Written(r) \in Signup /\ req[r].user \in Users
  BY <1>1, WrittenOK, WrittenType DEF Put
<1>3. VersionsOK'
  BY <1>2, VersionsWritten DEF Put
<1>4. LogGrows /\ SmsGrows
  BY <1>2, NewVersionType, SmsUnchanged DEF Put, TypeOK
<1>5. writes'[r] = NoChange
  BY DEF Put, Answer, TypeOK
<1> QED
  BY <1>1, <1>3, <1>4, <1>5, AnswerType, UpdatesStep DEF Put

LEMMA PutErrorOK ==
  ASSUME TypeOK, TypeOK', VersionsOK, UpdatesHold, NEW r \in Requests, PutError(r)
  PROVE  VersionsOK' /\ UpdatesHold'
<1>1. CASE UNCHANGED <<log, seen>>
  BY <1>1, RetryOK DEF PutError, storeVars
<1>2. CASE NewVersion(req[r].user, Written(r))
  <2>1. UpdateOK(r)
    BY DEF PutError, InFlight, UpdatesHold
  <2>2. VersionOK(req[r].user, Written(r)) /\ Written(r) \in Signup /\ req[r].user \in Users
    BY <2>1, WrittenOK, WrittenType DEF PutError
  <2>3. VersionsOK'
    BY <1>2, <2>2, VersionsWritten DEF PutError
  <2>4. LogGrows /\ SmsGrows
    BY <1>2, <2>2, NewVersionType, SmsUnchanged DEF PutError, TypeOK
  <2> QED
    BY <2>3, <2>4, RetryUpdates DEF PutError
<1> QED
  BY <1>1, <1>2 DEF PutError

LEMMA CrashOK ==
  ASSUME TypeOK, VersionsOK, UpdatesHold, NEW p \in Replicas, Crash(p)
  PROVE  VersionsOK' /\ UpdatesHold'
<1> DEFINE lost(r) == InFlight(r) /\ req[r].at = p
<1>1. LogGrows /\ SmsGrows /\ UNCHANGED log
  BY DEF Crash, LogGrows, SmsGrows, TypeOK, StoreTypeOK
<1>2. ASSUME NEW r \in Requests
      PROVE  IF InFlight(r)' THEN UpdateOK(r)' ELSE writes'[r] = NoChange
  <2>1. CASE lost(r)
    <3>1. req'[r] = Done(r, "lost") /\ writes'[r] = NoChange
      BY <2>1 DEF Crash
    <3>2. Done(r, "lost").pc = "done"
      BY DEF TypeOK, Done, Request
    <3> QED
      BY <3>1, <3>2 DEF InFlight
  <2>2. CASE ~lost(r)
    <3>1. req'[r] = req[r] /\ writes'[r] = writes[r]
      BY <2>2 DEF Crash
    <3>2. InFlight(r) => HandlerTypeOK(r) /\ UpdateOK(r) /\ IsUpdate(writes[r])
      BY DEF TypeOK, UpdatesHold
    <3>3. InFlight(r)' <=> InFlight(r)
      BY <3>1 DEF InFlight
    <3> QED
      BY <1>1, <3>1, <3>2, <3>3, UpdateStable DEF SameRequest, UpdatesHold
  <2> QED
    BY <2>1, <2>2
<1> QED
  BY <1>1, <1>2, VersionsStable DEF UpdatesHold

LEMMA StoreStepOK ==
  ASSUME TypeOK, VersionsOK, UpdatesHold, StoreNext, UNCHANGED phoneVars
  PROVE  VersionsOK' /\ UpdatesHold'
<1>1. LogGrows /\ SmsGrows /\ UNCHANGED <<req, writes, sms>>
  BY StoreStepType DEF TypeOK, phoneVars, SmsGrows
<1>2. UpdatesHold'
  <2>1. ASSUME NEW r \in Requests
        PROVE  IF InFlight(r)' THEN UpdateOK(r)' ELSE writes'[r] = NoChange
    <3>1. InFlight(r) => HandlerTypeOK(r) /\ UpdateOK(r) /\ IsUpdate(writes[r])
      BY DEF TypeOK, UpdatesHold
    <3>2. InFlight(r)' <=> InFlight(r)
      BY <1>1 DEF InFlight
    <3> QED
      BY <1>1, <3>1, <3>2, UpdateStable DEF SameRequest, UpdatesHold
  <2> QED
    BY <2>1 DEF UpdatesHold
<1>3. ASSUME NEW u \in Users,
             \/ OperatorApproves(u)
             \/ OperatorDeactivates(u)
             \/ OperatorReports(u)
             \/ AdminApproves(u)
             \/ OperatorDeletes(u)
      PROVE  VersionsOK'
  <2>1. CASE OperatorDeletes(u)
    BY <1>1, <2>1, VersionsWritten DEF OperatorDeletes, OperatorWrites
  <2>2. CASE ~OperatorDeletes(u)
    <3>1. /\ Latest(u) # Absent
          /\ \/ \E s \in {Approved(Latest(u)), Deactivated(Latest(u)), ApprovedManually(Latest(u))} :
                  OperatorWrites(u, s)
             \/ \E c \in Conditions(u, Latest(u)) : OperatorWrites(u, Reported(Latest(u), c))
      BY <1>3, <2>2 DEF OperatorApproves, OperatorDeactivates, OperatorReports, AdminApproves
    <3>2. Latest(u) \in Signup /\ VersionOK(u, Latest(u))
      <4>1. Len(log[u]) \in DOMAIN log[u]
        BY DEF TypeOK, StoreTypeOK
      <4> QED
        BY <3>1, <4>1, LatestType DEF VersionsOK, Versions, Latest, TypeOK
    <3> QED
      BY <1>1, <3>1, <3>2, OperatorType, OperatorOK, VersionsWritten DEF OperatorWrites
  <2> QED
    BY <2>1, <2>2
<1>4. CASE UNCHANGED log
  BY <1>1, <1>2, <1>4, VersionsStable
<1> QED
  BY <1>2, <1>3, <1>4 DEF StoreNext, InformerSync, Tick, BanPhone, BanUser

-----------------------------------------------------------------------------
(* The inductive invariant.                                                *)

LEMMA InitOK == Init => VersionsOK /\ UpdatesHold
<1> SUFFICES ASSUME Init
             PROVE  VersionsOK /\ UpdatesHold
  OBVIOUS
<1>1. ASSUME NEW u \in Users, NEW s \in Versions(u)
      PROVE  VersionOK(u, s)
  <2>1. PICK score \in Scores, activated \in Counters : log[u] = <<Fresh(score, activated)>>
    BY DEF Init
  <2>2. s = Fresh(score, activated)
    BY <1>1, <2>1 DEF Versions
  <2> QED
    BY <2>2, PhoneVerificationAssumption DEF VersionOK, Fresh
<1>2. UpdatesHold
  BY DEF Init, UpdatesHold, InFlight, Idle
<1> QED
  BY <1>1, <1>2 DEF VersionsOK

LEMMA NextOK == TypeOK /\ VersionsOK /\ UpdatesHold /\ [Next]_vars => VersionsOK' /\ UpdatesHold'
<1> SUFFICES ASSUME TypeOK, VersionsOK, UpdatesHold, [Next]_vars
             PROVE  VersionsOK' /\ UpdatesHold'
  OBVIOUS
<1>1. TypeOK'
  BY NextType
<1>2. CASE UNCHANGED vars
  <2>1. /\ UNCHANGED <<log, req, writes, sms>> /\ SmsGrows
    BY <1>2 DEF vars, SmsGrows
  <2>2. UpdatesHold'
    BY <2>1 DEF UpdatesHold, InFlight, UpdateOK, NextCounter, Base
  <2> QED
    BY <2>1, <2>2, VersionsStable
<1>3. ASSUME NEW r \in Requests, NEW p \in Replicas, NEW u \in Users, NEW ph \in Phones,
             InitStart(r, p, u, ph)
      PROVE  VersionsOK' /\ UpdatesHold'
  BY <1>1, <1>3, StartOK DEF InitStart
<1>4. ASSUME NEW r \in Requests, NEW p \in Replicas, NEW u \in Users, NEW c \in Codes,
             VerifyStart(r, p, u, c)
      PROVE  VersionsOK' /\ UpdatesHold'
  BY <1>1, <1>4, StartOK DEF VerifyStart
<1>5. ASSUME NEW r \in Requests, PutConflict(r)
      PROVE  VersionsOK' /\ UpdatesHold'
  BY <1>5, RetryOK DEF PutConflict
<1>6. ASSUME NEW r \in Requests, Handle(r)
      PROVE  VersionsOK' /\ UpdatesHold'
  BY <1>1, <1>5, <1>6, InitCheckPhoneOK, InitLookupOK, InitSendOK, VerifyDecideOK,
     GetOK, PutOK, PutErrorOK DEF Handle
<1>7. ASSUME NEW p \in Replicas, Crash(p)
      PROVE  VersionsOK' /\ UpdatesHold'
  BY <1>7, CrashOK
<1>8. CASE StoreNext /\ UNCHANGED phoneVars
  BY <1>8, StoreStepOK
<1> QED
  BY <1>2, <1>3, <1>4, <1>6, <1>7, <1>8 DEF Next, Arrive, Finished

\* IInv is inductive: the consistency of what is stored rests on that of what the
\* handlers, however long they have been waiting, are about to write.
THEOREM Inductive == Spec => []IInv
<1>1. Init => TypeOK /\ VersionsOK /\ UpdatesHold
  BY InitType, InitOK
<1>2. TypeOK /\ VersionsOK /\ UpdatesHold /\ [Next]_vars => (TypeOK /\ VersionsOK /\ UpdatesHold)'
  BY NextType, NextOK
<1>3. TypeOK /\ VersionsOK /\ UpdatesHold => IInv
  BY VersionsOKIff DEF IInv
<1> QED
  BY <1>1, <1>2, <1>3, PTL DEF Spec

\* The counters stay within the configured limits for every interleaving of requests,
\* lagging caches, failed writes and crashes (verification_service.go:158, 367).
THEOREM LimitsAlwaysHold == Spec => []LimitsHold
<1>1. IInv => LimitsHold
  BY DEF IInv
<1> QED
  BY <1>1, Inductive, PTL

\* A stored code was sent to its user, with the expiry of its own message
\* (verification_service.go:178-186).
THEOREM StoredCodeWasAlwaysSent == Spec => []StoredCodeWasSent
<1>1. IInv => StoredCodeWasSent
  BY DEF IInv
<1> QED
  BY <1>1, Inductive, PTL

\* Code and expiry come and go together, whatever assignments are interleaved
\* (verification_service.go:181-185, 392-400).
THEOREM CodeAlwaysComplete == Spec => []CodeComplete
<1>1. IInv => CodeComplete
  BY DEF IInv
<1> QED
  BY <1>1, Inductive, PTL

-----------------------------------------------------------------------------
(* What a step may do to a UserSignup.                                     *)

LEMMA LatestWritten ==
  ASSUME TypeOK, NEW v \in Users, NEW s \in Signup \cup {Absent}, NewVersion(v, s),
         UNCHANGED <<banned, now>>, NEW u \in Users, Writes(u)
  PROVE  u = v /\ Latest(u)' = s
<1>1. /\ log'[v] = Append(log[v], s)
      /\ \A x \in Users \ {v} : log'[x] = log[x]
      /\ log[v] \in Seq(Signup \cup {Absent})
  BY NewVersionType DEF TypeOK, StoreTypeOK
<1>2. u = v
  BY <1>1 DEF Writes, TypeOK, StoreTypeOK
<1> QED
  BY <1>1, <1>2 DEF Latest

\* Only a handler's update, applied to the latest version, and the environment write
\* new versions.
LEMMA WhoWrites ==
  ASSUME TypeOK, Next, NEW u \in Users, Writes(u)
  PROVE  \/ \E r \in Requests : /\ req[r].pc = "put" /\ req[r].user = u
                                /\ Latest(u)' = Apply(Latest(u), writes[r])
         \/ /\ Latest(u)' = Approved(Latest(u))
            /\ "verification-required" \notin Latest(u).states
         \/ Latest(u)' = Deactivated(Latest(u))
         \/ \E c : Latest(u)' = Reported(Latest(u), c)
         \/ Latest(u)' = ApprovedManually(Latest(u)) /\ "admin" \in External
<1>1. ASSUME NEW r \in Requests, req[r].pc = "put", IsCurrent(req[r].user, req[r].copy),
             NewVersion(req[r].user, Written(r)), UNCHANGED <<banned, now>>
      PROVE  req[r].user = u /\ Latest(u)' = Apply(Latest(u), writes[r])
  <2>1. req[r].user \in Users /\ Written(r) \in Signup
    BY <1>1, WrittenType
  <2>2. Written(r) = Apply(Latest(req[r].user), writes[r])
    BY <1>1 DEF Written, IsCurrent, Latest
  <2> QED
    BY <1>1, <2>1, <2>2, LatestWritten
<1>2. ASSUME UNCHANGED log
      PROVE  FALSE
  BY <1>2 DEF Writes, TypeOK, StoreTypeOK
<1>3. ASSUME NEW v \in Users, NEW s \in Signup \cup {Absent}, OperatorWrites(v, s)
      PROVE  u = v /\ Latest(u)' = s
  BY <1>3, LatestWritten DEF OperatorWrites
<1>4. \A v \in Users : Latest(v) # Absent => Latest(v) \in Signup
  BY LatestType DEF TypeOK
<1>5. ASSUME NEW v \in Users, OperatorApproves(v)
      PROVE  /\ Latest(u)' = Approved(Latest(u))
             /\ "verification-required" \notin Latest(u).states
  BY <1>3, <1>4, <1>5, OperatorType DEF OperatorApproves
<1>6. ASSUME NEW v \in Users, OperatorDeactivates(v)
      PROVE  Latest(u)' = Deactivated(Latest(u))
  BY <1>3, <1>4, <1>6, OperatorType DEF OperatorDeactivates
<1>7. ASSUME NEW v \in Users, AdminApproves(v)
      PROVE  Latest(u)' = ApprovedManually(Latest(u)) /\ "admin" \in External
  BY <1>3, <1>4, <1>7, OperatorType DEF AdminApproves
<1>8. ASSUME NEW v \in Users, OperatorDeletes(v)
      PROVE  FALSE
  BY <1>3, <1>8 DEF OperatorDeletes, Writes
<1>9. ASSUME NEW r \in Requests, Put(r) \/ PutError(r)
      PROVE  \E q \in Requests : /\ req[q].pc = "put" /\ req[q].user = u
                                 /\ Latest(u)' = Apply(Latest(u), writes[q])
  BY <1>1, <1>2, <1>9 DEF Put, PutError
<1>10. CASE \E r \in Requests : Arrive(r) \/ Handle(r)
  BY <1>2, <1>9, <1>10
     DEF Arrive, Handle, InitStart, VerifyStart, InitCheckPhone, InitLookup, InitSend,
         VerifyDecide, Get, PutConflict, storeVars
<1>11. ASSUME NEW v \in Users, OperatorReports(v)
       PROVE  \E c : Latest(u)' = Reported(Latest(u), c)
  BY <1>3, <1>4, <1>11, OperatorType DEF OperatorReports
<1>12. CASE StoreNext
  BY <1>2, <1>5, <1>6, <1>7, <1>8, <1>11, <1>12 DEF StoreNext, InformerSync, Tick, BanPhone, BanUser
<1> QED
  BY <1>2, <1>10, <1>12 DEF Next, Crash, Finished, vars

\* What the operator and the administrators do to the states.
LEMMA OperatorStates ==
  ASSUME NEW s \in Signup
  PROVE  /\ Approved(s).states = s.states
         /\ Deactivated(s).states = (s.states \cup {"deactivated"}) \ {"approved"}
         /\ ApprovedManually(s).states
              = (s.states \cup {"approved"}) \ {"verification-required", "deactivated"}
         /\ \A c : Reported(s, c).states = s.states
BY DEF Approved, Deactivated, ApprovedManually, Reported, SetApprovedManually, Signup

\* A user gets through the phone verification only with a code sent to that user,
\* through every conflict and retry (verification_service.go:383-400).
THEOREM VerifiedOnlyByOwnCode == Spec => VerifiedByOwnCode
<1>1. ASSUME IInv, Next, NEW u \in Users, Passes(u)
      PROVE  \E r \in Requests : /\ req[r].pc = "put" /\ req[r].kind = "verify" /\ req[r].user = u
                                 /\ sms[req[r].code] # None
                                 /\ sms[req[r].code].user = u
  <2>1. Latest(u) \in Signup /\ Writes(u)
    BY <1>1, LatestType DEF IInv, TypeOK, Passes, Writes
  <2>2. ASSUME NEW r \in Requests, req[r].pc = "put", req[r].user = u,
               Latest(u)' = Apply(Latest(u), writes[r])
        PROVE  req[r].kind = "verify" /\ sms[req[r].code] # None /\ sms[req[r].code].user = u
    <3>1. UpdateOK(r) /\ IsUpdate(writes[r])
      BY <1>1, <2>2 DEF IInv, UpdatesHold, InFlight, TypeOK
    <3>2. Latest(u)'.states = (Latest(u).states \cup writes[r].add) \ writes[r].del
      BY <2>1, <2>2, <3>1, ApplyType
    <3>3. writes[r].del # {}
      BY <1>1, <3>2 DEF Passes
    <3> QED
      BY <2>2, <3>1, <3>3 DEF UpdateOK
  <2> QED
    BY <1>1, <2>1, <2>2, WhoWrites, OperatorStates DEF IInv, Passes
<1>2. IInv /\ [Next]_vars =>
        [\A u \in Users : Passes(u) =>
           \E r \in Requests : /\ req[r].pc = "put" /\ req[r].kind = "verify" /\ req[r].user = u
                               /\ sms[req[r].code] # None
                               /\ sms[req[r].code].user = u]_vars
  BY <1>1
<1> QED
  BY <1>2, Inductive, PTL DEF Spec, VerifiedByOwnCode

\* No step makes a verified user unverified again or takes a rejection back
\* (verification_service.go:191-218, 404-433).
THEOREM ClearedAlwaysStaysCleared == Spec => ClearedStaysCleared
<1>1. ASSUME IInv, Next, NEW u \in Users, Writes(u)
      PROVE  /\ "verification-required" \in Latest(u)'.states => "verification-required" \in Latest(u).states
             /\ "rejected" \in Latest(u).states => "rejected" \in Latest(u)'.states
  <2>1. Latest(u) \in Signup
    BY <1>1, LatestType DEF IInv, TypeOK, Writes
  <2>2. ASSUME NEW r \in Requests, req[r].pc = "put", req[r].user = u,
               Latest(u)' = Apply(Latest(u), writes[r])
        PROVE  /\ Latest(u)'.states = (Latest(u).states \cup writes[r].add) \ writes[r].del
               /\ writes[r].add \subseteq {"rejected"}
               /\ writes[r].del \subseteq {"verification-required"}
    <3>1. UpdateOK(r) /\ IsUpdate(writes[r])
      BY <1>1, <2>2 DEF IInv, UpdatesHold, InFlight, TypeOK
    <3> QED
      BY <2>1, <2>2, <3>1, ApplyType DEF UpdateOK
  <2> QED
    BY <1>1, <2>1, <2>2, WhoWrites, OperatorStates DEF IInv
<1>2. IInv /\ [Next]_vars =>
        [\A u \in Users : Writes(u) =>
           /\ "verification-required" \in Latest(u)'.states => "verification-required" \in Latest(u).states
           /\ "rejected" \in Latest(u).states => "rejected" \in Latest(u)'.states]_vars
  BY <1>1
<1> QED
  BY <1>2, Inductive, PTL DEF Spec, ClearedStaysCleared
-----------------------------------------------------------------------------
(* PhoneVerification implements PhoneGate: what the handlers write amounts *)
(* to the steps of the gate, because each update, whatever version it is   *)
(* applied to, stores a code, uses one up, rejects, or does nothing that   *)
(* the gate tells of (GateInv).                                            *)

-----------------------------------------------------------------------------
(* Steps of the gate.                                                      *)

gateOf == [u \in Users |-> GateOf(u)]

GateFields == {"stage", "rejected", "sent", "stored", "current", "entered"}

IsGate(g) ==
  g = [stage |-> g.stage, rejected |-> g.rejected, sent |-> g.sent,
       stored |-> g.stored, current |-> g.current, entered |-> g.entered]

\* From g to h nothing but the fields F changes.
OnlyIn(g, h, F) == \A k \in GateFields \ F : h[k] = g[k]

\* Of the users' gates nothing changes but the fields F of u's.
Changes(u, F) ==
  /\ OnlyIn(GateOf(u), GateOf(u)', F)
  /\ \A v \in Users \ {u} : OnlyIn(GateOf(v), GateOf(v)', {})

LEMMA FieldsChange ==
  ASSUME NEW g, NEW h, IsGate(g), IsGate(h)
  PROVE  /\ OnlyIn(g, h, {}) => h = g
         /\ OnlyIn(g, h, {"sent"}) => h = [g EXCEPT !.sent = h.sent]
         /\ OnlyIn(g, h, {"entered"}) => h = [g EXCEPT !.entered = h.entered]
         /\ OnlyIn(g, h, {"rejected"}) => h = [g EXCEPT !.rejected = h.rejected]
         /\ OnlyIn(g, h, {"stage"}) => h = [g EXCEPT !.stage = h.stage]
         /\ OnlyIn(g, h, {"stored", "current"})
              => h = [g EXCEPT !.stored = h.stored, !.current = h.current]
         /\ OnlyIn(g, h, {"stage", "current"})
              => h = [g EXCEPT !.stage = h.stage, !.current = h.current]
         /\ OnlyIn(g, h, {"stage", "rejected", "current"})
              => h = [g EXCEPT !.stage = h.stage, !.rejected = h.rejected, !.current = h.current]
<1>1. PICK a1, a2, a3, a4, a5, a6 :
        g = [stage |-> a1, rejected |-> a2, sent |-> a3, stored |-> a4, current |-> a5, entered |-> a6]
  BY DEF IsGate
<1>2. PICK b1, b2, b3, b4, b5, b6 :
        h = [stage |-> b1, rejected |-> b2, sent |-> b3, stored |-> b4, current |-> b5, entered |-> b6]
  BY DEF IsGate
<1> USE <1>1, <1>2 DEF OnlyIn, GateFields
<1>3. OnlyIn(g, h, {}) => h = g
  OBVIOUS
<1>4. OnlyIn(g, h, {"sent"}) => h = [g EXCEPT !.sent = h.sent]
  OBVIOUS
<1>5. OnlyIn(g, h, {"entered"}) => h = [g EXCEPT !.entered = h.entered]
  OBVIOUS
<1>6. OnlyIn(g, h, {"rejected"}) => h = [g EXCEPT !.rejected = h.rejected]
  OBVIOUS
<1>7. OnlyIn(g, h, {"stage"}) => h = [g EXCEPT !.stage = h.stage]
  OBVIOUS
<1>8. OnlyIn(g, h, {"stored", "current"})
        => h = [g EXCEPT !.stored = h.stored, !.current = h.current]
  OBVIOUS
<1>9. OnlyIn(g, h, {"stage", "current"})
        => h = [g EXCEPT !.stage = h.stage, !.current = h.current]
  OBVIOUS
<1>10. OnlyIn(g, h, {"stage", "rejected", "current"})
        => h = [g EXCEPT !.stage = h.stage, !.rejected = h.rejected, !.current = h.current]
  OBVIOUS
<1> QED
  BY <1>3, <1>4, <1>5, <1>6, <1>7, <1>8, <1>9, <1>10

LEMMA FunctionChange ==
  ASSUME NEW S, NEW f, NEW h, f = [x \in S |-> f[x]], h = [x \in S |-> h[x]],
         NEW u \in S, \A v \in S \ {u} : h[v] = f[v]
  PROVE  h = [f EXCEPT ![u] = h[u]]
OBVIOUS

LEMMA GateRecord ==
  ASSUME NEW u \in Users
  PROVE  /\ gateOf[u] = GateOf(u) /\ IsGate(GateOf(u))
         /\ GateOf(u).stage = Stage(Latest(u)) /\ GateOf(u).rejected = Rejected(Latest(u))
         /\ GateOf(u).sent = SentTo(u) /\ GateOf(u).stored = StoredFor(u)
         /\ GateOf(u).current = CurrentCode(Latest(u)) /\ GateOf(u).entered = EnteredBy(u)
BY DEF gateOf, GateOf, IsGate

LEMMA GateRecordNext ==
  ASSUME NEW u \in Users
  PROVE  /\ gateOf'[u] = GateOf(u)' /\ IsGate(GateOf(u)')
         /\ GateOf(u)'.stage = Stage(Latest(u))' /\ GateOf(u)'.rejected = Rejected(Latest(u))'
         /\ GateOf(u)'.sent = SentTo(u)' /\ GateOf(u)'.stored = StoredFor(u)'
         /\ GateOf(u)'.current = CurrentCode(Latest(u))' /\ GateOf(u)'.entered = EnteredBy(u)'
BY DEF gateOf, GateOf, IsGate

LEMMA OneChanges ==
  ASSUME NEW u \in Users, NEW F, Changes(u, F)
  PROVE  gateOf' = [gateOf EXCEPT ![u] = GateOf(u)']
<1> DEFINE f == gateOf
           h == gateOf'
<1>1. /\ f = [x \in Users |-> f[x]] /\ h = [x \in Users |-> h[x]]
      /\ \A x \in Users : f[x] = GateOf(x) /\ h[x] = GateOf(x)'
  BY DEF gateOf
<1>2. \A v \in Users \ {u} : GateOf(v)' = GateOf(v)
  BY FieldsChange, GateRecord, GateRecordNext DEF Changes
<1> HIDE DEF f, h
<1>3. h = [f EXCEPT ![u] = h[u]]
  BY <1>1, <1>2, FunctionChange
<1> QED
  BY <1>1, <1>3 DEF f, h

LEMMA NoneChanges ==
  ASSUME \A u \in Users : OnlyIn(GateOf(u), GateOf(u)', {})
  PROVE  UNCHANGED gateOf
<1>1. \A u \in Users : GateOf(u)' = GateOf(u)
  BY FieldsChange, GateRecord, GateRecordNext
<1> QED
  BY <1>1 DEF gateOf

LEMMA SendStep ==
  ASSUME NEW u \in Users, NEW c \in Codes, \A v \in Users : c \notin SentTo(v),
         Changes(u, {"sent"}), SentTo(u)' = SentTo(u) \cup {c}
  PROVE  Gate!Next
<1>1. gateOf' = [gateOf EXCEPT ![u] = GateOf(u)']
  BY OneChanges
<1>2. GateOf(u)' = [GateOf(u) EXCEPT !.sent = GateOf(u)'.sent]
  BY FieldsChange, GateRecord, GateRecordNext DEF Changes
<1>3. /\ \A v \in Users : gateOf[v].sent = SentTo(v)
      /\ gateOf[u] = GateOf(u) /\ GateOf(u)'.sent = GateOf(u).sent \cup {c}
  BY GateRecord, GateRecordNext
<1>4. Gate!Send(u, c)
  BY <1>1, <1>2, <1>3 DEF Gate!Send, Gate!Becomes, gateOf
<1> QED
  BY <1>4 DEF Gate!Next

LEMMA EnterStep ==
  ASSUME NEW u \in Users, NEW c \in Codes,
         Changes(u, {"entered"}), EnteredBy(u)' = EnteredBy(u) \cup {c}
  PROVE  Gate!Next
<1>1. gateOf' = [gateOf EXCEPT ![u] = GateOf(u)']
  BY OneChanges
<1>2. GateOf(u)' = [GateOf(u) EXCEPT !.entered = GateOf(u)'.entered]
  BY FieldsChange, GateRecord, GateRecordNext DEF Changes
<1>3. gateOf[u] = GateOf(u) /\ GateOf(u)'.entered = GateOf(u).entered \cup {c}
  BY GateRecord, GateRecordNext
<1>4. Gate!Enter(u, c)
  BY <1>1, <1>2, <1>3 DEF Gate!Enter, Gate!Becomes, gateOf
<1> QED
  BY <1>4 DEF Gate!Next

LEMMA StoreStep ==
  ASSUME NEW u \in Users, NEW c \in Codes,
         Stage(Latest(u)) # "gone",
         c \in SentTo(u),
         Changes(u, {"stored", "current"}),
         StoredFor(u)' = StoredFor(u) \cup {c},
         CurrentCode(Latest(u))' = c
  PROVE  Gate!Next
<1>1. gateOf' = [gateOf EXCEPT ![u] = GateOf(u)']
  BY OneChanges
<1>2. GateOf(u)' = [GateOf(u) EXCEPT !.stored = GateOf(u)'.stored, !.current = GateOf(u)'.current]
  BY FieldsChange, GateRecord, GateRecordNext DEF Changes
<1>3. /\ gateOf[u] = GateOf(u)
      /\ GateOf(u).stage # "gone" /\ c \in GateOf(u).sent
      /\ GateOf(u)'.stored = GateOf(u).stored \cup {c} /\ GateOf(u)'.current = c
  BY GateRecord, GateRecordNext
<1>4. Gate!Store(u, c)
  BY <1>1, <1>2, <1>3 DEF Gate!Store, Gate!There, Gate!Becomes, gateOf
<1> QED
  BY <1>4 DEF Gate!Next

LEMMA PassStep ==
  ASSUME NEW u \in Users,
         Stage(Latest(u)) # "gone",
         StoredFor(u) \cap EnteredBy(u) # {},
         Changes(u, {"stage", "current"}),
         Stage(Latest(u))' = IF Stage(Latest(u)) = "waiting" THEN "passed" ELSE Stage(Latest(u)),
         CurrentCode(Latest(u))' = None
  PROVE  Gate!Next
<1>1. gateOf' = [gateOf EXCEPT ![u] = GateOf(u)']
  BY OneChanges
<1>2. GateOf(u)' = [GateOf(u) EXCEPT !.stage = GateOf(u)'.stage, !.current = GateOf(u)'.current]
  BY FieldsChange, GateRecord, GateRecordNext DEF Changes
<1>3. /\ gateOf[u] = GateOf(u)
      /\ GateOf(u).stage # "gone" /\ GateOf(u).stored \cap GateOf(u).entered # {}
      /\ GateOf(u)'.stage = IF GateOf(u).stage = "waiting" THEN "passed" ELSE GateOf(u).stage
      /\ GateOf(u)'.current = None
  BY GateRecord, GateRecordNext
<1>4. Gate!Pass(u)
  BY <1>1, <1>2, <1>3 DEF Gate!Pass, Gate!There, Gate!Becomes, gateOf
<1> QED
  BY <1>4 DEF Gate!Next

LEMMA RejectStep ==
  ASSUME NEW u \in Users,
         Stage(Latest(u)) # "gone",
         Changes(u, {"rejected"}),
         Rejected(Latest(u))' = TRUE
  PROVE  Gate!Next
<1>1. gateOf' = [gateOf EXCEPT ![u] = GateOf(u)']
  BY OneChanges
<1>2. GateOf(u)' = [GateOf(u) EXCEPT !.rejected = GateOf(u)'.rejected]
  BY FieldsChange, GateRecord, GateRecordNext DEF Changes
<1>3. /\ gateOf[u] = GateOf(u)
      /\ GateOf(u).stage # "gone" /\ GateOf(u)'.rejected = TRUE
  BY GateRecord, GateRecordNext
<1>4. Gate!Reject(u)
  BY <1>1, <1>2, <1>3 DEF Gate!Reject, Gate!There, Gate!Becomes, gateOf
<1> QED
  BY <1>4 DEF Gate!Next

LEMMA ApproveStep ==
  ASSUME NEW u \in Users,
         Stage(Latest(u)) = "waiting",
         Changes(u, {"stage"}),
         Stage(Latest(u))' = "approved"
  PROVE  Gate!Next
<1>1. gateOf' = [gateOf EXCEPT ![u] = GateOf(u)']
  BY OneChanges
<1>2. GateOf(u)' = [GateOf(u) EXCEPT !.stage = GateOf(u)'.stage]
  BY FieldsChange, GateRecord, GateRecordNext DEF Changes
<1>3. /\ gateOf[u] = GateOf(u)
      /\ GateOf(u).stage = "waiting" /\ GateOf(u)'.stage = "approved"
  BY GateRecord, GateRecordNext
<1>4. Gate!Approve(u)
  BY <1>1, <1>2, <1>3 DEF Gate!Approve, Gate!Becomes, gateOf
<1> QED
  BY <1>4 DEF Gate!Next

LEMMA DeactivateStep ==
  ASSUME NEW u \in Users,
         Stage(Latest(u)) = "approved",
         Changes(u, {"stage"}),
         Stage(Latest(u))' = "passed"
  PROVE  Gate!Next
<1>1. gateOf' = [gateOf EXCEPT ![u] = GateOf(u)']
  BY OneChanges
<1>2. GateOf(u)' = [GateOf(u) EXCEPT !.stage = GateOf(u)'.stage]
  BY FieldsChange, GateRecord, GateRecordNext DEF Changes
<1>3. /\ gateOf[u] = GateOf(u)
      /\ GateOf(u).stage = "approved" /\ GateOf(u)'.stage = "passed"
  BY GateRecord, GateRecordNext
<1>4. Gate!Deactivate(u)
  BY <1>1, <1>2, <1>3 DEF Gate!Deactivate, Gate!Becomes, gateOf
<1> QED
  BY <1>4 DEF Gate!Next

LEMMA DeleteStep ==
  ASSUME NEW u \in Users,
         Stage(Latest(u)) = "waiting",
         Changes(u, {"stage", "rejected", "current"}),
         Stage(Latest(u))' = "gone",
         Rejected(Latest(u))' = FALSE,
         CurrentCode(Latest(u))' = None
  PROVE  Gate!Next
<1>1. gateOf' = [gateOf EXCEPT ![u] = GateOf(u)']
  BY OneChanges
<1>2. GateOf(u)' = [GateOf(u) EXCEPT !.stage = GateOf(u)'.stage, !.rejected = GateOf(u)'.rejected, !.current = GateOf(u)'.current]
  BY FieldsChange, GateRecord, GateRecordNext DEF Changes
<1>3. /\ gateOf[u] = GateOf(u)
      /\ GateOf(u).stage = "waiting" /\ GateOf(u)'.stage = "gone"
      /\ GateOf(u)'.rejected = FALSE /\ GateOf(u)'.current = None
  BY GateRecord, GateRecordNext
<1>4. Gate!Delete(u)
  BY <1>1, <1>2, <1>3 DEF Gate!Delete, Gate!Becomes, gateOf
<1> QED
  BY <1>4 DEF Gate!Next

-----------------------------------------------------------------------------
(* What the steps of PhoneVerification do to the gates.                    *)

LEMMA StoreKept ==
  ASSUME NEW u \in Users, log'[u] = log[u]
  PROVE  /\ Stage(Latest(u))' = Stage(Latest(u)) /\ Rejected(Latest(u))' = Rejected(Latest(u))
         /\ CurrentCode(Latest(u))' = CurrentCode(Latest(u)) /\ StoredFor(u)' = StoredFor(u)
BY DEF Latest, Stage, Rejected, CurrentCode, StoredFor, Versions

LEMMA SentKept ==
  ASSUME UNCHANGED sms, NEW u \in Users
  PROVE  SentTo(u)' = SentTo(u)
BY DEF SentTo

\* The codes entered are the same.
SameEntries ==
  \A r \in Requests : req'[r].kind = req[r].kind /\ req'[r].user = req[r].user /\ req'[r].code = req[r].code

LEMMA EnteredKept ==
  ASSUME SameEntries, NEW u \in Users
  PROVE  EnteredBy(u)' = EnteredBy(u)
BY DEF SameEntries, EnteredBy

LEMMA DoneEntry ==
  ASSUME TypeOK, NEW r \in Requests, NEW a, req'[r] = Done(r, a)
  PROVE  req'[r].kind = req[r].kind /\ req'[r].user = req[r].user /\ req'[r].code = req[r].code
<1>1. ASSUME NEW q \in Request
      PROVE  LET d == [q EXCEPT !.pc = "done", !.answer = a, !.clock = 0, !.copy = 0, !.tries = 0] IN
               d.kind = q.kind /\ d.user = q.user /\ d.code = q.code
  BY DEF Request
<1>2. req[r] \in Request
  BY DEF TypeOK
<1> QED
  BY <1>1, <1>2 DEF Done

LEMMA EntriesStep ==
  ASSUME TypeOK, NEW r \in Requests, req' = [req EXCEPT ![r] = req'[r]],
         SameRequest(r) \/ \E a : req'[r] = Done(r, a)
  PROVE  SameEntries
<1>1. \A q \in Requests \ {r} : req'[q] = req[q]
  BY DEF TypeOK
<1> QED
  BY <1>1, DoneEntry DEF SameEntries, SameRequest

\* A step that writes nothing, sends nothing and enters nothing does not show.
LEMMA QuietStep ==
  ASSUME UNCHANGED <<log, sms>>, SameEntries
  PROVE  UNCHANGED gateOf
<1>1. ASSUME NEW u \in Users
      PROVE  OnlyIn(GateOf(u), GateOf(u)', {})
  <2>1. log'[u] = log[u]
    OBVIOUS
  <2> QED
    BY <2>1, StoreKept, SentKept, EnteredKept, GateRecord, GateRecordNext DEF OnlyIn, GateFields
<1> QED
  BY <1>1, NoneChanges

\* A new version of u's UserSignup shows in u's gate only.
LEMMA VersionStep ==
  ASSUME TypeOK, NEW u \in Users, NEW s \in Signup \cup {Absent}, NewVersion(u, s),
         UNCHANGED <<banned, now, sms>>, SameEntries
  PROVE  /\ Changes(u, {"stage", "rejected", "stored", "current"})
         /\ Latest(u)' = s
         /\ StoredFor(u)' = StoredFor(u) \cup IF s = Absent THEN {} ELSE {s.code} \ {None}
<1>1. /\ log'[u] = Append(log[u], s)
      /\ \A v \in Users \ {u} : log'[v] = log[v]
      /\ log[u] \in Seq(Signup \cup {Absent})
  BY NewVersionType DEF TypeOK, StoreTypeOK
<1>2. Changes(u, {"stage", "rejected", "stored", "current"})
  BY <1>1, StoreKept, SentKept, EnteredKept, GateRecord, GateRecordNext
     DEF Changes, OnlyIn, GateFields
<1>3. Latest(u)' = s
  BY <1>1 DEF Latest
<1>4. Versions(u)' = Versions(u) \cup ({s} \ {Absent})
  <2>1. /\ DOMAIN log'[u] = DOMAIN log[u] \cup {Len(log[u]) + 1}
        /\ \A i \in DOMAIN log[u] : log'[u][i] = log[u][i]
        /\ log'[u][Len(log[u]) + 1] = s
    BY <1>1
  <2> QED
    BY <2>1 DEF Versions
<1>5. s # Absent => s.code \in Codes \cup {None}
  BY DEF Signup, Opt
<1>6. None \notin Codes
  BY HostStoreAssumption
<1>7. StoredFor(u)' = StoredFor(u) \cup IF s = Absent THEN {} ELSE {s.code} \ {None}
  <2>1. StoredFor(u)' = {c \in Codes : \E x \in Versions(u)' : x.code = c}
    BY DEF StoredFor
  <2>2. CASE s = Absent
    BY <1>4, <2>1, <2>2 DEF StoredFor, Versions
  <2>3. CASE s # Absent
    BY <1>4, <1>5, <1>6, <2>1, <2>3 DEF StoredFor
  <2> QED
    BY <2>2, <2>3
<1> QED
  BY <1>2, <1>3, <1>7

-----------------------------------------------------------------------------
(* The inductive invariant.                                                *)

\* What a handler is about to write does one thing to the gate, whatever version it is
\* applied to: it uses up the code its user has entered, or replaces the code, or rejects.
OneEffect(r) ==
  /\ writes[r].del # {} =>
       /\ "code" \in DOMAIN writes[r].set /\ writes[r].set.code = None
       /\ Base(r).code = req[r].code
  /\ "code" \in DOMAIN writes[r].set =>
       /\ writes[r].add = {}
       /\ writes[r].set.code = None => writes[r].del # {}
  /\ req[r].pc \in {"lookup", "send"} => writes[r].add = {} /\ writes[r].del = {}

EffectsHold == \A r \in Requests : InFlight(r) => OneEffect(r)

\* No UserSignup is both approved and to be verified.
OneStage(s) == {"verification-required", "approved"} \subseteq s.states => FALSE

StagesHold == \A u \in Users : Latest(u) # Absent => OneStage(Latest(u))

NothingAsked == \A r \in Requests : req[r].pc = "idle" => req[r].kind # "verify"

GateInv == EffectsHold /\ StagesHold /\ NothingAsked

LEMMA StagesKept ==
  ASSUME StagesHold, UNCHANGED log
  PROVE  StagesHold'
BY DEF StagesHold, Latest, OneStage

LEMMA StagesWritten ==
  ASSUME TypeOK, StagesHold, NEW u \in Users, NEW s \in Signup \cup {Absent}, NewVersion(u, s),
         UNCHANGED <<banned, now>>, s = Absent \/ OneStage(s)
  PROVE  StagesHold'
<1>1. /\ log'[u] = Append(log[u], s)
      /\ \A v \in Users \ {u} : log'[v] = log[v]
      /\ log[u] \in Seq(Signup \cup {Absent})
  BY NewVersionType DEF TypeOK, StoreTypeOK
<1>2. Latest(u)' = s /\ \A v \in Users \ {u} : Latest(v)' = Latest(v)
  BY <1>1 DEF Latest
<1>3. ASSUME NEW v \in Users, Latest(v)' # Absent
      PROVE  OneStage(Latest(v)')
  BY <1>2, <1>3 DEF StagesHold
<1> QED
  BY <1>3 DEF StagesHold, OneStage

LEMMA EffectStable ==
  ASSUME LogGrows, NEW r \in Requests, HandlerTypeOK(r), SameRequest(r), OneEffect(r),
         writes'[r] = writes[r],
         req'[r].pc \in {"lookup", "send"} => req[r].pc \in {"lookup", "send"}
  PROVE  OneEffect(r)'
<1>1. Base(r)' = Base(r)
  BY BaseStable
<1> QED
  BY <1>1 DEF OneEffect, SameRequest

LEMMA EffectsStep ==
  ASSUME TypeOK, EffectsHold, LogGrows, NEW r \in Requests,
         req' = [req EXCEPT ![r] = req'[r]],
         writes' = [writes EXCEPT ![r] = writes'[r]],
         InFlight(r)' => OneEffect(r)'
  PROVE  EffectsHold'
<1>1. ASSUME NEW q \in Requests, q # r, InFlight(q)'
      PROVE  OneEffect(q)'
  <2>1. req'[q] = req[q] /\ writes'[q] = writes[q]
    BY <1>1 DEF TypeOK
  <2>2. HandlerTypeOK(q) /\ OneEffect(q)
    BY <1>1, <2>1 DEF TypeOK, EffectsHold, InFlight
  <2> QED
    BY <2>1, <2>2, EffectStable DEF SameRequest
<1> QED
  BY <1>1 DEF EffectsHold

LEMMA ChangesLess ==
  ASSUME NEW u \in Users, Changes(u, {"stage", "rejected", "stored", "current"}),
         NEW F \in SUBSET {"stage", "rejected", "stored", "current"},
         "stage" \notin F => Stage(Latest(u))' = Stage(Latest(u)),
         "rejected" \notin F => Rejected(Latest(u))' = Rejected(Latest(u)),
         "stored" \notin F => StoredFor(u)' = StoredFor(u),
         "current" \notin F => CurrentCode(Latest(u))' = CurrentCode(Latest(u))
  PROVE  Changes(u, F)
<1>1. /\ "stage" \notin F => GateOf(u)'["stage"] = GateOf(u)["stage"]
      /\ "rejected" \notin F => GateOf(u)'["rejected"] = GateOf(u)["rejected"]
      /\ "stored" \notin F => GateOf(u)'["stored"] = GateOf(u)["stored"]
      /\ "current" \notin F => GateOf(u)'["current"] = GateOf(u)["current"]
      /\ GateOf(u)'["sent"] = GateOf(u)["sent"] /\ GateOf(u)'["entered"] = GateOf(u)["entered"]
  BY GateRecord, GateRecordNext DEF Changes, OnlyIn, GateFields
<1> QED
  BY <1>1 DEF Changes, OnlyIn, GateFields

\* A handler's update, applied to the latest version, is a step of the gate or does not show.
LEMMA UpdateStep ==
  ASSUME TypeOK, StagesHold, NEW r \in Requests, req[r].pc = "put", UpdateOK(r), OneEffect(r),
         NEW u \in Users, u = req[r].user, IsCurrent(u, req[r].copy), NewVersion(u, Written(r)),
         UNCHANGED <<banned, now, sms>>, SameEntries
  PROVE  StagesHold' /\ (Gate!Next \/ UNCHANGED gateOf)
<1> DEFINE l == Latest(u)
           w == writes[r]
           t == Apply(l, w)
<1>1. /\ HandlerTypeOK(r) /\ Base(r) \in Signup /\ IsUpdate(w)
      /\ l # Absent /\ l \in Signup /\ Written(r) = t
  BY BaseType, LatestType DEF TypeOK, HandlerTypeOK, InFlight, IsCurrent, Written, Latest
<1>2. /\ t \in Signup
      /\ t.states = (l.states \cup w.add) \ w.del
      /\ t.code = IF "code" \in DOMAIN w.set THEN w.set.code ELSE l.code
  BY <1>1, ApplyType DEF Annotations, Numbers
<1>3. w.add \subseteq {"rejected"} /\ w.del \subseteq {"verification-required"}
  BY DEF UpdateOK
<1>4. NewVersion(u, t) /\ t # Absent
  BY <1>1, <1>2, HostStoreAssumption
<1>5. OneStage(l) /\ OneStage(t)
  BY <1>1, <1>2, <1>3 DEF StagesHold, OneStage
<1>6. StagesHold'
  BY <1>1, <1>2, <1>4, <1>5, StagesWritten
<1>7. /\ Changes(u, {"stage", "rejected", "stored", "current"})
      /\ Latest(u)' = t
      /\ StoredFor(u)' = StoredFor(u) \cup ({t.code} \ {None})
  BY <1>1, <1>2, <1>4, VersionStep
<1> HIDE DEF l, w, t
<1>8. /\ Stage(l) # "gone"
      /\ Stage(l) = "waiting" <=> "verification-required" \in l.states
      /\ Stage(Latest(u))' = Stage(t) /\ Stage(Latest(u)) = Stage(l)
      /\ Rejected(Latest(u))' = Rejected(t) /\ Rejected(Latest(u)) = Rejected(l)
      /\ CurrentCode(Latest(u))' = t.code /\ CurrentCode(Latest(u)) = l.code
  BY <1>1, <1>4, <1>7 DEF Stage, Rejected, CurrentCode, l
<1>9. CASE "code" \in DOMAIN w.set /\ w.set.code # None
  <2>1. w.add = {} /\ w.del = {} /\ t.code \in Codes /\ t.code = w.set.code
    BY <1>1, <1>2, <1>9 DEF OneEffect, IsUpdate, w, Opt
  <2>2. Stage(t) = Stage(l) /\ Rejected(t) = Rejected(l)
    BY <1>1, <1>2, <1>4, <2>1 DEF Stage, Rejected
  <2>3. t.code \in SentTo(u)
    BY <1>9, <2>1 DEF UpdateOK, SentTo, w
  <2>4. Changes(u, {"stored", "current"})
    BY <1>7, <1>8, <2>2, ChangesLess
  <2>5. StoredFor(u)' = StoredFor(u) \cup {t.code}
    BY <1>7, <1>9, <2>1
  <2> QED
    BY <1>1, <1>6, <1>8, <2>1, <2>3, <2>4, <2>5, StoreStep
<1>10. CASE w.del # {}
  <2>1. /\ w.add = {} /\ w.del = {"verification-required"} /\ t.code = None
        /\ Base(r).code = req[r].code /\ req[r].kind = "verify"
    BY <1>2, <1>10 DEF OneEffect, UpdateOK, w
  <2>2. t.states = l.states \ {"verification-required"}
    BY <1>2, <2>1
  <2>3. /\ Stage(t) = IF Stage(l) = "waiting" THEN "passed" ELSE Stage(l)
        /\ Rejected(t) = Rejected(l)
    BY <1>1, <1>4, <1>5, <2>2 DEF Stage, Rejected, OneStage
  <2>4. req[r].code \in StoredFor(u) \cap EnteredBy(u)
    <3>1. Base(r) \in Versions(u) /\ Base(r).code = req[r].code
      BY <1>1, <2>1 DEF HandlerTypeOK, Base, Versions, TypeOK, StoreTypeOK
    <3>2. req[r].code \in Codes /\ req[r].code \in EnteredBy(u)
      BY <1>1, <2>1 DEF HandlerTypeOK, EnteredBy
    <3> QED
      BY <3>1, <3>2 DEF StoredFor
  <2>5. StoredFor(u)' = StoredFor(u)
    BY <1>7, <2>1
  <2>6. Changes(u, {"stage", "current"})
    BY <1>7, <1>8, <2>3, <2>5, ChangesLess
  <2> QED
    BY <1>1, <1>6, <1>8, <2>1, <2>3, <2>4, <2>6, PassStep
<1>11. CASE "code" \notin DOMAIN w.set /\ w.del = {}
  <2>1. t.code = l.code /\ t.states = l.states \cup w.add
    BY <1>2, <1>11
  <2>2. Stage(t) = Stage(l)
    BY <1>1, <1>3, <1>4, <2>1 DEF Stage
  <2>3. StoredFor(u)' = StoredFor(u)
    <3>1. l \in Versions(u) /\ l.code \in Opt(Codes)
      BY <1>1 DEF Latest, Versions, TypeOK, StoreTypeOK, Signup, l
    <3>2. l.code \in StoredFor(u) \cup {None}
      BY <3>1 DEF StoredFor, Opt
    <3> QED
      BY <1>7, <2>1, <3>2
  <2>4. Changes(u, {"rejected"})
    BY <1>7, <1>8, <2>1, <2>2, <2>3, ChangesLess
  <2>5. CASE w.add = {"rejected"}
    <3>1. Rejected(t) = TRUE
      BY <1>4, <2>1, <2>5 DEF Rejected
    <3> QED
      BY <1>1, <1>6, <1>8, <2>4, <3>1, RejectStep
  <2>6. CASE w.add = {}
    <3>1. Rejected(t) = Rejected(l)
      BY <1>1, <1>4, <2>1, <2>6 DEF Rejected
    <3>2. Changes(u, {})
      BY <1>7, <1>8, <2>1, <2>2, <2>3, <3>1, ChangesLess DEF Changes
    <3> QED
      BY <1>6, <3>2, NoneChanges DEF Changes
  <2> QED
    BY <1>3, <2>5, <2>6
<1> QED
  BY <1>9, <1>10, <1>11 DEF OneEffect, w

-----------------------------------------------------------------------------
(* One lemma per action.                                                   *)

Shows == Gate!Next \/ UNCHANGED gateOf

\* A step of a handler that writes no version and sends no message.
LEMMA HandlerStep ==
  ASSUME TypeOK, GateInv, UNCHANGED <<storeVars, sms>>, NEW r \in Requests,
         req' = [req EXCEPT ![r] = req'[r]],
         writes' = [writes EXCEPT ![r] = writes'[r]],
         SameRequest(r) \/ \E a : req'[r] = Done(r, a),
         InFlight(r)' => OneEffect(r)'
  PROVE  EffectsHold' /\ StagesHold' /\ Shows
<1>1. LogGrows /\ UNCHANGED <<log, sms>>
  BY StoreUnchanged DEF TypeOK, storeVars
<1>2. EffectsHold' /\ StagesHold'
  BY <1>1, EffectsStep, StagesKept DEF GateInv
<1>3. SameEntries
  BY EntriesStep
<1> QED
  BY <1>1, <1>2, <1>3, QuietStep DEF Shows

LEMMA AnswerIsGateStep ==
  ASSUME TypeOK, GateInv, UNCHANGED <<storeVars, sms>>, NEW r \in Requests,
         NEW a \in Answers, Answer(r, a)
  PROVE  EffectsHold' /\ StagesHold' /\ Shows
<1>1. req'[r] = Done(r, a)
  BY DEF Answer, TypeOK
<1> QED
  BY <1>1, AnswerType, HandlerStep

LEMMA StartStep ==
  ASSUME TypeOK, UpdatesHold, GateInv, NEW r \in Requests, MayStart(r),
         NEW kind, NEW p, NEW u \in Users, NEW ph, NEW c, NEW a,
         NEW pc \in {"done", "checkPhone", "decide"},
         Start(r, kind, p, u, ph, c, pc, a),
         \/ kind = "init"
         \/ kind = "verify" /\ c \in Codes,
         UNCHANGED <<storeVars, writes, sms, lookups>>
  PROVE  EffectsHold' /\ StagesHold' /\ Shows
<1>1. /\ req' = [req EXCEPT ![r] = req'[r]]
      /\ req'[r].pc = pc /\ req'[r].kind = kind /\ req'[r].user = u /\ req'[r].code = c
      /\ \A q \in Requests \ {r} : req'[q] = req[q]
  BY DEF Start, TypeOK, Idle
<1>2. writes[r] = NoChange /\ req[r].kind # "verify"
  BY DEF MayStart, InFlight, UpdatesHold, GateInv, NothingAsked
<1>3. writes' = [writes EXCEPT ![r] = writes'[r]] /\ writes'[r] = NoChange
  BY <1>2 DEF TypeOK
<1>4. OneEffect(r)'
  BY <1>1, <1>3 DEF OneEffect, NoChange, NoFields
<1>5. LogGrows /\ UNCHANGED <<log, sms>>
  BY StoreUnchanged DEF TypeOK, storeVars
<1>6. EffectsHold' /\ StagesHold'
  BY <1>1, <1>3, <1>4, <1>5, EffectsStep, StagesKept DEF GateInv
<1>7. \A v \in Users : OnlyIn(GateOf(v), GateOf(v)', {"entered"})
  <2>1. \A v \in Users : log'[v] = log[v]
    BY <1>5
  <2> QED
    BY <1>5, <2>1, StoreKept, SentKept, GateRecord, GateRecordNext DEF OnlyIn, GateFields
<1>8. \A v \in Users :
        EnteredBy(v)' = EnteredBy(v) \cup IF kind = "verify" /\ v = u THEN {c} ELSE {}
  <2>1. ASSUME NEW v \in Users
        PROVE  EnteredBy(v)' = EnteredBy(v) \cup IF kind = "verify" /\ v = u THEN {c} ELSE {}
    <3> DEFINE asked == {q \in Requests : req[q].kind = "verify" /\ req[q].user = v}
               asks == {q \in Requests : req'[q].kind = "verify" /\ req'[q].user = v}
    <3>1. r \notin asked /\ asks = asked \cup IF kind = "verify" /\ v = u THEN {r} ELSE {}
      BY <1>1, <1>2
    <3>2. EnteredBy(v) = {req[q].code : q \in asked} /\ EnteredBy(v)' = {req'[q].code : q \in asks}
      BY DEF EnteredBy
    <3>3. \A q \in asked : req'[q].code = req[q].code
      BY <1>1, <3>1
    <3> HIDE DEF asked, asks
    <3> QED
      BY <1>1, <3>1, <3>2, <3>3
  <2> QED
    BY <2>1
<1>9. \A v \in Users : EnteredBy(v)' = EnteredBy(v) => OnlyIn(GateOf(v), GateOf(v)', {})
  <2>1. ASSUME NEW v \in Users, EnteredBy(v)' = EnteredBy(v)
        PROVE  GateOf(v)'["entered"] = GateOf(v)["entered"]
    BY <2>1, GateRecord, GateRecordNext
  <2> QED
    BY <1>7, <2>1 DEF OnlyIn
<1>10. CASE kind = "init"
  BY <1>6, <1>8, <1>9, <1>10, NoneChanges DEF Shows
<1>11. CASE kind = "verify" /\ c \in Codes
  <2>1. \A v \in Users \ {u} : EnteredBy(v)' = EnteredBy(v)
    BY <1>8
  <2>2. Changes(u, {"entered"})
    BY <1>7, <1>9, <2>1 DEF Changes
  <2>3. EnteredBy(u)' = EnteredBy(u) \cup {c}
    BY <1>8, <1>11
  <2> QED
    BY <1>6, <1>11, <2>2, <2>3, EnterStep DEF Shows
<1> QED
  BY <1>10, <1>11

LEMMA NoChangeSet ==
  ASSUME NEW s
  PROVE  [NoChange EXCEPT !.set = s] = [set |-> s, add |-> {}, del |-> {}]
BY DEF NoChange

LEMMA InitCheckPhoneStep ==
  ASSUME TypeOK, GateInv, NEW r \in Requests, InitCheckPhone(r)
  PROVE  EffectsHold' /\ StagesHold' /\ Shows
<1> DEFINE set == With([phone |-> req[r].phone], Reset(Base(r)))
           w == [NoChange EXCEPT !.set = set]
<1>1. InFlight(r) /\ HandlerTypeOK(r) /\ Base(r) \in Signup /\ UNCHANGED <<storeVars, sms>>
  BY BaseType DEF InitCheckPhone, InFlight
<1>2. /\ IsUpdate(w)
      /\ w = [set |-> set, add |-> {}, del |-> {}] /\ "code" \notin DOMAIN set
  <2>1. IsUpdate(w)
    BY <1>1, ResetIsUpdate DEF HandlerTypeOK, InitCheckPhone
  <2>2. w = [set |-> set, add |-> {}, del |-> {}]
    BY NoChangeSet
  <2>3. "code" \notin DOMAIN set
    BY DEF With, Reset, NoFields
  <2> QED
    BY <2>1, <2>2, <2>3
<1>3. CASE Answer(r, "phoneInUse")
  BY <1>1, <1>3, AnswerIsGateStep DEF Answers
<1> HIDE DEF set
<1>4. CASE Update(r, w, "limit")
  <2>1. /\ req' = [req EXCEPT ![r] = req'[r]] /\ SameRequest(r)
        /\ writes' = [writes EXCEPT ![r] = writes'[r]] /\ writes'[r] = w
    BY <1>2, <1>4, UpdateType DEF Answers
  <2>2. OneEffect(r)'
    BY <1>2, <2>1 DEF OneEffect
  <2> QED
    BY <1>1, <2>1, <2>2, HandlerStep
<1>5. CASE /\ req' = [req EXCEPT ![r].pc = IF LookupApplies(r) THEN "lookup" ELSE "send",
                                 ![r].clock = now]
           /\ writes' = [writes EXCEPT ![r] = w]
  <2>1. req' = [req EXCEPT ![r] = req'[r]] /\ SameRequest(r)
    <3> DEFINE pcNext == IF LookupApplies(r) THEN "lookup" ELSE "send"
    <3>0. req' = [req EXCEPT ![r].pc = pcNext, ![r].clock = now]
      BY <1>5
    <3> HIDE DEF pcNext
    <3>1. PICK pc, t : req' = [req EXCEPT ![r].pc = pc, ![r].clock = t]
      BY <3>0
    <3>2. req' = [req EXCEPT ![r] = [req[r] EXCEPT !.pc = pc, !.clock = t]]
      BY <3>1 DEF TypeOK
    <3>3. req'[r] = [req[r] EXCEPT !.pc = pc, !.clock = t] /\ req[r] \in Request
      BY <3>2 DEF TypeOK
    <3>4. SameRequest(r)
      <4> HIDE DEF set, w
      <4> QED
        BY <3>3 DEF SameRequest, Request
    <3>5. req' = [req EXCEPT ![r] = req'[r]]
      BY <3>2, <3>3
    <3> QED
      BY <3>4, <3>5
  <2>2. writes' = [writes EXCEPT ![r] = writes'[r]] /\ writes'[r] = w
    BY <1>5 DEF TypeOK
  <2>3. OneEffect(r)'
    BY <1>2, <2>2 DEF OneEffect
  <2> QED
    BY <1>1, <2>1, <2>2, <2>3, HandlerStep
<1> QED
  BY <1>3, <1>4, <1>5 DEF InitCheckPhone, set

LEMMA InitLookupStep ==
  ASSUME TypeOK, UpdatesHold, GateInv, NEW r \in Requests, InitLookup(r)
  PROVE  EffectsHold' /\ StagesHold' /\ Shows
<1>1. /\ InFlight(r) /\ IsUpdate(writes[r]) /\ OneEffect(r) /\ UpdateOK(r)
      /\ req[r] \in Request /\ UNCHANGED <<storeVars, sms>>
  BY DEF InitLookup, InFlight, TypeOK, UpdatesHold, GateInv, EffectsHold
<1>2. writes[r].add = {} /\ writes[r].del = {} /\ "code" \notin DOMAIN writes[r].set
  BY <1>1 DEF OneEffect, UpdateOK, InitLookup
<1>3. ASSUME SameRequest(r), req' = [req EXCEPT ![r] = req'[r]],
             writes' = [writes EXCEPT ![r] = writes'[r]],
             "code" \notin DOMAIN writes'[r].set, writes'[r].del = {},
             req'[r].pc = "get" \/ writes'[r].add = {}
      PROVE  EffectsHold' /\ StagesHold' /\ Shows
  <2>1. OneEffect(r)'
    BY <1>3 DEF OneEffect
  <2> QED
    BY <1>1, <1>3, <2>1, HandlerStep
<1>4. CASE Goto(r, "send") /\ UNCHANGED writes
  <2>1. writes' = [writes EXCEPT ![r] = writes'[r]] /\ writes'[r] = writes[r]
    BY <1>4 DEF TypeOK
  <2> QED
    BY <1>2, <1>3, <1>4, <2>1, GotoType
<1>5. ASSUME NEW risk \in {"low", "high"}
      PROVE  LET w == [writes[r] EXCEPT !.set = With(@, [risk |-> risk])] IN
               /\ Goto(r, "send") /\ writes' = [writes EXCEPT ![r] = w]
                  => EffectsHold' /\ StagesHold' /\ Shows
               /\ /\ req' = [req EXCEPT ![r].pc = "get", ![r].answer = "rejected"]
                  /\ writes' = [writes EXCEPT ![r] = [w EXCEPT !.add = {"rejected"}]]
                  => EffectsHold' /\ StagesHold' /\ Shows
  <2> DEFINE set == With(writes[r].set, [risk |-> risk])
             w == [writes[r] EXCEPT !.set = set]
             x == [w EXCEPT !.add = {"rejected"}]
  <2>1. /\ w = [set |-> set, add |-> writes[r].add, del |-> writes[r].del]
        /\ x = [set |-> set, add |-> {"rejected"}, del |-> writes[r].del]
    BY <1>1, UpdateParts
  <2>2. "code" \notin DOMAIN set
    BY <1>2 DEF With
  <2> HIDE DEF w, x, set
  <2>3. /\ "code" \notin DOMAIN w.set /\ w.del = {} /\ w.add = {}
        /\ "code" \notin DOMAIN x.set /\ x.del = {}
    BY <1>2, <2>1, <2>2
  <2>4. ASSUME Goto(r, "send"), writes' = [writes EXCEPT ![r] = w]
        PROVE  EffectsHold' /\ StagesHold' /\ Shows
    <3>1. writes' = [writes EXCEPT ![r] = writes'[r]] /\ writes'[r] = w
      BY <2>4 DEF TypeOK
    <3> QED
      BY <1>3, <2>3, <2>4, <3>1, GotoType
  <2>5. ASSUME req' = [req EXCEPT ![r].pc = "get", ![r].answer = "rejected"],
               writes' = [writes EXCEPT ![r] = x]
        PROVE  EffectsHold' /\ StagesHold' /\ Shows
    <3>1. /\ req' = [req EXCEPT ![r] = req'[r]]
          /\ req'[r] = [req[r] EXCEPT !.pc = "get", !.answer = "rejected"]
      BY <2>5 DEF TypeOK
    <3>2. req'[r].pc = "get" /\ SameRequest(r)
      BY <1>1, <3>1 DEF SameRequest, Request
    <3>3. writes' = [writes EXCEPT ![r] = writes'[r]] /\ writes'[r] = x
      BY <2>5 DEF TypeOK
    <3> QED
      BY <1>3, <2>3, <3>1, <3>2, <3>3
  <2> QED
    BY <2>4, <2>5 DEF w, x, set
<1> QED
  BY <1>4, <1>5 DEF InitLookup

LEMMA InitSendStep ==
  ASSUME TypeOK, UpdatesHold, GateInv, NEW r \in Requests, InitSend(r)
  PROVE  EffectsHold' /\ StagesHold' /\ Shows
<1>1. /\ InFlight(r) /\ HandlerTypeOK(r) /\ IsUpdate(writes[r]) /\ OneEffect(r) /\ UpdateOK(r)
      /\ req[r] \in Request /\ UNCHANGED storeVars
  BY BaseType DEF InitSend, InFlight, TypeOK, UpdatesHold, GateInv, EffectsHold
<1>2. writes[r].add = {} /\ writes[r].del = {} /\ "code" \notin DOMAIN writes[r].set
  BY <1>1 DEF OneEffect, UpdateOK, InitSend
<1>3. ASSUME NEW a, req' = [req EXCEPT ![r].pc = "get", ![r].answer = a]
      PROVE  req' = [req EXCEPT ![r] = req'[r]] /\ req'[r].pc = "get" /\ SameRequest(r)
  <2>1. req'[r] = [req[r] EXCEPT !.pc = "get", !.answer = a]
    BY <1>3 DEF TypeOK
  <2> QED
    BY <1>1, <1>3, <2>1 DEF TypeOK, SameRequest, Request
<1>4. CASE UNCHANGED <<writes, sms>> /\ req' = [req EXCEPT ![r].pc = "get", ![r].answer = "internal"]
  <2>1. /\ req' = [req EXCEPT ![r] = req'[r]] /\ SameRequest(r)
        /\ writes' = [writes EXCEPT ![r] = writes'[r]] /\ writes'[r] = writes[r]
    BY <1>3, <1>4 DEF TypeOK
  <2>2. OneEffect(r)'
    BY <1>2, <2>1 DEF OneEffect
  <2> QED
    BY <1>1, <1>4, <2>1, <2>2, HandlerStep
<1>5. ASSUME NEW c \in Codes, sms[c] = None,
             sms' = [sms EXCEPT ![c] = [user |-> req[r].user, phone |-> req[r].phone, at |-> req[r].clock]],
             writes' = [writes EXCEPT ![r].set = With(@, CodeFields(r, c))],
             req' = [req EXCEPT ![r].pc = "get", ![r].answer = "ok"]
      PROVE  EffectsHold' /\ StagesHold' /\ Shows
  <2> DEFINE set == With(writes[r].set, CodeFields(r, c))
             w == [writes[r] EXCEPT !.set = set]
  <2>1. writes' = [writes EXCEPT ![r] = writes'[r]] /\ writes'[r] = w
    BY <1>5 DEF TypeOK
  <2>2. w = [set |-> set, add |-> {}, del |-> {}]
    BY <1>1, <1>2, UpdateParts
  <2>3. "code" \in DOMAIN set /\ set["code"] = c
    BY DEF With, CodeFields
  <2> HIDE DEF set, w
  <2>4. c # None
    BY HostStoreAssumption
  <2>5. /\ req' = [req EXCEPT ![r] = req'[r]] /\ req'[r].pc = "get" /\ SameRequest(r)
    BY <1>3, <1>5
  <2>6. OneEffect(r)'
    BY <2>1, <2>2, <2>3, <2>4, <2>5 DEF OneEffect
  <2>7. LogGrows /\ UNCHANGED log
    BY <1>1, StoreUnchanged DEF TypeOK, storeVars
  <2>8. EffectsHold' /\ StagesHold'
    BY <2>1, <2>5, <2>6, <2>7, EffectsStep, StagesKept DEF GateInv
  <2>9. /\ req[r].user \in Users
        /\ \A v \in Users : c \notin SentTo(v)
        /\ \A v \in Users : SentTo(v)' = SentTo(v) \cup IF v = req[r].user THEN {c} ELSE {}
    <3>1. /\ sms'[c] = [user |-> req[r].user, phone |-> req[r].phone, at |-> req[r].clock]
          /\ \A d \in Codes \ {c} : sms'[d] = sms[d]
      BY <1>5 DEF TypeOK
    <3>2. sms'[c] # None /\ sms'[c].user = req[r].user
      <4>1. req[r].user \in Users /\ req[r].phone \in Phones /\ req[r].clock \in Nat
        BY <1>1 DEF HandlerTypeOK, InitSend, Request
      <4> QED
        BY <3>1, <4>1, NoneAssumption DEF Message
    <3>3. req[r].user \in Users
      BY <1>1 DEF HandlerTypeOK
    <3> QED
      BY <1>5, <3>1, <3>2, <3>3 DEF SentTo
  <2>10. PICK u \in Users : u = req[r].user
    BY <2>9
  <2>11. \A v \in Users : OnlyIn(GateOf(v), GateOf(v)', {"sent"})
    <3>1. SameEntries
      BY <2>5, EntriesStep
    <3>2. \A v \in Users : log'[v] = log[v]
      BY <2>7
    <3> QED
      BY <3>1, <3>2, StoreKept, EnteredKept, GateRecord, GateRecordNext DEF OnlyIn, GateFields
  <2>12. \A v \in Users \ {u} : OnlyIn(GateOf(v), GateOf(v)', {})
    <3>1. ASSUME NEW v \in Users \ {u}
          PROVE  GateOf(v)'["sent"] = GateOf(v)["sent"]
      <4>1. SentTo(v)' = SentTo(v)
        BY <2>9, <2>10
      <4> QED
        BY <4>1, GateRecord, GateRecordNext
    <3> QED
      BY <2>11, <3>1 DEF OnlyIn
  <2>13. Changes(u, {"sent"}) /\ SentTo(u)' = SentTo(u) \cup {c}
    BY <2>9, <2>10, <2>11, <2>12 DEF Changes
  <2> QED
    BY <2>8, <2>9, <2>13, SendStep DEF Shows
<1> QED
  BY <1>4, <1>5 DEF InitSend

LEMMA VerifyDecideStep ==
  ASSUME TypeOK, GateInv, NEW r \in Requests, VerifyDecide(r)
  PROVE  EffectsHold' /\ StagesHold' /\ Shows
<1> DEFINE s == Base(r)
           a == Verdict(s, req[r].code)
           w == VerifyWrites(s, a)
<1>1. /\ InFlight(r) /\ HandlerTypeOK(r) /\ s \in Signup /\ UNCHANGED <<storeVars, sms>>
  BY BaseType DEF VerifyDecide, InFlight
<1>2. IsUpdate(w) /\ a \in Answers
  BY <1>1, VerifyIsUpdate
<1>3. CASE Answer(r, "phoneInUse")
  BY <1>1, <1>3, AnswerIsGateStep DEF Answers
<1>4. CASE Update(r, w, a)
  <2>1. /\ w.del # {} => /\ "code" \in DOMAIN w.set /\ w.set.code = None
                         /\ s.code = req[r].code
        /\ "code" \in DOMAIN w.set => w.add = {} /\ w.del # {}
    <3>1. CASE a = "ok"
      <4>1. w = [set |-> Cleared, add |-> {}, del |-> {"verification-required"}]
        BY <3>1 DEF VerifyWrites
      <4>2. "code" \in DOMAIN Cleared /\ Cleared.code = None
        BY DEF Cleared
      <4>3. s.code = req[r].code
        BY <3>1 DEF Verdict
      <4> HIDE DEF w, a, s
      <4> QED
        BY <4>1, <4>2, <4>3
    <3>2. CASE a # "ok"
      <4>1. \/ w = [set |-> [attempts |-> s.attempts + 1], add |-> {}, del |-> {}]
            \/ w = [set |-> [attempts |-> AttemptsAllowed], add |-> {}, del |-> {}]
            \/ w = [set |-> NoFields, add |-> {}, del |-> {}]
        BY <3>2 DEF VerifyWrites, NoChange
      <4> HIDE DEF w, a, s
      <4> QED
        BY <4>1 DEF NoFields
    <3> QED
      BY <3>1, <3>2
  <2> HIDE DEF a, w
  <2>2. /\ req' = [req EXCEPT ![r] = req'[r]] /\ req'[r].pc = "get" /\ SameRequest(r)
        /\ writes' = [writes EXCEPT ![r] = writes'[r]] /\ writes'[r] = w
    BY <1>2, <1>4, UpdateType
  <2>3. Base(r)' = s
    BY <1>1, <2>2, BaseStable, StoreUnchanged DEF TypeOK
  <2>4. OneEffect(r)'
    BY <2>1, <2>2, <2>3 DEF OneEffect, SameRequest
  <2> QED
    BY <1>1, <2>2, <2>4, HandlerStep
<1> QED
  BY <1>3, <1>4 DEF VerifyDecide

\* After a failed try the handler has the same update, or none, and has entered the same code.
LEMMA RetryStep ==
  ASSUME TypeOK, GateInv, NEW r \in Requests, req[r].pc \in {"get", "put"}, Retry(r), LogGrows
  PROVE  EffectsHold' /\ SameEntries
<1>1. InFlight(r) /\ HandlerTypeOK(r) /\ OneEffect(r)
  BY BaseType DEF InFlight, TypeOK, GateInv, EffectsHold
<1>2. /\ req' = [req EXCEPT ![r] = req'[r]]
      /\ writes' = [writes EXCEPT ![r] = writes'[r]]
      /\ \/ req'[r].pc = "get" /\ SameRequest(r) /\ writes' = writes
         \/ ~InFlight(r)' /\ writes'[r] = NoChange
  BY <1>1, RetryType
<1>3. InFlight(r)' => OneEffect(r)'
  BY <1>1, <1>2, EffectStable
<1>4. EffectsHold'
  BY <1>2, <1>3, EffectsStep DEF GateInv
<1>5. SameRequest(r) \/ \E a : req'[r] = Done(r, a)
  <2>1. CASE req[r].tries + 1 < MaxTries
    <3>1. req'[r] = [req[r] EXCEPT !.pc = "get", !.tries = req[r].tries + 1]
      BY <2>1 DEF Retry, TypeOK
    <3>2. req[r] \in Request
      BY DEF TypeOK
    <3> QED
      BY <3>1, <3>2 DEF SameRequest, Request
  <2>2. CASE ~(req[r].tries + 1 < MaxTries)
    BY <2>2 DEF Retry, Answer, TypeOK
  <2> QED
    BY <2>1, <2>2
<1> QED
  BY <1>2, <1>4, <1>5, EntriesStep

LEMMA GetStep ==
  ASSUME TypeOK, GateInv, NEW r \in Requests, Get(r)
  PROVE  EffectsHold' /\ StagesHold' /\ Shows
<1>1. /\ InFlight(r) /\ HandlerTypeOK(r) /\ OneEffect(r) /\ req[r] \in Request
      /\ UNCHANGED <<storeVars, sms>> /\ UNCHANGED log /\ LogGrows
  BY BaseType, StoreUnchanged DEF Get, InFlight, TypeOK, GateInv, EffectsHold, storeVars
<1>2. CASE Retry(r)
  BY <1>1, <1>2, RetryStep, StagesKept, QuietStep DEF Get, GateInv, Shows
<1>3. CASE /\ req' = [req EXCEPT ![r].pc = "put", ![r].copy = seen[req[r].at][req[r].user]]
           /\ UNCHANGED writes
  <2>1. /\ req'[r] = [req[r] EXCEPT !.pc = "put", !.copy = seen[req[r].at][req[r].user]]
        /\ req' = [req EXCEPT ![r] = req'[r]]
        /\ writes' = [writes EXCEPT ![r] = writes'[r]] /\ writes'[r] = writes[r]
    BY <1>3 DEF TypeOK
  <2>2. req'[r].pc = "put" /\ SameRequest(r)
    BY <1>1, <2>1 DEF SameRequest, Request
  <2>3. OneEffect(r)'
    BY <1>1, <2>1, <2>2, EffectStable
  <2> QED
    BY <1>1, <2>1, <2>2, <2>3, HandlerStep
<1> QED
  BY <1>2, <1>3 DEF Get

LEMMA PutShows ==
  ASSUME TypeOK, UpdatesHold, GateInv, NEW r \in Requests, req[r].pc = "put",
         IsCurrent(req[r].user, req[r].copy), NewVersion(req[r].user, Written(r)),
         UNCHANGED <<banned, now, sms>>, SameEntries
  PROVE  LogGrows /\ StagesHold' /\ Shows
<1>1. UpdateOK(r) /\ OneEffect(r) /\ req[r].user \in Users
  BY BaseType DEF InFlight, UpdatesHold, GateInv, EffectsHold, HandlerTypeOK
<1>2. PICK u \in Users : u = req[r].user
  BY <1>1
<1>3. Written(r) \in Signup
  BY WrittenType
<1>4. LogGrows
  BY <1>2, <1>3, NewVersionType DEF TypeOK
<1>5. IsCurrent(u, req[r].copy) /\ NewVersion(u, Written(r))
  BY <1>2
<1> QED
  BY <1>1, <1>2, <1>4, <1>5, UpdateStep DEF GateInv, Shows

LEMMA PutStep ==
  ASSUME TypeOK, UpdatesHold, GateInv, NEW r \in Requests, Put(r)
  PROVE  EffectsHold' /\ StagesHold' /\ Shows
<1>1. /\ req' = [req EXCEPT ![r] = req'[r]] /\ ~InFlight(r)'
      /\ writes' = [writes EXCEPT ![r] = writes'[r]]
      /\ req'[r] = Done(r, req[r].answer)
  <2>1. req[r].answer \in Answers
    BY BaseType DEF Put, InFlight, HandlerTypeOK, TypeOK, Request, Opt
  <2>2. req'[r] = Done(r, req[r].answer)
    BY DEF Put, Answer, TypeOK
  <2> QED
    BY <2>1, <2>2, AnswerType DEF Put
<1>2. SameEntries
  BY <1>1, EntriesStep
<1>3. LogGrows /\ StagesHold' /\ Shows
  BY <1>2, PutShows DEF Put
<1> QED
  BY <1>1, <1>3, EffectsStep DEF GateInv

LEMMA PutConflictStep ==
  ASSUME TypeOK, GateInv, NEW r \in Requests, PutConflict(r)
  PROVE  EffectsHold' /\ StagesHold' /\ Shows
<1>1. UNCHANGED <<log, sms>> /\ LogGrows
  BY StoreUnchanged DEF PutConflict, TypeOK, storeVars
<1> QED
  BY <1>1, RetryStep, StagesKept, QuietStep DEF PutConflict, GateInv, Shows

LEMMA PutErrorStep ==
  ASSUME TypeOK, UpdatesHold, GateInv, NEW r \in Requests, PutError(r)
  PROVE  EffectsHold' /\ StagesHold' /\ Shows
<1>1. CASE UNCHANGED <<log, seen>>
  <2>1. UNCHANGED <<log, sms>> /\ LogGrows
    BY <1>1, StoreUnchanged DEF PutError, TypeOK, storeVars
  <2> QED
    BY <2>1, RetryStep, StagesKept, QuietStep DEF PutError, GateInv, Shows
<1>2. CASE /\ IsCurrent(req[r].user, req[r].copy)
           /\ NewVersion(req[r].user, Written(r))
  <2>1. LogGrows
    <3>1. req[r].user \in Users /\ Written(r) \in Signup
      BY BaseType, WrittenType DEF PutError, InFlight, HandlerTypeOK
    <3> QED
      BY <1>2, <3>1, NewVersionType DEF PutError, TypeOK
  <2>2. EffectsHold' /\ SameEntries
    BY <2>1, RetryStep DEF PutError
  <2> QED
    BY <1>2, <2>2, PutShows DEF PutError
<1> QED
  BY <1>1, <1>2 DEF PutError

LEMMA CrashStep ==
  ASSUME TypeOK, GateInv, NEW p \in Replicas, Crash(p)
  PROVE  EffectsHold' /\ StagesHold' /\ Shows
<1> DEFINE lost(r) == InFlight(r) /\ req[r].at = p
<1>1. UNCHANGED <<log, sms>> /\ LogGrows
  BY DEF Crash, LogGrows, TypeOK, StoreTypeOK
<1>2. ASSUME NEW r \in Requests, lost(r)
      PROVE  ~InFlight(r)' /\ \E a \in Answers : req'[r] = Done(r, a)
  <2>1. req'[r] = Done(r, "lost") /\ "lost" \in Answers
    BY <1>2 DEF Crash, Answers
  <2> QED
    BY <2>1, DoneType DEF InFlight, TypeOK
<1>3. ASSUME NEW r \in Requests, ~lost(r)
      PROVE  req'[r] = req[r] /\ writes'[r] = writes[r]
  BY <1>3 DEF Crash
<1> HIDE DEF lost
<1>4. ASSUME NEW r \in Requests, InFlight(r)'
      PROVE  OneEffect(r)'
  <2>1. req'[r] = req[r] /\ writes'[r] = writes[r]
    BY <1>2, <1>3, <1>4
  <2>2. HandlerTypeOK(r) /\ OneEffect(r)
    BY <1>4, <2>1 DEF InFlight, TypeOK, GateInv, EffectsHold
  <2> QED
    BY <1>1, <2>1, <2>2, EffectStable DEF SameRequest
<1>5. SameEntries
  BY <1>2, <1>3, DoneEntry DEF SameEntries
<1> QED
  BY <1>1, <1>4, <1>5, StagesKept, QuietStep DEF EffectsHold, GateInv, Shows

\* What a write of the operator or of an administrator shows as.
LEMMA OperatorStep ==
  ASSUME TypeOK, GateInv, NEW u \in Users, NEW s \in Signup, Latest(u) \in Signup,
         OperatorWrites(u, s), UNCHANGED sms, SameEntries,
         s.code = Latest(u).code,
         \/ s.states = Latest(u).states
         \/ s.states = (Latest(u).states \cup {"deactivated"}) \ {"approved"}
         \/ /\ s.states = (Latest(u).states \cup {"approved"})
                            \ {"verification-required", "deactivated"}
            /\ "verification-required" \in Latest(u).states
  PROVE  StagesHold' /\ Shows
<1> DEFINE l == Latest(u)
<1>1. /\ s # Absent /\ l # Absent
      /\ NewVersion(u, s) /\ UNCHANGED <<banned, now, sms>>
  BY HostStoreAssumption DEF OperatorWrites
<1>2. OneStage(l) /\ OneStage(s)
  BY <1>1 DEF GateInv, StagesHold, OneStage
<1>3. StagesHold'
  BY <1>1, <1>2, StagesWritten DEF GateInv
<1>4. /\ Changes(u, {"stage", "rejected", "stored", "current"})
      /\ Latest(u)' = s
      /\ StoredFor(u)' = StoredFor(u) \cup ({s.code} \ {None})
  BY <1>1, VersionStep
<1>5. StoredFor(u)' = StoredFor(u)
  <2>1. l \in Versions(u) /\ l.code \in Opt(Codes)
    BY <1>1 DEF Latest, Versions, TypeOK, StoreTypeOK, Signup
  <2>2. l.code \in StoredFor(u) \cup {None}
    BY <2>1 DEF StoredFor, Opt
  <2> QED
    BY <1>4, <2>2
<1>6. /\ Rejected(Latest(u))' = Rejected(Latest(u))
      /\ CurrentCode(Latest(u))' = CurrentCode(Latest(u))
      /\ Stage(Latest(u))' = Stage(s)
  BY <1>1, <1>4 DEF Rejected, CurrentCode, Stage
<1>7. Changes(u, {"stage"})
  BY <1>4, <1>5, <1>6, ChangesLess
<1>8. CASE Stage(s) = Stage(Latest(u))
  <2>1. Changes(u, {})
    BY <1>4, <1>5, <1>6, <1>8, ChangesLess
  <2> QED
    BY <1>3, <2>1, NoneChanges DEF Changes, Shows
<1>9. CASE Stage(Latest(u)) = "approved" /\ Stage(s) = "passed"
  BY <1>3, <1>6, <1>7, <1>9, DeactivateStep DEF Shows
<1>10. CASE Stage(Latest(u)) = "waiting" /\ Stage(s) = "approved"
  BY <1>3, <1>6, <1>7, <1>10, ApproveStep DEF Shows
<1>11. \/ Stage(s) = Stage(Latest(u))
       \/ Stage(Latest(u)) = "approved" /\ Stage(s) = "passed"
       \/ Stage(Latest(u)) = "waiting" /\ Stage(s) = "approved"
  BY <1>1 DEF Stage
<1> QED
  BY <1>8, <1>9, <1>10, <1>11

LEMMA EnvironmentStep ==
  ASSUME TypeOK, GateInv, StoreNext, UNCHANGED phoneVars
  PROVE  EffectsHold' /\ StagesHold' /\ Shows
<1>1. LogGrows /\ UNCHANGED <<req, writes, sms>> /\ SameEntries
  BY StoreStepType DEF TypeOK, phoneVars, SameEntries
<1>2. EffectsHold'
  <2>1. ASSUME NEW r \in Requests, InFlight(r)'
        PROVE  OneEffect(r)'
    <3>1. HandlerTypeOK(r) /\ OneEffect(r)
      BY <1>1, <2>1 DEF InFlight, TypeOK, GateInv, EffectsHold
    <3> QED
      BY <1>1, <3>1, EffectStable DEF SameRequest
  <2> QED
    BY <2>1 DEF EffectsHold
<1>3. CASE UNCHANGED log
  BY <1>1, <1>2, <1>3, StagesKept, QuietStep DEF GateInv, Shows
<1>4. ASSUME NEW u \in Users, OperatorDeletes(u)
      PROVE  StagesHold' /\ Shows
  <2>1. NewVersion(u, Absent) /\ UNCHANGED <<banned, now, sms>>
    BY <1>1, <1>4 DEF OperatorDeletes, OperatorWrites
  <2>2. /\ Changes(u, {"stage", "rejected", "stored", "current"})
        /\ Latest(u)' = Absent
        /\ StoredFor(u)' = StoredFor(u)
    BY <1>1, <2>1, VersionStep
  <2>3. /\ Stage(Latest(u)) = "waiting" /\ Stage(Latest(u))' = "gone"
        /\ Rejected(Latest(u))' = FALSE /\ CurrentCode(Latest(u))' = None
    BY <1>4, <2>2 DEF OperatorDeletes, Stage, Rejected, CurrentCode
  <2>4. Changes(u, {"stage", "rejected", "current"})
    BY <2>2, <2>3, ChangesLess
  <2>5. StagesHold'
    BY <2>1, StagesWritten DEF GateInv
  <2> QED
    BY <2>3, <2>4, <2>5, DeleteStep DEF Shows
<1>5. ASSUME NEW u \in Users,
             \/ OperatorApproves(u)
             \/ OperatorDeactivates(u)
             \/ OperatorReports(u)
             \/ AdminApproves(u)
      PROVE  StagesHold' /\ Shows
  <2>1. Latest(u) \in Signup
    BY <1>5, LatestType
       DEF TypeOK, OperatorApproves, OperatorDeactivates, OperatorReports, AdminApproves
  <2>2. /\ Approved(Latest(u)).code = Latest(u).code
        /\ Deactivated(Latest(u)).code = Latest(u).code
        /\ ApprovedManually(Latest(u)).code = Latest(u).code
        /\ \A c : Reported(Latest(u), c).code = Latest(u).code
    <3>1. ASSUME NEW s \in Signup
          PROVE  /\ Approved(s).code = s.code /\ Deactivated(s).code = s.code
                 /\ ApprovedManually(s).code = s.code /\ \A c : Reported(s, c).code = s.code
      BY DEF Approved, Deactivated, ApprovedManually, Reported, Signup
    <3> QED
      BY <2>1, <3>1
  <2>3. CASE OperatorApproves(u)
    BY <1>1, <2>1, <2>2, <2>3, OperatorStates, OperatorType, OperatorStep DEF OperatorApproves
  <2>4. CASE OperatorDeactivates(u)
    BY <1>1, <2>1, <2>2, <2>4, OperatorStates, OperatorType, OperatorStep DEF OperatorDeactivates
  <2>5. CASE OperatorReports(u)
    BY <1>1, <2>1, <2>2, <2>5, OperatorStates, OperatorType, OperatorStep DEF OperatorReports
  <2>6. CASE AdminApproves(u)
    BY <1>1, <2>1, <2>2, <2>6, OperatorStates, OperatorType, OperatorStep DEF AdminApproves
  <2> QED
    BY <1>5, <2>3, <2>4, <2>5, <2>6
<1>6. \/ UNCHANGED log
      \/ \E u \in Users : \/ OperatorDeletes(u)
                          \/ OperatorApproves(u)
                          \/ OperatorDeactivates(u)
                          \/ OperatorReports(u)
                          \/ AdminApproves(u)
  BY DEF StoreNext, InformerSync, Tick, BanPhone, BanUser
<1> QED
  BY <1>2, <1>3, <1>4, <1>5, <1>6

-----------------------------------------------------------------------------
(* The refinement.                                                         *)

\* A request that has arrived never looks as if it had not.
LEMMA AskedStep ==
  ASSUME TypeOK, NothingAsked, [Next]_vars
  PROVE  NothingAsked'
<1> SUFFICES ASSUME NEW r \in Requests
             PROVE  req'[r] = req[r] \/ req'[r].pc # "idle"
  BY DEF NothingAsked
<1>1. ASSUME NEW a, req'[r] = Done(r, a)
      PROVE  req'[r].pc = "done"
  <2>1. ASSUME NEW q \in Request
        PROVE  [q EXCEPT !.pc = "done", !.answer = a, !.clock = 0, !.copy = 0, !.tries = 0].pc = "done"
    BY DEF Request
  <2>2. req[r] \in Request
    BY DEF TypeOK
  <2> QED
    BY <1>1, <2>1, <2>2 DEF Done
<1>2. ASSUME NEW q \in Requests, NEW a, req' = [req EXCEPT ![q] = Done(q, a)]
      PROVE  req'[r] = req[r] \/ req'[r].pc # "idle"
  BY <1>1, <1>2 DEF TypeOK
<1>3. ASSUME NEW q \in Requests, NEW pc \in {"lookup", "send", "get", "put"}, NEW a, NEW b,
             \/ req' = [req EXCEPT ![q].pc = pc]
             \/ req' = [req EXCEPT ![q].pc = pc, ![q].answer = a]
             \/ req' = [req EXCEPT ![q].pc = pc, ![q].clock = a]
             \/ req' = [req EXCEPT ![q].pc = pc, ![q].clock = a, ![q].answer = b]
             \/ req' = [req EXCEPT ![q].pc = pc, ![q].copy = a]
             \/ req' = [req EXCEPT ![q].pc = pc, ![q].tries = a]
      PROVE  req'[r] = req[r] \/ req'[r].pc # "idle"
  <2>1. ASSUME NEW x \in Request
        PROVE  /\ [x EXCEPT !.pc = pc].pc = pc /\ [x EXCEPT !.pc = pc, !.answer = a].pc = pc
               /\ [x EXCEPT !.pc = pc, !.clock = a].pc = pc
               /\ [x EXCEPT !.pc = pc, !.clock = a, !.answer = b].pc = pc
               /\ [x EXCEPT !.pc = pc, !.copy = a].pc = pc
               /\ [x EXCEPT !.pc = pc, !.tries = a].pc = pc
    BY DEF Request
  <2>2. req[q] \in Request /\ (r # q => req'[r] = req[r])
    BY <1>3 DEF TypeOK
  <2>3. \/ req'[q] = [req[q] EXCEPT !.pc = pc]
        \/ req'[q] = [req[q] EXCEPT !.pc = pc, !.answer = a]
        \/ req'[q] = [req[q] EXCEPT !.pc = pc, !.clock = a]
        \/ req'[q] = [req[q] EXCEPT !.pc = pc, !.clock = a, !.answer = b]
        \/ req'[q] = [req[q] EXCEPT !.pc = pc, !.copy = a]
        \/ req'[q] = [req[q] EXCEPT !.pc = pc, !.tries = a]
    BY <1>3 DEF TypeOK
  <2>4. req'[q].pc = pc
    BY <2>1, <2>2, <2>3
  <2> QED
    BY <2>2, <2>4
<1>4. ASSUME NEW q \in Requests, Retry(q)
      PROVE  req'[r] = req[r] \/ req'[r].pc # "idle"
  <2>1. CASE req' = [req EXCEPT ![q].pc = "get", ![q].tries = req[q].tries + 1]
    BY <1>3, <2>1
  <2>2. CASE Answer(q, "internal")
    BY <1>2, <2>2 DEF Answer
  <2> QED
    BY <1>4, <2>1, <2>2 DEF Retry
<1>5. ASSUME NEW q \in Requests, NEW w, NEW a, Update(q, w, a)
      PROVE  req'[r] = req[r] \/ req'[r].pc # "idle"
  BY <1>3, <1>5 DEF Update
<1>6. ASSUME NEW q \in Requests, NEW a, Answer(q, a)
      PROVE  req'[r] = req[r] \/ req'[r].pc # "idle"
  BY <1>2, <1>6 DEF Answer
<1>7. ASSUME NEW q \in Requests, NEW kind, NEW p, NEW u, NEW ph, NEW c, NEW a,
             NEW pc \in {"done", "checkPhone", "decide"}, Start(q, kind, p, u, ph, c, pc, a)
      PROVE  req'[r] = req[r] \/ req'[r].pc # "idle"
  BY <1>7 DEF Start, Idle, TypeOK
<1>8. ASSUME NEW q \in Requests, Handle(q)
      PROVE  req'[r] = req[r] \/ req'[r].pc # "idle"
  <2>1. CASE InitCheckPhone(q)
    <3>1. CASE req' = [req EXCEPT ![q].pc = IF LookupApplies(q) THEN "lookup" ELSE "send",
                                  ![q].clock = now]
      BY <1>3, <3>1
    <3> QED
      BY <1>5, <1>6, <2>1, <3>1 DEF InitCheckPhone
  <2>2. CASE InitLookup(q)
    BY <1>3, <2>2 DEF InitLookup, Goto
  <2>3. CASE InitSend(q)
    BY <1>3, <2>3 DEF InitSend
  <2>4. CASE VerifyDecide(q)
    BY <1>5, <1>6, <2>4 DEF VerifyDecide
  <2>5. CASE Get(q)
    BY <1>3, <1>4, <2>5 DEF Get
  <2>6. CASE Put(q)
    BY <1>2, <2>6 DEF Put, Answer
  <2>7. CASE PutConflict(q) \/ PutError(q)
    BY <1>4, <2>7 DEF PutConflict, PutError
  <2> QED
    BY <1>8, <2>1, <2>2, <2>3, <2>4, <2>5, <2>6, <2>7 DEF Handle
<1>9. ASSUME NEW q \in Requests, Arrive(q)
      PROVE  req'[r] = req[r] \/ req'[r].pc # "idle"
  BY <1>7, <1>9 DEF Arrive, InitStart, VerifyStart
<1>10. ASSUME NEW p \in Replicas, Crash(p)
      PROVE  req'[r] = req[r] \/ req'[r].pc # "idle"
  <2>1. req'[r] = Done(r, "lost") \/ req'[r] = req[r]
    BY <1>10 DEF Crash
  <2> QED
    BY <1>1, <2>1
<1> QED
  BY <1>8, <1>9, <1>10 DEF Next, phoneVars, Finished, vars

LEMMA InitGate == Init => GateInv
<1> SUFFICES ASSUME Init
             PROVE  GateInv
  OBVIOUS
<1>1. EffectsHold /\ NothingAsked
  BY NoneAssumption DEF Init, EffectsHold, NothingAsked, InFlight, Idle
<1>2. StagesHold
  <2>1. ASSUME NEW u \in Users
        PROVE  OneStage(Latest(u))
    <3>1. PICK score \in Scores, activated \in Counters : log[u] = <<Fresh(score, activated)>>
      BY DEF Init
    <3>2. Latest(u) = Fresh(score, activated)
      BY <3>1 DEF Latest
    <3> QED
      BY <3>2 DEF Fresh, OneStage
  <2> QED
    BY <2>1 DEF StagesHold
<1> QED
  BY <1>1, <1>2 DEF GateInv

\* Initially no gate has been passed, and nothing sent, stored or entered.
LEMMA InitRefines == Init => Gate!Init
<1> SUFFICES ASSUME Init, NEW u \in Users
             PROVE  GateOf(u) = Gate!Closed
  BY DEF Gate!Init
<1>1. PICK score \in Scores, activated \in Counters : log[u] = <<Fresh(score, activated)>>
  BY DEF Init
<1>2. /\ Latest(u) = Fresh(score, activated) /\ Fresh(score, activated) \in Signup
      /\ Versions(u) = {Fresh(score, activated)}
  <2>1. Fresh(score, activated) \in Signup
    BY PhoneVerificationAssumption DEF Fresh, Signup, States, Opt
  <2> QED
    BY <1>1, <2>1, HostStoreAssumption DEF Latest, Versions
<1>3. /\ Stage(Latest(u)) = "waiting" /\ Rejected(Latest(u)) = FALSE
      /\ CurrentCode(Latest(u)) = None
  BY <1>2, HostStoreAssumption DEF Stage, Rejected, CurrentCode, Fresh
<1>4. StoredFor(u) = {}
  BY <1>2, HostStoreAssumption DEF StoredFor, Fresh
<1>5. SentTo(u) = {} /\ EnteredBy(u) = {}
  BY NoneAssumption DEF Init, SentTo, EnteredBy, Idle
<1> QED
  BY <1>3, <1>4, <1>5 DEF GateOf, Gate!Closed

\* Every step of the handlers and of their environment is a step of the gate, or does not show.
LEMMA NextRefines ==
  ASSUME TypeOK, UpdatesHold, GateInv, [Next]_vars
  PROVE  GateInv' /\ [Gate!Next]_gateOf
<1>1. NothingAsked'
  BY AskedStep DEF GateInv
<1>2. ASSUME NEW r \in Requests, Handle(r)
      PROVE  EffectsHold' /\ StagesHold' /\ Shows
  BY <1>2, InitCheckPhoneStep, InitLookupStep, InitSendStep, VerifyDecideStep, GetStep,
     PutStep, PutConflictStep, PutErrorStep DEF Handle
<1>3. ASSUME NEW r \in Requests, Arrive(r)
      PROVE  EffectsHold' /\ StagesHold' /\ Shows
  BY <1>3, StartStep DEF Arrive, InitStart, VerifyStart
<1>4. CASE UNCHANGED vars
  <2>1. UNCHANGED <<log, req, writes, sms>> /\ SameEntries
    BY <1>4 DEF vars, SameEntries
  <2>2. EffectsHold'
    BY <2>1 DEF GateInv, EffectsHold, OneEffect, InFlight, Base
  <2>3. StagesHold' /\ Shows
    BY <2>1, StagesKept, QuietStep DEF GateInv, Shows
  <2> QED
    BY <1>1, <2>2, <2>3 DEF GateInv, Shows
<1>5. ASSUME NEW p \in Replicas, Crash(p)
      PROVE  EffectsHold' /\ StagesHold' /\ Shows
  BY <1>5, CrashStep
<1>6. CASE StoreNext /\ UNCHANGED phoneVars
  BY <1>1, <1>6, EnvironmentStep DEF GateInv, Shows
<1> QED
  BY <1>1, <1>2, <1>3, <1>4, <1>5, <1>6 DEF Next, Finished, GateInv, Shows

\* PhoneVerification implements PhoneGate: for any number of users, requests, replicas and
\* codes, through lagging caches, conflicts, failed writes and crashes, a user gets past the
\* phone verification only by entering a code that was sent to that user and stored
\* (verification_service.go:75-221, 304-435).
THEOREM Refinement == Spec => ImplementsGate
<1>1. Init => Gate!Init /\ GateInv
  BY InitRefines, InitGate
<1>2. IInv /\ GateInv /\ [Next]_vars => GateInv' /\ [Gate!Next]_([u \in Users |-> GateOf(u)])
  BY NextRefines DEF IInv, gateOf
<1> QED
  BY <1>1, <1>2, Inductive, PTL DEF Spec, ImplementsGate, Gate!Spec

-----------------------------------------------------------------------------
(* What the gate promises: codes are never sent to two users, and what is  *)
(* stored for a user was sent to that user.                                *)

VARIABLE gate

Abstract == INSTANCE PhoneGate

AbstractInv == gate \in [Users -> Abstract!Gate] /\ Abstract!GateHolds

\* What Becomes has to show of the one gate that changes.
LEMMA BecomesHolds ==
  ASSUME AbstractInv, NEW u \in Users, NEW g \in Abstract!Gate, Abstract!Becomes(u, g),
         g.current \in g.stored \cup {None}, g.stored \subseteq g.sent,
         \A v \in Users \ {u} : g.sent \cap gate[v].sent = {}
  PROVE  AbstractInv'
<1>1. gate' \in [Users -> Abstract!Gate] /\ gate'[u] = g /\ \A v \in Users \ {u} : gate'[v] = gate[v]
  BY DEF AbstractInv, Abstract!Becomes
<1>2. ASSUME NEW v \in Users
      PROVE  /\ gate'[v].current \in gate'[v].stored \cup {None}
             /\ gate'[v].stored \subseteq gate'[v].sent
             /\ \A x \in Users \ {v} : gate'[v].sent \cap gate'[x].sent = {}
  <2>1. CASE v = u
    BY <1>1, <2>1
  <2>2. CASE v # u
    <3>1. gate'[v] = gate[v] /\ g.sent \cap gate[v].sent = {}
      BY <1>1, <2>2
    <3> QED
      BY <1>1, <3>1 DEF AbstractInv, Abstract!GateHolds
  <2> QED
    BY <2>1, <2>2
<1> QED
  BY <1>1, <1>2 DEF AbstractInv, Abstract!GateHolds

\* Steps that send nothing and store nothing.
LEMMA SameCodes ==
  ASSUME AbstractInv, NEW u \in Users, NEW g \in Abstract!Gate, Abstract!Becomes(u, g),
         g.sent = gate[u].sent, g.stored = gate[u].stored, g.current \in {gate[u].current, None}
  PROVE  AbstractInv'
BY BecomesHolds DEF AbstractInv, Abstract!GateHolds

LEMMA EnteredType ==
  ASSUME NEW g \in Abstract!Gate, NEW c \in Codes
  PROVE  LET h == [g EXCEPT !.entered = @ \cup {c}] IN
           h \in Abstract!Gate /\ h.sent = g.sent /\ h.stored = g.stored /\ h.current = g.current
BY DEF Abstract!Gate

LEMMA StoredType ==
  ASSUME NEW g \in Abstract!Gate, NEW c \in Codes
  PROVE  LET h == [g EXCEPT !.stored = @ \cup {c}, !.current = c] IN
           h \in Abstract!Gate /\ h.sent = g.sent /\ h.stored = g.stored \cup {c} /\ h.current = c
BY DEF Abstract!Gate

LEMMA PassedType ==
  ASSUME NEW g \in Abstract!Gate
  PROVE  LET h == [g EXCEPT !.stage = IF @ = "waiting" THEN "passed" ELSE @, !.current = None] IN
           h \in Abstract!Gate /\ h.sent = g.sent /\ h.stored = g.stored /\ h.current = None
<1> DEFINE t == IF g.stage = "waiting" THEN "passed" ELSE g.stage
           h == [g EXCEPT !.stage = t, !.current = None]
<1>1. t \in {"waiting", "passed", "approved", "gone"}
  BY DEF Abstract!Gate
<1> HIDE DEF t
<1>2. h \in Abstract!Gate /\ h.sent = g.sent /\ h.stored = g.stored /\ h.current = None
  BY <1>1 DEF Abstract!Gate
<1> QED
  BY <1>2 DEF t

\* Nobody gets past the gate with a code sent to somebody else: in every run of the gate.
THEOREM GateAlwaysHolds == Abstract!Spec => []Abstract!GateHolds
<1>1. Abstract!Init => AbstractInv
  BY DEF Abstract!Init, AbstractInv, Abstract!GateHolds, Abstract!Closed, Abstract!Gate
<1>2. AbstractInv /\ [Abstract!Next]_gate => AbstractInv'
  <2> SUFFICES ASSUME AbstractInv, [Abstract!Next]_gate
               PROVE  AbstractInv'
    OBVIOUS
  <2>1. CASE UNCHANGED gate
    BY <2>1 DEF AbstractInv, Abstract!GateHolds
  <2>2. ASSUME NEW u \in Users, NEW c \in Codes, Abstract!Send(u, c)
        PROVE  AbstractInv'
    BY <2>2, BecomesHolds DEF Abstract!Send, AbstractInv, Abstract!GateHolds, Abstract!Gate
  <2>3. ASSUME NEW u \in Users, NEW c \in Codes, Abstract!Enter(u, c)
        PROVE  AbstractInv'
    BY <2>3, SameCodes, EnteredType DEF Abstract!Enter, AbstractInv
  <2>4. ASSUME NEW u \in Users, NEW c \in Codes, Abstract!Store(u, c)
        PROVE  AbstractInv'
    <3> DEFINE h == [gate[u] EXCEPT !.stored = @ \cup {c}, !.current = c]
    <3>1. gate[u] \in Abstract!Gate
      BY DEF AbstractInv
    <3>2. /\ h \in Abstract!Gate /\ h.sent = gate[u].sent
          /\ h.stored = gate[u].stored \cup {c} /\ h.current = c
      BY <3>1, StoredType
    <3>3. Abstract!Becomes(u, h) /\ c \in gate[u].sent
      BY <2>4 DEF Abstract!Store
    <3> HIDE DEF h
    <3> QED
      BY <3>2, <3>3, BecomesHolds DEF AbstractInv, Abstract!GateHolds
  <2>5. ASSUME NEW u \in Users, Abstract!Pass(u)
        PROVE  AbstractInv'
    BY <2>5, SameCodes, PassedType DEF Abstract!Pass, AbstractInv
  <2>6. ASSUME NEW u \in Users, Abstract!Reject(u) \/ Abstract!Approve(u) \/ Abstract!Deactivate(u) \/ Abstract!Delete(u)
        PROVE  AbstractInv'
    BY <2>6, SameCodes DEF Abstract!Reject, Abstract!Approve, Abstract!Deactivate, Abstract!Delete, AbstractInv, Abstract!Gate
  <2> QED
    BY <2>1, <2>2, <2>3, <2>4, <2>5, <2>6 DEF Abstract!Next
<1>3. AbstractInv => Abstract!GateHolds
  BY DEF AbstractInv
<1> QED
  BY <1>1, <1>2, <1>3, PTL DEF Abstract!Spec
=============================================================================
