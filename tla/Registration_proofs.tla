--------------------------- MODULE Registration_proofs ---------------------------
(***************************************************************************)
(* Proofs about Registration, for every value of its constants: of         *)
(* requests handled one at a time on caches that do not lag, with writes   *)
(* that succeed, while others ban users and phones and delete UserSignups. *)
(***************************************************************************)
EXTENDS Registration, HostStore_proofs, FiniteSetTheorems

\* What is proved of the components, in the variables of Registration.
PV == INSTANCE PhoneVerification_proofs WITH
        MaxRequests <- MaxPhoneRequests, gate <- [u \in Users |-> Phone!GateOf(u)]

AC == INSTANCE ActivationCode_proofs WITH MaxRequests <- MaxSignups, req <- signups

-----------------------------------------------------------------------------
(* The components in the words of their proofs.                            *)

LEMMA StoreAssumed == PV!HostStoreAssumption /\ AC!HostStoreAssumption
BY HostStoreAssumption
   DEF HostStoreAssumption, PV!HostStoreAssumption, AC!HostStoreAssumption, Signup, PV!Signup,
       AC!Signup, Opt, PV!Opt, AC!Opt, States, PV!States, AC!States

LEMMA PhoneAssumed == PV!PhoneVerificationAssumption /\ PV!NoneAssumption
BY RegistrationAssumption
   DEF RegistrationAssumption, PV!PhoneVerificationAssumption, Phone!PhoneVerificationAssumption,
       PV!NoneAssumption, Phone!NoneAssumption, PV!Opt, Phone!Opt, PV!Answers, Phone!Answers,
       PV!Message, Phone!Message

LEMMA SocialAssumed ==
  /\ AC!SignupServiceAssumption /\ AC!NoneAssumption
  /\ AC!ActivationCodeAssumption /\ AC!ActivationNoneAssumption
<1>1. AC!SignupServiceAssumption
  BY RegistrationAssumption
     DEF RegistrationAssumption, AC!SignupServiceAssumption, Social!SignupServiceAssumption,
         AC!Opt, Social!Opt
<1>2. AC!NoneAssumption
  BY RegistrationAssumption
     DEF RegistrationAssumption, AC!NoneAssumption, Social!NoneAssumption, AC!Signup,
         Social!Signup, AC!Opt, Social!Opt, AC!States, Social!States, AC!SignupAnswers,
         Social!SignupAnswers, AC!GetAnswers, Social!GetAnswers
<1>3. AC!ActivationCodeAssumption /\ AC!ActivationNoneAssumption
  BY RegistrationAssumption
     DEF RegistrationAssumption, AC!ActivationCodeAssumption, Social!ActivationCodeAssumption,
         AC!ActivationNoneAssumption, Social!ActivationNoneAssumption, AC!ActivationAnswers,
         Social!ActivationAnswers
<1> QED
  BY <1>1, <1>2, <1>3

LEMMA SameCardinality ==
  \A S : /\ Phone!Cardinality(S) = Cardinality(S) /\ PV!Cardinality(S) = Cardinality(S)
         /\ Social!Cardinality(S) = Cardinality(S) /\ AC!Cardinality(S) = Cardinality(S)
BY DEF Phone!Cardinality, PV!Cardinality, Social!Cardinality, AC!Cardinality, Cardinality

LEMMA SamePhoneMayStart == \A r : Phone!MayStart(r) <=> PV!MayStart(r)
BY SameCardinality DEF Phone!MayStart, PV!MayStart, Phone!InFlight, PV!InFlight, Phone!Requests, PV!Requests

LEMMA SameInitStart == \A r, p, u, ph : Phone!InitStart(r, p, u, ph) <=> PV!InitStart(r, p, u, ph)
BY SamePhoneMayStart DEF Phone!InitStart, PV!InitStart, Phone!Cached, PV!Cached, Phone!Idle, PV!Idle,
       Phone!MayVerify, PV!MayVerify, Phone!Start, PV!Start, Phone!storeVars, PV!storeVars

LEMMA SameVerifyStart == \A r, p, u, c : Phone!VerifyStart(r, p, u, c) <=> PV!VerifyStart(r, p, u, c)
BY SamePhoneMayStart DEF Phone!VerifyStart, PV!VerifyStart, Phone!Cached, PV!Cached, Phone!Idle, PV!Idle,
       Phone!Start, PV!Start, Phone!Suspicious, PV!Suspicious, Phone!storeVars, PV!storeVars

LEMMA SamePhoneArrive == \A r : Phone!Arrive(r) <=> PV!Arrive(r)
BY SameInitStart, SameVerifyStart DEF Phone!Arrive, PV!Arrive

LEMMA SameInitCheckPhone == \A r : Phone!InitCheckPhone(r) <=> PV!InitCheckPhone(r)
BY DEF Phone!InitCheckPhone, PV!InitCheckPhone, Phone!Answer, PV!Answer, Phone!Base, PV!Base,
       Phone!Cached, PV!Cached, Phone!Counter, PV!Counter, Phone!Done, PV!Done, Phone!InUse,
       PV!InUse, Phone!LimitReached, PV!LimitReached, Phone!LookupApplies, PV!LookupApplies,
       Phone!NoChange, PV!NoChange, Phone!NoFields, PV!NoFields, Phone!Reset, PV!Reset,
       Phone!Update, PV!Update, Phone!WindowOver, PV!WindowOver, Phone!With, PV!With,
       Phone!storeVars, PV!storeVars

LEMMA SameInitLookup == \A r : Phone!InitLookup(r) <=> PV!InitLookup(r)
BY DEF Phone!InitLookup, PV!InitLookup, Phone!Goto, PV!Goto, Phone!With, PV!With,
       Phone!storeVars, PV!storeVars

LEMMA SameInitSend == \A r : Phone!InitSend(r) <=> PV!InitSend(r)
BY DEF Phone!InitSend, PV!InitSend, Phone!Base, PV!Base, Phone!CodeFields, PV!CodeFields,
       Phone!NextCounter, PV!NextCounter, Phone!With, PV!With, Phone!storeVars, PV!storeVars

LEMMA SameVerifyDecide == \A r : Phone!VerifyDecide(r) <=> PV!VerifyDecide(r)
BY DEF Phone!VerifyDecide, PV!VerifyDecide, Phone!Answer, PV!Answer, Phone!Attempts,
       PV!Attempts, Phone!AttemptsUsedUp, PV!AttemptsUsedUp, Phone!Base, PV!Base, Phone!Cached,
       PV!Cached, Phone!Cleared, PV!Cleared, Phone!Done, PV!Done, Phone!InUse, PV!InUse,
       Phone!NoChange, PV!NoChange, Phone!NoFields, PV!NoFields, Phone!Update, PV!Update,
       Phone!Verdict, PV!Verdict, Phone!VerifyWrites, PV!VerifyWrites, Phone!storeVars,
       PV!storeVars

LEMMA SameGet == \A r : Phone!Get(r) <=> PV!Get(r)
BY DEF Phone!Get, PV!Get, Phone!Answer, PV!Answer, Phone!Cached, PV!Cached, Phone!Done,
       PV!Done, Phone!NoChange, PV!NoChange, Phone!NoFields, PV!NoFields, Phone!Retry,
       PV!Retry, Phone!storeVars, PV!storeVars

LEMMA SamePut == \A r : Phone!Put(r) <=> PV!Put(r)
BY DEF Phone!Put, PV!Put, Phone!Answer, PV!Answer, Phone!Apply, PV!Apply, Phone!Done, PV!Done,
       Phone!IsCurrent, PV!IsCurrent, Phone!Latest, PV!Latest, Phone!NewVersion, PV!NewVersion,
       Phone!NoChange, PV!NoChange, Phone!NoFields, PV!NoFields, Phone!With, PV!With,
       Phone!Written, PV!Written

LEMMA SamePutConflict == \A r : Phone!PutConflict(r) <=> PV!PutConflict(r)
BY DEF Phone!PutConflict, PV!PutConflict, Phone!Answer, PV!Answer, Phone!Done, PV!Done,
       Phone!IsCurrent, PV!IsCurrent, Phone!Latest, PV!Latest, Phone!NoChange, PV!NoChange,
       Phone!NoFields, PV!NoFields, Phone!Retry, PV!Retry, Phone!storeVars, PV!storeVars

LEMMA SamePutError == \A r : Phone!PutError(r) <=> PV!PutError(r)
BY DEF Phone!PutError, PV!PutError, Phone!Answer, PV!Answer, Phone!Apply, PV!Apply, Phone!Done,
       PV!Done, Phone!IsCurrent, PV!IsCurrent, Phone!Latest, PV!Latest, Phone!NewVersion,
       PV!NewVersion, Phone!NoChange, PV!NoChange, Phone!NoFields, PV!NoFields, Phone!Retry,
       PV!Retry, Phone!With, PV!With, Phone!Written, PV!Written

LEMMA SamePhoneHandle == \A r : Phone!Handle(r) <=> PV!Handle(r)
BY SameInitCheckPhone, SameInitLookup, SameInitSend, SameVerifyDecide, SameGet,
   SamePut, SamePutConflict, SamePutError
   DEF Phone!Handle, PV!Handle

LEMMA SameSignupStart == \A r, p, u, t, e : Social!SignupStart(r, p, u, t, e) <=> AC!SignupStart(r, p, u, t, e)
BY SameCardinality DEF Social!SignupStart, AC!SignupStart, Social!Cached, AC!Cached, Social!GetAnswers,
       AC!GetAnswers, Social!Idle, AC!Idle, Social!InFlight, AC!InFlight, Social!MaySignUp,
       AC!MaySignUp, Social!MayStart, AC!MayStart, Social!Opt, AC!Opt, Social!Requests,
       AC!Requests, Social!Signup, AC!Signup, Social!SignupAnswers, AC!SignupAnswers,
       Social!Start, AC!Start, Social!States, AC!States, Social!storeVars, AC!storeVars

LEMMA SameMayActivate == \A a : Social!MayActivate(a) <=> AC!MayActivate(a)
BY SameCardinality DEF Social!MayActivate, AC!MayActivate, Social!Activations, AC!Activations, Social!Active,
       AC!Active, Social!InFlight, AC!InFlight, Social!Requests, AC!Requests

LEMMA SameActivateStart == \A a, p, u, c : Social!ActivateStart(a, p, u, c) <=> AC!ActivateStart(a, p, u, c)
BY SameMayActivate DEF Social!ActivateStart, AC!ActivateStart, Social!ActivationAnswers, AC!ActivationAnswers,
       Social!Attempts, AC!Attempts, Social!AttemptsUsedUp, AC!AttemptsUsedUp, Social!Cached,
       AC!Cached, Social!NoActivation, AC!NoActivation, Social!signupVars, AC!signupVars,
       Social!storeVars, AC!storeVars

LEMMA SameActivationArrive == \A a : Social!ActivationArrive(a) <=> AC!ActivationArrive(a)
BY SameActivateStart
   DEF Social!ActivationArrive, AC!ActivationArrive, Social!Opt, AC!Opt, Social!EventCodes,
       AC!EventCodes

LEMMA SameValid == Social!Valid = AC!Valid
BY SameCardinality DEF Social!Valid, AC!Valid, Social!ActivationCount, AC!ActivationCount, Social!Attendees,
       AC!Attendees, Social!Latest, AC!Latest, Social!Room, AC!Room

LEMMA SameActivateTry == \A a : Social!ActivateTry(a) <=> AC!ActivateTry(a)
BY SameValid DEF Social!ActivateTry, AC!ActivateTry, Social!ActivateRetry, AC!ActivateRetry,
       Social!Answered, AC!Answered, Social!Cached, AC!Cached, Social!signupVars,
       AC!signupVars, Social!storeVars, AC!storeVars

LEMMA SameActivatePut == \A a : Social!ActivatePut(a) <=> AC!ActivatePut(a)
BY SameValid DEF Social!ActivatePut, AC!ActivatePut, Social!ActivationWritable, AC!ActivationWritable,
       Social!ActivationWritten, AC!ActivationWritten, Social!Answered, AC!Answered,
       Social!IsCurrent, AC!IsCurrent, Social!Latest, AC!Latest, Social!NewVersion,
       AC!NewVersion, Social!SetApprovedManually, AC!SetApprovedManually, Social!WithEvent,
       AC!WithEvent, Social!signupVars, AC!signupVars

LEMMA SameActivateConflict == \A a : Social!ActivateConflict(a) <=> AC!ActivateConflict(a)
BY SameValid DEF Social!ActivateConflict, AC!ActivateConflict, Social!ActivateRetry, AC!ActivateRetry,
       Social!ActivationWritable, AC!ActivationWritable, Social!Answered, AC!Answered,
       Social!IsCurrent, AC!IsCurrent, Social!Latest, AC!Latest, Social!signupVars,
       AC!signupVars, Social!storeVars, AC!storeVars

LEMMA SameActivatePutError == \A a : Social!ActivatePutError(a) <=> AC!ActivatePutError(a)
BY SameValid DEF Social!ActivatePutError, AC!ActivatePutError, Social!ActivateRetry, AC!ActivateRetry,
       Social!ActivationWritable, AC!ActivationWritable, Social!ActivationWritten,
       AC!ActivationWritten, Social!Answered, AC!Answered, Social!IsCurrent, AC!IsCurrent,
       Social!Latest, AC!Latest, Social!NewVersion, AC!NewVersion, Social!SetApprovedManually,
       AC!SetApprovedManually, Social!WithEvent, AC!WithEvent, Social!signupVars, AC!signupVars

LEMMA SameActivateUnknown == \A a, r, t : Social!ActivateUnknown(a, r, t) <=> AC!ActivateUnknown(a, r, t)
BY SameSignupStart DEF Social!ActivateUnknown, AC!ActivateUnknown

LEMMA SameActivationHandle == \A a : Social!ActivationHandle(a) <=> AC!ActivationHandle(a)
BY SameActivateTry, SameActivatePut, SameActivateConflict, SameActivatePutError,
   SameActivateUnknown
   DEF Social!ActivationHandle, AC!ActivationHandle, Social!Requests, AC!Requests

LEMMA SameSignupVerify == \A r : Social!SignupVerify(r) <=> AC!SignupVerify(r)
BY DEF Social!SignupVerify, AC!SignupVerify, Social!Verdicts, AC!Verdicts, Social!storeVars,
       AC!storeVars

LEMMA SameSignupWrite == \A r : Social!SignupWrite(r) <=> AC!SignupWrite(r)
BY DEF Social!SignupWrite, AC!SignupWrite, Social!Answer, AC!Answer, Social!Base, AC!Base,
       Social!IsCurrent, AC!IsCurrent, Social!Latest, AC!Latest, Social!NewVersion,
       AC!NewVersion, Social!Outcome, AC!Outcome, Social!Writable, AC!Writable

LEMMA SameSignupWriteError == \A r : Social!SignupWriteError(r) <=> AC!SignupWriteError(r)
BY DEF Social!SignupWriteError, AC!SignupWriteError, Social!Answer, AC!Answer, Social!Base,
       AC!Base, Social!IsCurrent, AC!IsCurrent, Social!Latest, AC!Latest, Social!NewVersion,
       AC!NewVersion, Social!Writable, AC!Writable

LEMMA SameSignupBuild == \A r, valid : Social!SignupBuild(r, valid) <=> AC!SignupBuild(r, valid)
BY DEF Social!SignupBuild, AC!SignupBuild, Social!Answer, AC!Answer, Social!Assessments,
       AC!Assessments, Social!Base, AC!Base, Social!Goto, AC!Goto, Social!NewSignup,
       AC!NewSignup, Social!NewStates, AC!NewStates, Social!Reactivated, AC!Reactivated,
       Social!SetApprovedManually, AC!SetApprovedManually, Social!WithEvent, AC!WithEvent,
       Social!storeVars, AC!storeVars

LEMMA SameSignupHandle ==
  \A r, valid : Social!SignupHandle(r, valid) <=> AC!SignupHandle(r, valid)
BY SameSignupVerify, SameSignupBuild, SameSignupWrite, SameSignupWriteError
   DEF Social!SignupHandle, AC!SignupHandle

LEMMA SameStoreNext == (PV!StoreNext <=> StoreNext) /\ (AC!StoreNext <=> StoreNext)
BY DEF StoreNext, PV!StoreNext, AC!StoreNext, AdminApproves, PV!AdminApproves,
       AC!AdminApproves, Approved, PV!Approved, AC!Approved, ApprovedManually,
       PV!ApprovedManually, AC!ApprovedManually, BanPhone, PV!BanPhone, AC!BanPhone, BanUser,
       PV!BanUser, AC!BanUser, Conditions, PV!Conditions, AC!Conditions, Deactivated,
       PV!Deactivated, AC!Deactivated, InformerSync, PV!InformerSync, AC!InformerSync, Latest,
       PV!Latest, AC!Latest, NewVersion, PV!NewVersion, AC!NewVersion, OperatorApproves,
       PV!OperatorApproves, AC!OperatorApproves, OperatorDeactivates, PV!OperatorDeactivates,
       AC!OperatorDeactivates, OperatorDeletes, PV!OperatorDeletes, AC!OperatorDeletes,
       OperatorReports, PV!OperatorReports, AC!OperatorReports, OperatorWrites,
       PV!OperatorWrites, AC!OperatorWrites, Reported, PV!Reported, AC!Reported,
       SetApprovedManually, PV!SetApprovedManually, AC!SetApprovedManually, Tick, PV!Tick,
       AC!Tick

LEMMA SameStore ==
  /\ (PV!StoreTypeOK <=> StoreTypeOK) /\ (AC!StoreTypeOK <=> StoreTypeOK)
  /\ (PV!StoreTypeOK' <=> StoreTypeOK') /\ (AC!StoreTypeOK' <=> StoreTypeOK')
  /\ (PV!LogGrows <=> LogGrows) /\ (AC!LogGrows <=> LogGrows)
  /\ PV!Signup = Signup /\ AC!Signup = Signup /\ Phone!Signup = Signup /\ Social!Signup = Signup
BY DEF StoreTypeOK, PV!StoreTypeOK, AC!StoreTypeOK, LogGrows, PV!LogGrows, AC!LogGrows,
       Signup, PV!Signup, AC!Signup, Phone!Signup, Social!Signup, Opt, PV!Opt, AC!Opt, Phone!Opt,
       Social!Opt, States, PV!States, AC!States, Phone!States, Social!States

LEMMA SameVersions ==
  \A u, s : /\ (Phone!NewVersion(u, s) <=> NewVersion(u, s))
            /\ (Social!NewVersion(u, s) <=> NewVersion(u, s))
            /\ Phone!Latest(u) = Latest(u) /\ Social!Latest(u) = Latest(u)
            /\ (Phone!IsCurrent(u, s) <=> IsCurrent(u, s))
            /\ (Social!IsCurrent(u, s) <=> IsCurrent(u, s))
            /\ Phone!Cached(s, u) = Cached(s, u) /\ Social!Cached(s, u) = Cached(s, u)
BY DEF NewVersion, Phone!NewVersion, Social!NewVersion, Latest, Phone!Latest, Social!Latest,
       IsCurrent, Phone!IsCurrent, Social!IsCurrent, Cached, Phone!Cached, Social!Cached

-----------------------------------------------------------------------------
(* Types                                                                   *)

Types == PV!TypeOK /\ AC!ActivationInv

LEMMA StoreTyped ==
  ASSUME Types
  PROVE  StoreTypeOK
BY SameStore DEF Types, PV!TypeOK

\* What a phone verification under way holds.
LEMMA PhoneFacts ==
  ASSUME Types, NEW r \in Phone!Requests
  PROVE  /\ req[r] \in Phone!Request /\ PV!IsUpdate(writes[r])
         /\ Phone!InFlight(r) =>
              /\ req[r].user \in Users /\ req[r].at \in Replicas
              /\ req[r].base \in 1 .. Len(log[req[r].user])
              /\ Phone!Base(r) \in Signup
              /\ req[r].kind \in {"init", "verify"}
              /\ req[r].pc \in {"checkPhone", "lookup", "send"} => req[r].kind = "init"
              /\ req[r].pc = "decide" => req[r].kind = "verify"
              /\ req[r].pc = "put" => /\ req[r].copy \in 1 .. Len(log[req[r].user])
                                      /\ Phone!Written(r) \in Signup
<1>1. PV!TypeOK /\ r \in PV!Requests
  BY DEF Types, PV!Requests, Phone!Requests
<1>2. req[r] \in PV!Request /\ PV!IsUpdate(writes[r])
  BY <1>1 DEF PV!TypeOK
<1>3. req[r] \in Phone!Request
  BY <1>2 DEF PV!Request, Phone!Request, PV!Opt, Phone!Opt, PV!Answers, Phone!Answers
<1>4. ASSUME Phone!InFlight(r)
      PROVE  PV!HandlerTypeOK(r) /\ PV!Base(r) \in Signup
  <2>1. PV!InFlight(r)
    BY <1>4 DEF PV!InFlight, Phone!InFlight
  <2> QED
    BY <1>1, <2>1, PV!BaseType, StoreAssumed, PhoneAssumed, SameStore
<1>5. ASSUME Phone!InFlight(r), req[r].pc = "put"
      PROVE  Phone!Written(r) \in Signup
  <2>1. PV!Written(r) \in Signup
    BY <1>1, <1>5, PV!WrittenType, StoreAssumed, PhoneAssumed, SameStore
  <2>2. Phone!Written(r) = PV!Written(r)
    BY DEF Phone!Written, PV!Written, Phone!Apply, PV!Apply, Phone!With, PV!With
  <2> QED
    BY <2>1, <2>2
<1> QED
  BY <1>2, <1>3, <1>4, <1>5 DEF PV!HandlerTypeOK, PV!Base, Phone!Base

\* What a sign-up holds.
LEMMA SignupFacts ==
  ASSUME Types, NEW r \in Social!Requests
  PROVE  /\ signups[r] \in Social!Request
         /\ signups[r].pc = "idle" => signups[r] = Social!Idle
         /\ signups[r].pc # "idle" =>
              /\ signups[r].user \in Users /\ signups[r].at \in Replicas
              /\ signups[r].base \in 1 .. Len(log[signups[r].user])
              /\ Social!Base(r) \in Signup \cup {Absent}
              /\ signups[r].pc # "done" => signups[r].answer = None
              /\ signups[r].pc \in {"verify", "build", "write"} => signups[r].token \in Claims
              /\ signups[r].pc = "write" => draft[r] \in Signup
<1>1. AC!TypeOK /\ r \in AC!Requests
  BY DEF Types, AC!ActivationInv, AC!IInv, AC!Requests, Social!Requests
<1>2. /\ signups[r] \in AC!Request /\ draft[r] \in AC!Opt(AC!Signup)
      /\ IF signups[r].pc = "idle" THEN signups[r] = AC!Idle ELSE AC!HandlerTypeOK(r)
  BY <1>1 DEF AC!TypeOK
<1>3. signups[r] \in Social!Request
  BY <1>2 DEF AC!Request, Social!Request, AC!Opt, Social!Opt, AC!SignupAnswers,
              Social!SignupAnswers, AC!GetAnswers, Social!GetAnswers, AC!EventCodes,
              Social!EventCodes
<1>4. \A u \in Users : \A i \in 1 .. Len(log[u]) : log[u][i] \in Signup \cup {Absent}
  BY StoreTyped, LatestType
<1>5. AC!Idle = Social!Idle
  BY DEF AC!Idle, Social!Idle
<1> QED
  BY <1>2, <1>3, <1>4, <1>5, SameStore DEF AC!HandlerTypeOK, Social!Base, AC!Opt

\* What an activation under way holds.
LEMMA ActivationFacts ==
  ASSUME Types, NEW a \in Social!Activations
  PROVE  /\ act[a] \in Social!Activation
         /\ act[a].pc # "done" => act[a].answer = None
         /\ act[a].pc # "idle" =>
              /\ act[a].user \in Users /\ act[a].at \in Replicas
              /\ act[a].base \in 1 .. Len(log[act[a].user])
              /\ log[act[a].user][act[a].base] \in Signup \cup {Absent}
         /\ act[a].pc = "put" =>
              /\ act[a].copy \in 1 .. Len(log[act[a].user])
              /\ log[act[a].user][act[a].copy] \in Signup
              /\ act[a].approve => act[a].code \in Events
<1>1. AC!ActivationInv /\ a \in AC!Activations
  BY DEF Types, AC!Activations, Social!Activations
<1>2. act[a] \in AC!Activation /\ AC!ActivationOK(a)
  BY <1>1 DEF AC!ActivationInv
<1>3. act[a] \in Social!Activation
  BY <1>2 DEF AC!Activation, Social!Activation, AC!Opt, Social!Opt, AC!ActivationAnswers,
              Social!ActivationAnswers, AC!EventCodes, Social!EventCodes
<1>4. \A u \in Users : \A i \in 1 .. Len(log[u]) : log[u][i] \in Signup \cup {Absent}
  BY StoreTyped, LatestType
<1> QED
  BY <1>2, <1>3, <1>4 DEF AC!ActivationOK

\* A step that is not of the store adds at most one version.
OneWrite ==
  /\ UNCHANGED <<banned, now>>
  /\ \/ UNCHANGED <<log, seen>>
     \/ \E u \in Users, s \in Signup \cup {Absent} : NewVersion(u, s)

LEMMA OneWriteType ==
  ASSUME StoreTypeOK, OneWrite
  PROVE  StoreTypeOK' /\ LogGrows
<1>1. CASE UNCHANGED <<log, seen>>
  <2>1. UNCHANGED storeVars
    BY <1>1 DEF OneWrite, storeVars
  <2> QED
    BY <2>1, StoreUnchanged
<1> QED
  BY <1>1, NewVersionType DEF OneWrite

LEMMA PhoneWrites ==
  ASSUME Types, PhoneStep
  PROVE  OneWrite
<1>1. ASSUME NEW r \in Phone!Requests, Phone!Put(r)
      PROVE  OneWrite
  <2>1. Phone!InFlight(r) /\ req[r].pc = "put"
    BY <1>1 DEF Phone!InFlight, Phone!Put
  <2>2. req[r].user \in Users /\ Phone!Written(r) \in Signup
    BY <2>1, PhoneFacts
  <2> QED
    BY <1>1, <2>2, SameVersions DEF Phone!Put, OneWrite
<1>2. ASSUME NEW r \in Phone!Requests, Phone!PutError(r)
      PROVE  OneWrite
  <2>1. Phone!InFlight(r) /\ req[r].pc = "put"
    BY <1>2 DEF Phone!InFlight, Phone!PutError
  <2>2. req[r].user \in Users /\ Phone!Written(r) \in Signup
    BY <2>1, PhoneFacts
  <2> QED
    BY <1>2, <2>2, SameVersions DEF Phone!PutError, OneWrite
<1>3. ASSUME NEW r \in Phone!Requests, Phone!Arrive(r)
      PROVE  OneWrite
  BY <1>3 DEF Phone!Arrive, Phone!InitStart, Phone!VerifyStart, Phone!storeVars, OneWrite
<1>4. ASSUME NEW r \in Phone!Requests,
             \/ Phone!InitCheckPhone(r) \/ Phone!InitLookup(r) \/ Phone!InitSend(r)
             \/ Phone!VerifyDecide(r) \/ Phone!Get(r) \/ Phone!PutConflict(r)
      PROVE  OneWrite
  BY <1>4 DEF Phone!InitCheckPhone, Phone!InitLookup, Phone!InitSend, Phone!VerifyDecide,
              Phone!Get, Phone!PutConflict, Phone!storeVars, OneWrite
<1> QED
  BY <1>1, <1>2, <1>3, <1>4 DEF PhoneStep, Phone!Handle

LEMMA ActivationWrittenTyped ==
  ASSUME Types, NEW a \in Social!Activations, act[a].pc = "put"
  PROVE  act[a].user \in Users /\ Social!ActivationWritten(a) \in Signup
<1>1. a \in AC!Activations /\ AC!ActivationInv
  BY DEF Types, AC!Activations, Social!Activations
<1>2. AC!ActivationWritten(a) \in AC!Signup
  BY <1>1, AC!ActivationWrittenType, StoreAssumed, SocialAssumed
<1>3. AC!ActivationWritten(a) = Social!ActivationWritten(a)
  BY DEF AC!ActivationWritten, Social!ActivationWritten, AC!WithEvent, Social!WithEvent,
         AC!SetApprovedManually, Social!SetApprovedManually
<1> QED
  BY <1>2, <1>3, SameStore, ActivationFacts

LEMMA ActivationWrites ==
  ASSUME Types, ActivationStep
  PROVE  OneWrite
<1>1. \A a \in Social!Activations : act[a].pc = "put" =>
        act[a].user \in Users /\ Social!ActivationWritten(a) \in Signup
  BY ActivationWrittenTyped
<1>2. ASSUME NEW a \in Social!Activations, Social!ActivatePut(a) \/ Social!ActivatePutError(a)
      PROVE  OneWrite
  BY <1>1, <1>2, SameVersions DEF Social!ActivatePut, Social!ActivatePutError, OneWrite
<1>3. ASSUME NEW a \in Social!Activations,
             Social!ActivationArrive(a) \/ Social!ActivateTry(a) \/ Social!ActivateConflict(a)
      PROVE  OneWrite
  BY <1>3 DEF Social!ActivationArrive, Social!ActivateStart, Social!ActivateTry,
              Social!ActivateConflict, Social!storeVars, OneWrite
<1>4. ASSUME NEW a, NEW r, NEW t, Social!ActivateUnknown(a, r, t)
      PROVE  OneWrite
  BY <1>4 DEF Social!ActivateUnknown, Social!SignupStart, Social!storeVars, OneWrite
<1> QED
  BY <1>2, <1>3, <1>4 DEF ActivationStep, Social!ActivationHandle

LEMMA SignupWrites ==
  ASSUME Types, SignupStep
  PROVE  OneWrite
<1>1. ASSUME NEW r \in Social!Requests, signups[r].pc = "write"
      PROVE  signups[r].user \in Users /\ draft[r] \in Signup
  BY <1>1, SignupFacts
<1>2. ASSUME NEW r \in Social!Requests, Social!SignupWrite(r) \/ Social!SignupWriteError(r)
      PROVE  OneWrite
  BY <1>1, <1>2, SameVersions DEF Social!SignupWrite, Social!SignupWriteError, OneWrite
<1>3. ASSUME NEW r \in Social!Requests,
             SignUp(r) \/ Social!SignupVerify(r) \/ Social!SignupBuild(r, Social!Valid)
      PROVE  OneWrite
  BY <1>3 DEF SignUp, Social!SignupStart, Social!SignupVerify, Social!SignupBuild,
              Social!storeVars, OneWrite
<1> QED
  BY <1>2, <1>3 DEF SignupStep, Social!SignupHandle

\* What a phone verification holds is still there after a step of others.
LEMMA PhoneLeftAlone ==
  ASSUME PV!TypeOK, StoreTypeOK', LogGrows, UNCHANGED phoneVars
  PROVE  PV!TypeOK'
<1>1. UNCHANGED <<req, writes, sms, lookups>>
  BY DEF phoneVars
<1>2. PV!LogGrows /\ PV!StoreTypeOK'
  BY SameStore
<1>3. ASSUME NEW r \in PV!Requests, PV!InFlight(r)'
      PROVE  PV!HandlerTypeOK(r)'
  <2>1. PV!HandlerTypeOK(r) /\ PV!SameRequest(r)
    BY <1>1, <1>3 DEF PV!TypeOK, PV!InFlight, PV!SameRequest
  <2> QED
    BY <1>1, <1>2, <2>1, PV!HandlerStable, StoreAssumed, PhoneAssumed DEF PV!HandlerTypeOK
<1> QED
  BY <1>1, <1>2, <1>3 DEF PV!TypeOK, PV!IsUpdate

LEMMA SocialLeftAlone ==
  ASSUME AC!ActivationInv, StoreTypeOK', LogGrows, UNCHANGED socialVars
  PROVE  AC!ActivationInv'
<1>1. UNCHANGED <<signups, draft, act>>
  BY DEF socialVars
<1>2. AC!LogGrows /\ AC!StoreTypeOK' /\ AC!IInv
  BY SameStore DEF AC!ActivationInv
<1>3. AC!IInv'
  BY <1>1, <1>2, AC!SignupsStable, StoreAssumed, SocialAssumed DEF AC!signupVars
<1> QED
  BY <1>1, <1>2, <1>3, AC!OthersStepOK, StoreAssumed, SocialAssumed

LEMMA TypesNext ==
  ASSUME Types, [Next]_vars
  PROVE  Types' /\ LogGrows
<1>1. StoreTypeOK /\ PV!TypeOK /\ AC!ActivationInv
  BY StoreTyped DEF Types
<1>2. CASE UNCHANGED vars
  <2>1. UNCHANGED storeVars /\ UNCHANGED phoneVars /\ UNCHANGED socialVars
    BY <1>2 DEF vars, storeVars, phoneVars, socialVars
  <2> QED
    BY <1>1, <2>1, StoreUnchanged, PhoneLeftAlone, SocialLeftAlone DEF Types
<1>3. CASE StoreStep
  BY <1>1, <1>3, StoreStepType, PhoneLeftAlone, SocialLeftAlone DEF Types, StoreStep
<1>4. CASE PhoneStep
  <2>1. StoreTypeOK' /\ LogGrows
    BY <1>1, <1>4, PhoneWrites, OneWriteType
  <2>2. PV!Next
    BY <1>4, SamePhoneArrive, SamePhoneHandle DEF PhoneStep, PV!Next, PV!Requests, Phone!Requests
  <2>3. PV!TypeOK'
    BY <1>1, <2>2, PV!NextType, StoreAssumed, PhoneAssumed
  <2> QED
    BY <1>1, <1>4, <2>1, <2>3, SocialLeftAlone DEF Types, PhoneStep
<1>5. CASE ActivationStep
  <2>1. StoreTypeOK' /\ LogGrows
    BY <1>1, <1>5, ActivationWrites, OneWriteType
  <2>2. AC!ActivationNext
    BY <1>5, SameActivationArrive, SameActivationHandle
       DEF ActivationStep, AC!ActivationNext, AC!Activations, Social!Activations
  <2>3. AC!ActivationInv'
    BY <1>1, <2>2, AC!ActivationNextOK, StoreAssumed, SocialAssumed
  <2> QED
    BY <1>1, <1>5, <2>1, <2>3, PhoneLeftAlone DEF Types, ActivationStep
<1>6. CASE SignupStep
  <2>1. StoreTypeOK' /\ LogGrows
    BY <1>1, <1>6, SignupWrites, OneWriteType
  <2>2. UNCHANGED <<act, counted>> /\ UNCHANGED phoneVars /\ AC!IInv /\ AC!LogGrows
    BY <1>1, <1>6, <2>1, SameStore DEF SignupStep, AC!ActivationInv
  <2>3. ASSUME NEW r \in Social!Requests, SignUp(r)
        PROVE  AC!IInv'
    <3>1. PICK p \in Replicas, u \in Users, t \in Claims : AC!SignupStart(r, p, u, t, None)
      BY <2>3, SameSignupStart DEF SignUp
    <3>2. r \in AC!Requests /\ None \in AC!Opt(AC!EventCodes)
      BY DEF AC!Requests, Social!Requests, AC!Opt
    <3> QED
      BY <2>2, <3>1, <3>2, AC!SignupStartOK, StoreAssumed, SocialAssumed
  <2>4. ASSUME NEW r \in Social!Requests, Social!SignupHandle(r, Social!Valid)
        PROVE  AC!IInv'
    <3>1. AC!SignupHandle(r, AC!Valid) /\ r \in AC!Requests
      BY <2>4, SameSignupHandle, SameValid DEF AC!Requests, Social!Requests
    <3> QED
      BY <2>2, <3>1, AC!SignupHandleOK, StoreAssumed, SocialAssumed
  <2>5. AC!IInv'
    BY <1>6, <2>3, <2>4 DEF SignupStep
  <2>6. AC!ActivationInv'
    BY <1>1, <2>2, <2>5, AC!OthersStepOK, StoreAssumed, SocialAssumed
  <2> QED
    BY <1>1, <2>1, <2>2, <2>6, PhoneLeftAlone DEF Types
<1> QED
  BY <1>2, <1>3, <1>4, <1>5, <1>6 DEF Next, Finished

LEMMA TypesInit ==
  ASSUME Init
  PROVE  Types
<1>1. AC!ActivationInv
  <2>1. \A t : Social!Inactive(t) = AC!Inactive(t)
    BY DEF Social!Inactive, AC!Inactive, Social!Deactivated, AC!Deactivated, Social!NewSignup,
           AC!NewSignup, Social!NewStates, AC!NewStates
  <2>2. log \in [Users -> {<<Absent>>} \cup UNION {{<<AC!Waiting(t)>>, <<AC!Inactive(t)>>} : t \in Claims}]
    BY <2>1 DEF Init
  <2>3. Social!Idle = AC!Idle /\ Social!NoActivation = AC!NoActivation
        /\ Social!Requests = AC!Requests /\ Social!Activations = AC!Activations
    BY DEF Social!Idle, AC!Idle, Social!NoActivation, AC!NoActivation, Social!Requests,
           AC!Requests, Social!Activations, AC!Activations
  <2>4. AC!ActivationInit
    BY <2>2, <2>3 DEF Init, AC!ActivationInit
  <2> QED
    BY <2>4, AC!ActivationInitOK, StoreAssumed, SocialAssumed
<1>2. StoreTypeOK
  BY <1>1, SameStore DEF AC!ActivationInv, AC!IInv, AC!TypeOK
<1>3. req = [r \in PV!Requests |-> PV!Idle] /\ PV!Idle \in PV!Request /\ PV!Idle.pc = "idle"
  BY DEF Init, Phone!Requests, PV!Requests, Phone!Idle, PV!Idle, PV!Request, PV!Opt
<1>4. /\ writes = [r \in PV!Requests |-> PV!NoChange] /\ PV!IsUpdate(PV!NoChange)
  <2>1. PV!NoChange = NoChange
    BY DEF PV!NoChange, NoChange, PV!NoFields, NoFields
  <2> QED
    BY <2>1, PV!NoChangeIsUpdate, StoreAssumed, PhoneAssumed
       DEF Init, Phone!Requests, PV!Requests
<1>5. sms \in [Codes -> PV!Opt(PV!Message)] /\ lookups \subseteq Users \X Phones
  BY DEF Init, PV!Opt
<1>6. \A r \in PV!Requests : ~PV!InFlight(r) /\ writes[r] = PV!NoChange
  BY <1>3, <1>4 DEF PV!InFlight
<1>7. PV!TypeOK
  BY <1>2, <1>3, <1>4, <1>5, <1>6, SameStore DEF PV!TypeOK
<1> QED
  BY <1>1, <1>7 DEF Types

\* The store and the requests of either component are well formed in every behaviour,
\* whatever the caches, the failures and the environment do.
THEOREM TypesHold == Spec => []Types
<1>1. Init => Types
  BY TypesInit
<1>2. Types /\ [Next]_vars => Types'
  BY TypesNext
<1> QED
  BY <1>1, <1>2, PTL DEF Spec

-----------------------------------------------------------------------------
(* Requests handled one at a time on caches that do not lag.               *)

\* Others may ban users and phones and delete UserSignups, but write to none.
Undisturbed ==
  FreshReads /\ MaxInFlight <= 1 /\ ~WriteErrors /\ External \subseteq {"ban", "banUser", "delete"}

\* The handlers that are at work, each with its kind.
Alone ==
  /\ \A q, r \in Phone!Requests : Phone!InFlight(q) /\ Phone!InFlight(r) => q = r
  /\ \A q, r \in Social!Requests : Social!InFlight(q) /\ Social!InFlight(r) => q = r
  /\ \A a, b \in Social!Activations : Social!Active(a) /\ Social!Active(b) => a = b
  /\ \A q \in Phone!Requests, r \in Social!Requests : ~(Phone!InFlight(q) /\ Social!InFlight(r))
  /\ \A q \in Phone!Requests, a \in Social!Activations : ~(Phone!InFlight(q) /\ Social!Active(a))
  /\ \A r \in Social!Requests, a \in Social!Activations : ~(Social!InFlight(r) /\ Social!Active(a))

NobodyAtWork ==
  /\ \A r \in Phone!Requests : ~Phone!InFlight(r)
  /\ \A r \in Social!Requests : ~Social!InFlight(r)
  /\ \A a \in Social!Activations : ~Social!Active(a)

LEMMA RequestsFinite ==
  IsFiniteSet(Phone!Requests) /\ IsFiniteSet(Social!Requests) /\ IsFiniteSet(Social!Activations)
<1>1. MaxPhoneRequests \in Nat /\ MaxSignups \in Nat /\ MaxActivations \in Nat
  BY PhoneAssumed, SocialAssumed
     DEF PV!PhoneVerificationAssumption, AC!SignupServiceAssumption, AC!ActivationCodeAssumption
<1> QED
  BY <1>1, FS_Interval DEF Phone!Requests, Social!Requests, Social!Activations

LEMMA BusyParts ==
  ASSUME NEW S, NEW T, NEW U, IsFiniteSet(S), IsFiniteSet(T), IsFiniteSet(U),
         NEW n, n \in Nat, n <= 1, Cardinality(S) + Cardinality(T) + Cardinality(U) < n
  PROVE  S = {} /\ T = {} /\ U = {}
<1>1. Cardinality(S) \in Nat /\ Cardinality(T) \in Nat /\ Cardinality(U) \in Nat
  BY FS_CardinalityType
<1>2. Cardinality(S) = 0 /\ Cardinality(T) = 0 /\ Cardinality(U) = 0
  BY <1>1
<1> QED
  BY <1>2, FS_EmptySet

LEMMA NobodyBusy ==
  ASSUME Undisturbed, Busy < MaxInFlight
  PROVE  NobodyAtWork
<1> DEFINE S == {r \in Phone!Requests : Phone!InFlight(r)}
           T == {r \in Social!Requests : Social!InFlight(r)}
           U == {a \in Social!Activations : Social!Active(a)}
<1>1. IsFiniteSet(S) /\ IsFiniteSet(T) /\ IsFiniteSet(U)
  BY RequestsFinite, FS_Subset
<1>2. MaxInFlight \in Nat
  BY PhoneAssumed DEF PV!PhoneVerificationAssumption
<1>3. Cardinality(S) + Cardinality(T) + Cardinality(U) < MaxInFlight
  BY DEF Busy
<1>4. S = {} /\ T = {} /\ U = {}
  <2> HIDE DEF S, T, U
  <2> QED
    BY <1>1, <1>2, <1>3, BusyParts DEF Undisturbed
<1> QED
  BY <1>4 DEF NobodyAtWork

\* The caches stay fresh.
LEMMA FreshNext ==
  ASSUME Undisturbed, Types, CachesFresh, [Next]_vars
  PROVE  CachesFresh'
<1>1. StoreTypeOK /\ FreshReads
  BY StoreTyped DEF Undisturbed
<1>2. CASE UNCHANGED <<log, seen>>
  BY <1>2 DEF CachesFresh
<1>3. CASE OneWrite
  BY <1>1, <1>2, <1>3, FreshWrite DEF OneWrite
<1>4. CASE StoreStep
  BY <1>1, <1>4, FreshEnvironment DEF StoreStep
<1> QED
  BY <1>2, <1>3, <1>4, PhoneWrites, ActivationWrites, SignupWrites DEF Next, Finished, vars

-----------------------------------------------------------------------------
(* What a handler leaves alone.                                            *)

\* The handler of the phone verification r changes r alone.
PhoneOnly(r) ==
  /\ \A q \in Phone!Requests \ {r} : req'[q] = req[q] /\ writes'[q] = writes[q]
  /\ UNCHANGED socialVars

ActivationOnly(a) ==
  /\ \A b \in Social!Activations \ {a} : act'[b] = act[b]
  /\ UNCHANGED phoneVars /\ UNCHANGED <<draft, counted>>

SignupOnly(r) ==
  /\ \A q \in Social!Requests \ {r} : signups'[q] = signups[q] /\ draft'[q] = draft[q]
  /\ UNCHANGED phoneVars /\ UNCHANGED counted

LEMMA PhoneFrame ==
  ASSUME Types, NEW r \in Phone!Requests, Phone!Arrive(r) \/ Phone!Handle(r), UNCHANGED socialVars
  PROVE  PhoneOnly(r)
<1>1. /\ req \in [Phone!Requests -> PV!Request]
      /\ writes = [q \in Phone!Requests |-> writes[q]]
  BY DEF Types, PV!TypeOK, PV!Requests, Phone!Requests
<1>2. ASSUME Phone!Arrive(r)
      PROVE  PhoneOnly(r)
  <2>1. UNCHANGED writes /\ \E v : req' = [req EXCEPT ![r] = v]
    <3>1. \A k, p, u, ph, c, pc, n : Phone!Start(r, k, p, u, ph, c, pc, n) =>
            \E v : req' = [req EXCEPT ![r] = v]
      BY DEF Phone!Start
    <3>2. \A p, u, ph : Phone!InitStart(r, p, u, ph) =>
            UNCHANGED writes /\ \E v : req' = [req EXCEPT ![r] = v]
      BY <3>1 DEF Phone!InitStart
    <3>3. \A p, u, c : Phone!VerifyStart(r, p, u, c) =>
            UNCHANGED writes /\ \E v : req' = [req EXCEPT ![r] = v]
      BY <3>1 DEF Phone!VerifyStart
    <3> QED
      BY <1>2, <3>2, <3>3 DEF Phone!Arrive
  <2> QED
    BY <1>1, <2>1 DEF PhoneOnly
<1>3. ASSUME Phone!InitCheckPhone(r) \/ Phone!InitLookup(r) \/ Phone!InitSend(r)
      PROVE  PhoneOnly(r)
  BY <1>1, <1>3
     DEF PhoneOnly, Phone!InitCheckPhone, Phone!InitLookup, Phone!InitSend, Phone!Answer,
         Phone!Update, Phone!Goto
<1>4. ASSUME Phone!VerifyDecide(r) \/ Phone!Get(r) \/ Phone!Put(r) \/ Phone!PutConflict(r)
               \/ Phone!PutError(r)
      PROVE  PhoneOnly(r)
  BY <1>1, <1>4
     DEF PhoneOnly, Phone!VerifyDecide, Phone!Get, Phone!Put, Phone!PutConflict, Phone!PutError,
         Phone!Answer, Phone!Update, Phone!Retry
<1> QED
  BY <1>2, <1>3, <1>4 DEF Phone!Handle

LEMMA ActivationFrame ==
  ASSUME Types, NEW a \in Social!Activations, UNCHANGED phoneVars,
         Social!ActivationArrive(a) \/ Social!ActivationHandle(a)
  PROVE  ActivationOnly(a)
<1>1. act \in [Social!Activations -> AC!Activation]
  BY DEF Types, AC!ActivationInv, AC!Activations, Social!Activations
<1>2. ASSUME Social!ActivationArrive(a)
      PROVE  ActivationOnly(a)
  BY <1>1, <1>2
     DEF ActivationOnly, Social!ActivationArrive, Social!ActivateStart, Social!signupVars
<1>3. ASSUME NEW q, NEW t, Social!ActivateUnknown(a, q, t)
      PROVE  ActivationOnly(a)
  BY <1>1, <1>3 DEF ActivationOnly, Social!ActivateUnknown, Social!SignupStart
<1>4. ASSUME Social!ActivateTry(a) \/ Social!ActivatePut(a) \/ Social!ActivateConflict(a)
               \/ Social!ActivatePutError(a)
      PROVE  ActivationOnly(a)
  BY <1>1, <1>4
     DEF ActivationOnly, Social!ActivateTry, Social!ActivatePut, Social!ActivateConflict,
         Social!ActivatePutError, Social!ActivateRetry, Social!signupVars
<1> QED
  BY <1>2, <1>3, <1>4 DEF Social!ActivationHandle

LEMMA SignupFrame ==
  ASSUME Types, NEW r \in Social!Requests, SignUp(r) \/ Social!SignupHandle(r, Social!Valid),
         UNCHANGED <<phoneVars, act, counted>>
  PROVE  SignupOnly(r) /\ UNCHANGED act
<1>1. /\ signups \in [Social!Requests -> AC!Request]
      /\ draft \in [Social!Requests -> AC!Opt(AC!Signup)]
  BY DEF Types, AC!ActivationInv, AC!IInv, AC!TypeOK, AC!Requests, Social!Requests
<1>2. ASSUME SignUp(r)
      PROVE  SignupOnly(r)
  BY <1>1, <1>2 DEF SignupOnly, SignUp, Social!SignupStart, Social!Start
<1>3. ASSUME Social!SignupVerify(r) \/ Social!SignupBuild(r, Social!Valid)
               \/ Social!SignupWrite(r) \/ Social!SignupWriteError(r)
      PROVE  SignupOnly(r)
  BY <1>1, <1>3
     DEF SignupOnly, Social!SignupVerify, Social!SignupBuild, Social!SignupWrite,
         Social!SignupWriteError, Social!Answer, Social!Goto
<1> QED
  BY <1>2, <1>3 DEF Social!SignupHandle

\* A sign-up that an activation hands its request to.
LEMMA HandedFrame ==
  ASSUME Types, NEW a, NEW r \in Social!Requests, NEW t, Social!ActivateUnknown(a, r, t)
  PROVE  \A q \in Social!Requests \ {r} : signups'[q] = signups[q]
<1>1. signups \in [Social!Requests -> AC!Request]
  BY DEF Types, AC!ActivationInv, AC!IInv, AC!TypeOK, AC!Requests, Social!Requests
<1> QED
  BY <1>1 DEF Social!ActivateUnknown, Social!SignupStart, Social!Start

LEMMA NotHanded ==
  ASSUME NEW a, Social!ActivationArrive(a) \/ Social!ActivateTry(a) \/ Social!ActivatePut(a)
                  \/ Social!ActivateConflict(a) \/ Social!ActivatePutError(a)
  PROVE  UNCHANGED signups
BY DEF Social!ActivationArrive, Social!ActivateStart, Social!ActivateTry, Social!ActivatePut,
       Social!ActivateConflict, Social!ActivatePutError, Social!signupVars

LEMMA AtWork ==
  /\ \A r : Phone!Handle(r) => Phone!InFlight(r)
  /\ \A a : Social!ActivationHandle(a) => Social!Active(a)
  /\ \A r : Social!SignupHandle(r, Social!Valid) => Social!InFlight(r)
<1>1. ASSUME NEW r, Phone!Handle(r)
      PROVE  Phone!InFlight(r)
  BY <1>1 DEF Phone!Handle, Phone!InitCheckPhone, Phone!InitLookup, Phone!InitSend,
         Phone!VerifyDecide, Phone!Get, Phone!Put, Phone!PutConflict, Phone!PutError, Phone!InFlight
<1>2. ASSUME NEW a, Social!ActivationHandle(a)
      PROVE  Social!Active(a)
  BY <1>2 DEF Social!ActivationHandle, Social!ActivateTry, Social!ActivatePut,
         Social!ActivateConflict, Social!ActivatePutError, Social!ActivateUnknown, Social!Active
<1>3. ASSUME NEW r, Social!SignupHandle(r, Social!Valid)
      PROVE  Social!InFlight(r)
  BY <1>3 DEF Social!SignupHandle, Social!SignupVerify, Social!SignupBuild, Social!SignupWrite,
         Social!SignupWriteError, Social!InFlight
<1> QED
  BY <1>1, <1>2, <1>3

\* Handlers begin when nobody is at work, and the only one at work goes on.
LEMMA AloneNext ==
  ASSUME Undisturbed, Types, Alone, [Next]_vars
  PROVE  Alone'
<1>1. CASE UNCHANGED <<req, signups, act>>
  BY <1>1 DEF Alone, Phone!InFlight, Social!InFlight, Social!Active
<1>2. ASSUME NEW r \in Phone!Requests, UNCHANGED socialVars,
             (Busy < MaxInFlight /\ Phone!Arrive(r)) \/ Phone!Handle(r)
      PROVE  Alone'
  <2>1. PhoneOnly(r)
    BY <1>2, PhoneFrame
  <2>2. NobodyAtWork \/ Phone!InFlight(r)
    BY <1>2, NobodyBusy, AtWork
  <2>3. /\ \A q \in Phone!Requests \ {r} : ~Phone!InFlight(q)
        /\ \A q \in Social!Requests : ~Social!InFlight(q)
        /\ \A b \in Social!Activations : ~Social!Active(b)
    BY <2>2 DEF Alone, NobodyAtWork
  <2> QED
    BY <2>1, <2>3 DEF Alone, PhoneOnly, socialVars, Phone!InFlight, Social!InFlight, Social!Active
<1>3. ASSUME NEW r \in Social!Requests, UNCHANGED <<phoneVars, act, counted>>,
             (Busy < MaxInFlight /\ SignUp(r)) \/ Social!SignupHandle(r, Social!Valid)
      PROVE  Alone'
  <2>1. SignupOnly(r)
    BY <1>3, SignupFrame
  <2>2. NobodyAtWork \/ Social!InFlight(r)
    BY <1>3, NobodyBusy, AtWork
  <2>3. /\ \A q \in Phone!Requests : ~Phone!InFlight(q)
        /\ \A q \in Social!Requests \ {r} : ~Social!InFlight(q)
        /\ \A b \in Social!Activations : ~Social!Active(b)
    BY <2>2 DEF Alone, NobodyAtWork
  <2> QED
    BY <1>3, <2>1, <2>3
       DEF Alone, SignupOnly, phoneVars, Phone!InFlight, Social!InFlight, Social!Active
<1>4. ASSUME NEW a \in Social!Activations, UNCHANGED phoneVars, UNCHANGED signups,
             (Busy < MaxInFlight /\ Social!ActivationArrive(a)) \/ Social!ActivationHandle(a)
      PROVE  Alone'
  <2>1. ActivationOnly(a)
    BY <1>4, ActivationFrame
  <2>2. NobodyAtWork \/ Social!Active(a)
    BY <1>4, NobodyBusy, AtWork
  <2>3. /\ \A q \in Phone!Requests : ~Phone!InFlight(q)
        /\ \A q \in Social!Requests : ~Social!InFlight(q)
        /\ \A b \in Social!Activations \ {a} : ~Social!Active(b)
    BY <2>2 DEF Alone, NobodyAtWork
  <2> QED
    BY <1>4, <2>1, <2>3
       DEF Alone, ActivationOnly, phoneVars, Phone!InFlight, Social!InFlight, Social!Active
<1>5. ASSUME NEW a \in Social!Activations, UNCHANGED phoneVars,
             NEW r \in Social!Requests, NEW t, Social!ActivateUnknown(a, r, t)
      PROVE  Alone'
  <2>1. act[a].pc = "signUp" /\ act'[a].pc = "done"
    BY <1>5 DEF Social!ActivateUnknown, Types, AC!ActivationInv, AC!Activations, Social!Activations,
                AC!Activation
  <2>2. ActivationOnly(a) /\ \A q \in Social!Requests \ {r} : signups'[q] = signups[q]
    <3>1. ActivationOnly(a)
      BY <1>5, <2>1 DEF ActivationOnly, Social!ActivateUnknown, Social!SignupStart, Types,
           AC!ActivationInv, AC!Activations, Social!Activations, AC!Activation
    <3> QED
      BY <1>5, <3>1, HandedFrame
  <2>3. /\ \A q \in Phone!Requests : ~Phone!InFlight(q)
        /\ \A q \in Social!Requests : ~Social!InFlight(q)
        /\ \A b \in Social!Activations \ {a} : ~Social!Active(b)
    BY <2>1 DEF Alone, Social!Active
  <2> QED
    BY <1>5, <2>1, <2>2, <2>3
       DEF Alone, ActivationOnly, phoneVars, Phone!InFlight, Social!InFlight, Social!Active
<1>6. ASSUME PhoneStep
      PROVE  Alone'
  BY <1>2, <1>6 DEF PhoneStep
<1>7. ASSUME SignupStep
      PROVE  Alone'
  BY <1>3, <1>7 DEF SignupStep
<1>8. ASSUME ActivationStep
      PROVE  Alone'
  BY <1>4, <1>5, <1>8, NotHanded DEF ActivationStep, Social!ActivationHandle
<1> QED
  BY <1>1, <1>6, <1>7, <1>8 DEF Next, StoreStep, Finished, vars, phoneVars, socialVars

-----------------------------------------------------------------------------
(* Phone verifications                                                     *)

\* What the handler r has decided on, of a UserSignup that is still the one it read or is gone.
PhonePlan(r) ==
  LET q == req[r]
      set == writes[r].set IN
    /\ Len(log[q.user]) = q.base \/ Latest(q.user) = Absent
    /\ q.kind = "verify" /\ q.pc \in {"get", "put"} =>
         /\ q.answer \in {"ok", "invalid", "tooMany", "internal", "expired"}
         /\ writes[r] = Phone!VerifyWrites(Phone!Base(r), q.answer)
         /\ q.answer \in {"ok", "invalid"} => ~Phone!AttemptsUsedUp(Phone!Base(r))
    /\ q.kind = "init" /\ q.pc # "checkPhone" =>
         /\ writes[r].del = {}
         /\ IF q.pc \in {"get", "put"} /\ q.answer = "ok"
            THEN {"code", "attempts"} \subseteq DOMAIN set /\ set.attempts = 0 /\ set.code \in Codes
            ELSE {"code", "attempts"} \cap DOMAIN set = {}

SameRequest(r) ==
  req'[r].user = req[r].user /\ req'[r].base = req[r].base /\ req'[r].kind = req[r].kind

\* A request that has a code to write for a message it has sent.
Sent(r) == req[r].kind = "init" /\ req[r].pc \in {"get", "put"} /\ req[r].answer = "ok"

\* What a step of r may be.
PhoneBegins(r) ==
  /\ req[r].pc = "idle" /\ UNCHANGED <<log, sms>>
  /\ req'[r].answer \notin {"ok", "invalid", "tooMany"}
  /\ Phone!InFlight(r)' => /\ req'[r].user \in Users
                           /\ req'[r].base = Len(log[req'[r].user])
                           /\ req'[r].pc \in {"checkPhone", "decide"}

PhoneGoesOn(r) ==
  /\ Phone!InFlight(r) /\ SameRequest(r) /\ UNCHANGED <<log, sms>>
  /\ ~(req'[r].pc = "done" /\ req[r].kind = "verify" /\ req'[r].answer \in {"ok", "invalid"})
  /\ req'[r].answer = "tooMany" =>
       req[r].answer = "tooMany" \/ Phone!AttemptsUsedUp(Phone!Base(r))
  /\ Sent(r)' => Sent(r)

PhoneSends(r) ==
  /\ req[r].pc = "send" /\ SameRequest(r) /\ UNCHANGED log
  /\ req'[r].pc = "get" /\ req'[r].answer = "ok"
  /\ \E c \in Codes : /\ sms[c] = None /\ sms'[c] # None /\ sms'[c].user = req[r].user
                      /\ \A d \in Codes \ {c} : sms'[d] = sms[d]

PhoneWrote(r) ==
  /\ req[r].pc = "put" /\ SameRequest(r) /\ UNCHANGED sms
  /\ req'[r].pc = "done" /\ req'[r].answer = req[r].answer
  /\ IsCurrent(req[r].user, req[r].copy)
  /\ NewVersion(req[r].user, Phone!Written(r)) /\ UNCHANGED <<banned, now>>

PhoneEffect(r) == PhoneBegins(r) \/ PhoneGoesOn(r) \/ PhoneSends(r) \/ PhoneWrote(r)

LEMMA NotNone ==
  /\ \A x \in Codes \cup Phones \cup Events \cup Nat : x # None
  /\ \A x \in {"ok", "invalid", "tooMany", "internal", "expired", "rejected"} : x # None
  /\ \A x \in {"accepted", "rejected", "conflict", "forbidden", "banned", "badEvent"} : x # None
<1>1. \A x \in {"ok", "invalid", "tooMany", "internal", "expired", "rejected"} : x # None
  BY PhoneAssumed DEF PV!NoneAssumption, PV!Answers
<1>2. \A x \in {"accepted", "rejected", "conflict", "forbidden", "banned", "badEvent"} : x # None
  BY SocialAssumed DEF AC!NoneAssumption, AC!SignupAnswers
<1> QED
  BY <1>1, <1>2, HostStoreAssumption

LEMMA ArriveEffect ==
  ASSUME Types, CachesFresh, NEW r \in Phone!Requests, Phone!Arrive(r)
  PROVE  PhoneEffect(r) /\ (Phone!InFlight(r)' => PhonePlan(r)')
<1>1. req \in [Phone!Requests -> PV!Request]
  BY DEF Types, PV!TypeOK, PV!Requests, Phone!Requests
<1>2. ASSUME NEW p \in Replicas, NEW u \in Users, NEW k, NEW ph, NEW c, NEW pc, NEW n,
             Phone!Start(r, k, p, u, ph, c, pc, n)
      PROVE  /\ req'[r].pc = pc /\ req'[r].user = u /\ req'[r].kind = k /\ req'[r].answer = n
             /\ req'[r].base = Len(log[u])
  BY <1>1, <1>2 DEF Phone!Start, Phone!Idle, CachesFresh
<1>3. \A p \in Replicas, u \in Users : \A ph : Phone!InitStart(r, p, u, ph) =>
        /\ req[r].pc = "idle" /\ UNCHANGED <<log, sms>>
        /\ req'[r].pc \in {"done", "checkPhone"} /\ req'[r].kind = "init" /\ req'[r].user = u
        /\ req'[r].base = Len(log[u])
        /\ req'[r].answer \in {None, "notFound", "badRequest", "rejected"}
  BY <1>2 DEF Phone!InitStart, Phone!MayStart, Phone!storeVars
<1>4. \A p \in Replicas, u \in Users : \A c : Phone!VerifyStart(r, p, u, c) =>
        /\ req[r].pc = "idle" /\ UNCHANGED <<log, sms>>
        /\ req'[r].pc \in {"done", "decide"} /\ req'[r].kind = "verify" /\ req'[r].user = u
        /\ req'[r].base = Len(log[u])
        /\ req'[r].answer \in {None, "notFound", "captcha"}
  BY <1>2 DEF Phone!VerifyStart, Phone!MayStart, Phone!storeVars
<1>5. PICK u \in Users :
        /\ req[r].pc = "idle" /\ UNCHANGED <<log, sms>>
        /\ req'[r].pc \in {"done", "decide", "checkPhone"} /\ req'[r].user = u
        /\ req'[r].base = Len(log[u])
        /\ req'[r].answer \in {None, "notFound", "captcha", "badRequest", "rejected"}
        /\ req'[r].kind = "init" => req'[r].pc # "decide"
  BY <1>3, <1>4 DEF Phone!Arrive
<1> QED
  BY <1>5, NotNone DEF PhoneEffect, PhoneBegins, PhonePlan, Phone!InFlight

\* A step that ends r, leaving its request as it is otherwise.
LEMMA AnswerEffect ==
  ASSUME Types, NEW r \in Phone!Requests, Phone!InFlight(r), NEW a, Phone!Answer(r, a),
         UNCHANGED <<log, sms>>, a \notin {"ok", "invalid", "tooMany"}
  PROVE  PhoneGoesOn(r) /\ ~Phone!InFlight(r)'
<1>1. req \in [Phone!Requests -> Phone!Request]
  BY PhoneFacts DEF Types, PV!TypeOK, PV!Requests, Phone!Requests
<1>2. req' = [req EXCEPT ![r] = Phone!Done(r, a)]
  BY DEF Phone!Answer
<1>3. req'[r] = Phone!Done(r, a)
  BY <1>1, <1>2
<1>4. req'[r].pc = "done" /\ req'[r].answer = a /\ SameRequest(r)
  BY <1>1, <1>3 DEF Phone!Done, SameRequest, Phone!Request
<1> QED
  BY <1>4 DEF PhoneGoesOn, Phone!InFlight, Sent

LEMMA CheckPhoneEffect ==
  ASSUME Types, NEW r \in Phone!Requests, Phone!InFlight(r), PhonePlan(r), Phone!InitCheckPhone(r)
  PROVE  PhoneEffect(r) /\ (Phone!InFlight(r)' => PhonePlan(r)')
<1> DEFINE s == Phone!Base(r)
           w == [Phone!NoChange EXCEPT !.set = Phone!With([phone |-> req[r].phone], Phone!Reset(s))]
<1>1. /\ req \in [Phone!Requests -> Phone!Request]
      /\ writes = [q \in Phone!Requests |-> writes[q]]
  BY PhoneFacts DEF Types, PV!TypeOK, PV!Requests, Phone!Requests
<1>2. req[r].pc = "checkPhone" /\ req[r].kind = "init" /\ UNCHANGED <<log, sms>>
  BY PhoneFacts DEF Phone!InitCheckPhone, Phone!storeVars
<1>3. w.del = {} /\ {"code", "attempts"} \cap DOMAIN w.set = {}
  <2>1. DOMAIN Phone!Reset(s) \subseteq {"initAt", "counter"}
    BY DEF Phone!Reset, Phone!NoFields
  <2>2. DOMAIN Phone!With([phone |-> req[r].phone], Phone!Reset(s)) \subseteq {"phone", "initAt", "counter"}
    BY <2>1 DEF Phone!With
  <2>3. w.del = {} /\ w.set = Phone!With([phone |-> req[r].phone], Phone!Reset(s))
    BY DEF Phone!NoChange
  <2> QED
    BY <2>2, <2>3
<1>4. CASE Phone!Answer(r, "phoneInUse")
  BY <1>2, <1>4, AnswerEffect DEF PhoneEffect
<1>5. CASE ~Phone!Answer(r, "phoneInUse")
  <2>1. \/ Phone!Update(r, w, "limit")
        \/ /\ req' = [req EXCEPT ![r].pc = IF Phone!LookupApplies(r) THEN "lookup" ELSE "send",
                                 ![r].clock = now]
           /\ writes' = [writes EXCEPT ![r] = w]
    BY <1>5 DEF Phone!InitCheckPhone
  <2>2. /\ writes'[r] = w /\ SameRequest(r)
        /\ \/ req'[r].pc = "get" /\ req'[r].answer = "limit"
           \/ req'[r].pc \in {"lookup", "send"} /\ req'[r].answer = req[r].answer
    <3> HIDE DEF w
    <3> QED
      BY <1>1, <2>1 DEF Phone!Update, SameRequest, Phone!Request
  <2> HIDE DEF w
  <2>3. PhonePlan(r)'
    BY <1>2, <1>3, <2>2 DEF PhonePlan, SameRequest, Latest
  <2> QED
    BY <1>2, <2>2, <2>3 DEF PhoneEffect, PhoneGoesOn, SameRequest, Sent
<1> QED
  BY <1>4, <1>5

LEMMA LookupEffect ==
  ASSUME Types, NEW r \in Phone!Requests, Phone!InFlight(r), PhonePlan(r), Phone!InitLookup(r)
  PROVE  PhoneEffect(r) /\ (Phone!InFlight(r)' => PhonePlan(r)')
<1>1. /\ req \in [Phone!Requests -> Phone!Request]
      /\ writes = [q \in Phone!Requests |-> writes[q]] /\ PV!IsUpdate(writes[r])
  BY PhoneFacts DEF Types, PV!TypeOK, PV!Requests, Phone!Requests
<1>2. req[r].pc = "lookup" /\ req[r].kind = "init" /\ UNCHANGED <<log, sms>>
  BY PhoneFacts DEF Phone!InitLookup, Phone!storeVars
<1>3. writes[r].del = {} /\ {"code", "attempts"} \cap DOMAIN writes[r].set = {}
  BY <1>2 DEF PhonePlan
<1>4. /\ SameRequest(r)
      /\ \/ req'[r].pc = "get" /\ req'[r].answer = "rejected"
         \/ req'[r].pc = "send" /\ req'[r].answer = req[r].answer
      /\ writes'[r].del = {} /\ {"code", "attempts"} \cap DOMAIN writes'[r].set = {}
  <2>1. CASE Phone!Goto(r, "send") /\ UNCHANGED writes
    BY <1>1, <1>3, <2>1 DEF Phone!Goto, SameRequest, Phone!Request
  <2>2. ASSUME NEW risk \in {"low", "high"}
        PROVE  LET w == [writes[r] EXCEPT !.set = Phone!With(@, [risk |-> risk])] IN
                 /\ w = [set |-> w.set, add |-> w.add, del |-> w.del]
                 /\ w.del = {} /\ {"code", "attempts"} \cap DOMAIN w.set = {}
    <3> DEFINE f == Phone!With(writes[r].set, [risk |-> risk])
               w == [writes[r] EXCEPT !.set = f]
    <3>1. {"code", "attempts"} \cap DOMAIN f = {}
      BY <1>3 DEF Phone!With
    <3>2. w = [set |-> w.set, add |-> w.add, del |-> w.del] /\ w.set = f /\ w.del = {}
      <4> HIDE DEF f
      <4> QED
        BY <1>1, <1>3 DEF PV!IsUpdate
    <3> QED
      BY <3>1, <3>2
  <2>3. ASSUME NEW w, w = [set |-> w.set, add |-> w.add, del |-> w.del],
               w.del = {}, {"code", "attempts"} \cap DOMAIN w.set = {}, NEW risk,
               IF risk = "high" /\ LookupMode = "enabled"
               THEN /\ req' = [req EXCEPT ![r].pc = "get", ![r].answer = "rejected"]
                    /\ writes' = [writes EXCEPT ![r] = [w EXCEPT !.add = {"rejected"}]]
               ELSE /\ Phone!Goto(r, "send")
                    /\ writes' = [writes EXCEPT ![r] = w]
        PROVE  /\ SameRequest(r)
               /\ \/ req'[r].pc = "get" /\ req'[r].answer = "rejected"
                  \/ req'[r].pc = "send" /\ req'[r].answer = req[r].answer
               /\ writes'[r].del = {} /\ {"code", "attempts"} \cap DOMAIN writes'[r].set = {}
    <3> DEFINE v == [w EXCEPT !.add = {"rejected"}]
    <3>1. v.set = w.set /\ v.del = w.del
      BY <2>3
    <3> HIDE DEF v
    <3>2. writes' = [writes EXCEPT ![r] = v] \/ writes' = [writes EXCEPT ![r] = w]
      BY <2>3 DEF v
    <3>3. writes'[r] = v \/ writes'[r] = w
      BY <1>1, <3>2
    <3> QED
      BY <1>1, <2>3, <3>1, <3>3 DEF Phone!Goto, SameRequest, Phone!Request
  <2> QED
    BY <2>1, <2>2, <2>3 DEF Phone!InitLookup
<1>5. PhonePlan(r)'
  BY <1>2, <1>4 DEF PhonePlan, SameRequest, Latest
<1> QED
  BY <1>2, <1>4, <1>5 DEF PhoneEffect, PhoneGoesOn, SameRequest, Sent

LEMMA SendEffect ==
  ASSUME Types, NEW r \in Phone!Requests, Phone!InFlight(r), PhonePlan(r), Phone!InitSend(r)
  PROVE  PhoneEffect(r) /\ (Phone!InFlight(r)' => PhonePlan(r)')
<1>1. /\ req \in [Phone!Requests -> Phone!Request]
      /\ writes = [q \in Phone!Requests |-> writes[q]] /\ PV!IsUpdate(writes[r])
      /\ sms = [c \in Codes |-> sms[c]]
  BY PhoneFacts DEF Types, PV!TypeOK, PV!Requests, Phone!Requests
<1>2. req[r].pc = "send" /\ req[r].kind = "init" /\ UNCHANGED log
  BY PhoneFacts DEF Phone!InitSend, Phone!storeVars
<1>3. writes[r].del = {} /\ {"code", "attempts"} \cap DOMAIN writes[r].set = {}
  BY <1>2 DEF PhonePlan
<1>4. CASE req' = [req EXCEPT ![r].pc = "get", ![r].answer = "internal"] /\ UNCHANGED <<writes, sms>>
  <2>1. req'[r].pc = "get" /\ req'[r].answer = "internal" /\ SameRequest(r)
    BY <1>1, <1>4 DEF SameRequest, Phone!Request
  <2>2. PhonePlan(r)'
    BY <1>2, <1>3, <1>4, <2>1 DEF PhonePlan, SameRequest, Latest
  <2> QED
    BY <1>2, <1>4, <2>1, <2>2 DEF PhoneEffect, PhoneGoesOn, Sent
<1>5. ASSUME NEW c \in Codes, sms[c] = None,
             sms' = [sms EXCEPT ![c] = [user |-> req[r].user, phone |-> req[r].phone, at |-> req[r].clock]],
             writes' = [writes EXCEPT ![r].set = Phone!With(@, Phone!CodeFields(r, c))],
             req' = [req EXCEPT ![r].pc = "get", ![r].answer = "ok"]
      PROVE  PhoneEffect(r) /\ PhonePlan(r)'
  <2> DEFINE m == [user |-> req[r].user, phone |-> req[r].phone, at |-> req[r].clock]
             f == Phone!With(writes[r].set, Phone!CodeFields(r, c))
  <2>1. req'[r].pc = "get" /\ req'[r].answer = "ok" /\ SameRequest(r)
    BY <1>1, <1>5 DEF SameRequest, Phone!Request
  <2>2. {"code", "attempts"} \subseteq DOMAIN f /\ f.code = c /\ f.attempts = 0
    BY DEF Phone!With, Phone!CodeFields
  <2>3. writes'[r].set = f /\ writes'[r].del = writes[r].del
    <3>1. writes' = [writes EXCEPT ![r].set = f]
      BY <1>5
    <3> HIDE DEF f
    <3> QED
      BY <1>1, <3>1 DEF PV!IsUpdate
  <2>4. m # None
    <3>1. m \in PV!Message
      BY <1>2, PhoneFacts, HostStoreAssumption
         DEF PV!Message, Types, PV!TypeOK, PV!HandlerTypeOK, PV!InFlight, Phone!InFlight, PV!Requests,
             Phone!Requests, Phone!Request
    <3> QED
      BY <3>1, PhoneAssumed DEF PV!NoneAssumption
  <2>5. sms'[c] = m /\ m.user = req[r].user /\ \A d \in Codes \ {c} : sms'[d] = sms[d]
    <3>1. sms' = [sms EXCEPT ![c] = m]
      BY <1>5
    <3>2. m.user = req[r].user
      OBVIOUS
    <3> HIDE DEF m
    <3> QED
      BY <1>1, <3>1, <3>2
  <2>6. PhonePlan(r)'
    <3> HIDE DEF f
    <3> QED
      BY <1>2, <1>3, <2>1, <2>2, <2>3 DEF PhonePlan, SameRequest, Latest
  <2>7. PhoneSends(r)
    <3> HIDE DEF m
    <3> QED
      BY <1>2, <1>5, <2>1, <2>4, <2>5 DEF PhoneSends
  <2> QED
    BY <2>6, <2>7 DEF PhoneEffect
<1> QED
  BY <1>4, <1>5 DEF Phone!InitSend

LEMMA DecideEffect ==
  ASSUME Types, NEW r \in Phone!Requests, Phone!InFlight(r), PhonePlan(r), Phone!VerifyDecide(r)
  PROVE  PhoneEffect(r) /\ (Phone!InFlight(r)' => PhonePlan(r)')
<1> DEFINE s == Phone!Base(r)
           verdict == Phone!Verdict(s, req[r].code)
           w == Phone!VerifyWrites(s, verdict)
<1>1. /\ req \in [Phone!Requests -> Phone!Request]
      /\ writes = [q \in Phone!Requests |-> writes[q]]
  BY PhoneFacts DEF Types, PV!TypeOK, PV!Requests, Phone!Requests
<1>2. req[r].pc = "decide" /\ req[r].kind = "verify" /\ UNCHANGED <<log, sms>>
  BY PhoneFacts DEF Phone!VerifyDecide, Phone!storeVars
<1>3. CASE Phone!Answer(r, "phoneInUse")
  BY <1>2, <1>3, AnswerEffect DEF PhoneEffect
<1>4. CASE ~Phone!Answer(r, "phoneInUse")
  <2>1. Phone!Update(r, w, verdict)
    BY <1>4 DEF Phone!VerifyDecide
  <2>2. /\ verdict \in {"ok", "invalid", "tooMany", "internal", "expired"}
        /\ verdict \in {"ok", "invalid"} => ~Phone!AttemptsUsedUp(s)
        /\ verdict = "tooMany" => Phone!AttemptsUsedUp(s)
    BY DEF Phone!Verdict
  <2>3. /\ writes'[r] = w /\ SameRequest(r)
        /\ req'[r].pc = "get" /\ req'[r].answer = verdict
    <3> HIDE DEF w, verdict
    <3> QED
      BY <1>1, <2>1 DEF Phone!Update, SameRequest, Phone!Request
  <2>4. Phone!Base(r)' = s
    BY <1>2, <2>3 DEF Phone!Base, SameRequest
  <2>5. writes'[r] = Phone!VerifyWrites(s, req'[r].answer)
    BY <2>3
  <2> HIDE DEF w, verdict, s
  <2>6. PhonePlan(r)'
    BY <1>2, <2>2, <2>3, <2>4, <2>5 DEF PhonePlan, SameRequest, Latest
  <2> QED
    BY <1>2, <2>2, <2>3, <2>6 DEF PhoneEffect, PhoneGoesOn, SameRequest, Sent, s
<1> QED
  BY <1>3, <1>4

LEMMA RetryEffect ==
  ASSUME Types, NEW r \in Phone!Requests, Phone!InFlight(r), PhonePlan(r), Phone!Retry(r),
         UNCHANGED <<log, sms>>, req[r].pc \in {"get", "put"}
  PROVE  PhoneEffect(r) /\ (Phone!InFlight(r)' => PhonePlan(r)')
<1>1. req \in [Phone!Requests -> Phone!Request]
  BY PhoneFacts DEF Types, PV!TypeOK, PV!Requests, Phone!Requests
<1>2. CASE Phone!Answer(r, "internal")
  BY <1>2, AnswerEffect DEF PhoneEffect
<1>3. CASE ~Phone!Answer(r, "internal")
  <2>1. req' = [req EXCEPT ![r].pc = "get", ![r].tries = @ + 1] /\ UNCHANGED writes
    BY <1>3 DEF Phone!Retry
  <2>2. req'[r].pc = "get" /\ req'[r].answer = req[r].answer /\ SameRequest(r)
    BY <1>1, <2>1 DEF SameRequest, Phone!Request
  <2>3. Phone!Base(r)' = Phone!Base(r)
    BY <2>2 DEF Phone!Base, SameRequest
  <2>4. PhonePlan(r)'
    BY <2>1, <2>2, <2>3 DEF PhonePlan, SameRequest, Latest
  <2> QED
    BY <2>2, <2>4 DEF PhoneEffect, PhoneGoesOn, Sent, SameRequest
<1> QED
  BY <1>2, <1>3

LEMMA GetEffect ==
  ASSUME Types, NEW r \in Phone!Requests, Phone!InFlight(r), PhonePlan(r), Phone!Get(r)
  PROVE  PhoneEffect(r) /\ (Phone!InFlight(r)' => PhonePlan(r)')
<1>1. req \in [Phone!Requests -> Phone!Request]
  BY PhoneFacts DEF Types, PV!TypeOK, PV!Requests, Phone!Requests
<1>2. req[r].pc = "get" /\ UNCHANGED <<log, sms>>
  BY DEF Phone!Get, Phone!storeVars
<1>3. CASE Phone!Retry(r)
  BY <1>2, <1>3, RetryEffect
<1>4. CASE ~Phone!Retry(r)
  <2>1. /\ req' = [req EXCEPT ![r].pc = "put", ![r].copy = seen[req[r].at][req[r].user]]
        /\ UNCHANGED writes
    BY <1>4 DEF Phone!Get
  <2>2. req'[r].pc = "put" /\ req'[r].answer = req[r].answer /\ SameRequest(r)
    BY <1>1, <2>1 DEF SameRequest, Phone!Request
  <2>3. Phone!Base(r)' = Phone!Base(r)
    BY <1>2, <2>2 DEF Phone!Base, SameRequest
  <2>4. PhonePlan(r)'
    BY <1>2, <2>1, <2>2, <2>3 DEF PhonePlan, SameRequest, Latest
  <2> QED
    BY <1>2, <2>2, <2>4 DEF PhoneEffect, PhoneGoesOn, Sent, SameRequest
<1> QED
  BY <1>3, <1>4

LEMMA PutEffect ==
  ASSUME Types, NEW r \in Phone!Requests, Phone!InFlight(r), Phone!Put(r)
  PROVE  PhoneWrote(r) /\ ~Phone!InFlight(r)'
<1>1. req \in [Phone!Requests -> Phone!Request]
  BY PhoneFacts DEF Types, PV!TypeOK, PV!Requests, Phone!Requests
<1>2. req' = [req EXCEPT ![r] = Phone!Done(r, req[r].answer)]
  BY DEF Phone!Put, Phone!Answer
<1>3. req'[r] = Phone!Done(r, req[r].answer)
  BY <1>1, <1>2
<1>4. req'[r].pc = "done" /\ req'[r].answer = req[r].answer /\ SameRequest(r)
  BY <1>1, <1>3 DEF Phone!Done, SameRequest, Phone!Request
<1>5. /\ req[r].pc = "put" /\ UNCHANGED <<sms, banned, now>>
      /\ IsCurrent(req[r].user, req[r].copy) /\ NewVersion(req[r].user, Phone!Written(r))
  BY SameVersions DEF Phone!Put
<1> QED
  BY <1>4, <1>5 DEF PhoneWrote, Phone!InFlight

LEMMA HandleEffect ==
  ASSUME Undisturbed, Types, NEW r \in Phone!Requests, Phone!Handle(r), PhonePlan(r)
  PROVE  PhoneEffect(r) /\ (Phone!InFlight(r)' => PhonePlan(r)')
<1>1. Phone!InFlight(r)
  BY AtWork
<1>2. CASE Phone!InitCheckPhone(r)
  BY <1>1, <1>2, CheckPhoneEffect
<1>3. CASE Phone!InitLookup(r)
  BY <1>1, <1>3, LookupEffect
<1>4. CASE Phone!InitSend(r)
  BY <1>1, <1>4, SendEffect
<1>5. CASE Phone!VerifyDecide(r)
  BY <1>1, <1>5, DecideEffect
<1>6. CASE Phone!Get(r)
  BY <1>1, <1>6, GetEffect
<1>7. CASE Phone!Put(r)
  BY <1>1, <1>7, PutEffect DEF PhoneEffect
<1>8. CASE Phone!PutConflict(r)
  <2>1. Phone!Retry(r) /\ req[r].pc = "put" /\ UNCHANGED <<log, sms>>
    BY <1>8 DEF Phone!PutConflict, Phone!storeVars
  <2> QED
    BY <1>1, <2>1, RetryEffect
<1>9. CASE Phone!PutError(r)
  BY <1>9 DEF Phone!PutError, Undisturbed
<1> QED
  BY <1>2, <1>3, <1>4, <1>5, <1>6, <1>7, <1>8, <1>9 DEF Phone!Handle

-----------------------------------------------------------------------------
(* Activations and sign-ups                                                *)

\* What the activation a has decided on.
ActivationPlan(a) ==
  LET q == act[a]
      s == log[q.user][q.base] IN
    q.pc \in {"try", "put"} =>
      /\ Len(log[q.user]) = q.base \/ Latest(q.user) = Absent
      /\ s # Absent /\ ~Social!AttemptsUsedUp(s)
      /\ Latest(q.user) # Absent =>
           IF q.pc = "try" \/ q.approve
           THEN q.error = None /\ q.attempts = Social!Attempts(s)
           ELSE q.error = "invalid" /\ q.attempts = Social!Attempts(s) + 1
      /\ Latest(q.user) # Absent /\ q.pc = "put" => q.copy = q.base

SameActivation(a) ==
  act'[a].user = act[a].user /\ act'[a].base = act[a].base /\ act'[a].code = act[a].code

\* Activation a has entered a code that may turn out to be wrong.
Guessing(a) == act[a].pc \in {"try", "put"}

\* What a step of a may be.
ActivationBegins(a) ==
  /\ act[a].pc = "idle" /\ UNCHANGED <<log, signups>>
  /\ act'[a].answer \in {None, "tooMany"}
  /\ act'[a].pc # "idle" => /\ act'[a].user \in Users
                            /\ act'[a].base = Len(log[act'[a].user])

ActivationGoesOn(a) ==
  /\ Social!Active(a) /\ SameActivation(a) /\ UNCHANGED <<log, signups>>
  /\ act'[a].answer \notin {"ok", "invalid"}
  /\ Guessing(a)' => Guessing(a)

\* The UserSignup is gone, after a wrong code.
ActivationGaveUp(a) ==
  /\ Guessing(a) /\ SameActivation(a) /\ UNCHANGED <<log, signups>>
  /\ act'[a].pc = "done" /\ act'[a].answer = "invalid" /\ Latest(act[a].user) = Absent

ActivationWrote(a) ==
  /\ act[a].pc = "put" /\ SameActivation(a) /\ UNCHANGED signups
  /\ act'[a].pc = "done" /\ act'[a].answer = IF act[a].error = None THEN "ok" ELSE "invalid"
  /\ IsCurrent(act[a].user, act[a].copy)
  /\ NewVersion(act[a].user, Social!ActivationWritten(a)) /\ UNCHANGED <<banned, now>>

\* Its request goes on as a sign-up.
ActivationHandsOver(a) ==
  /\ act[a].pc = "signUp" /\ SameActivation(a) /\ UNCHANGED log
  /\ act'[a].pc = "done" /\ act'[a].answer = "handedOn"

ActivationEffect(a) ==
  \/ ActivationBegins(a) \/ ActivationGoesOn(a) \/ ActivationGaveUp(a) \/ ActivationWrote(a)
  \/ ActivationHandsOver(a)

LEMMA ActivationNotNone ==
  \A x \in {"ok", "tooMany", "invalid", "internal", "handedOn"} : x # None
BY SocialAssumed DEF AC!ActivationNoneAssumption, AC!ActivationAnswers

LEMMA ActivateStartEffect ==
  ASSUME Types, CachesFresh, NEW a \in Social!Activations, Social!ActivationArrive(a)
  PROVE  ActivationEffect(a) /\ ActivationPlan(a)'
<1>1. act \in [Social!Activations -> Social!Activation]
  BY ActivationFacts DEF Types, AC!ActivationInv, AC!Activations, Social!Activations
<1>2. PICK p \in Replicas, u \in Users : \E c \in Social!Opt(Social!EventCodes) : Social!ActivateStart(a, p, u, c)
  BY DEF Social!ActivationArrive
<1>3. PICK c \in Social!Opt(Social!EventCodes) : Social!ActivateStart(a, p, u, c)
  BY <1>2
<1> DEFINE s == Social!Cached(p, u)
           Begin(pc, n, answer) ==
             act' = [act EXCEPT ![a] =
                       [Social!NoActivation EXCEPT !.pc = pc, !.at = p, !.user = u, !.code = c,
                                                   !.base = seen[p][u], !.attempts = n,
                                                   !.answer = answer]]
<1>4. \A pc, n, answer : Begin(pc, n, answer) =>
        /\ act'[a].pc = pc /\ act'[a].user = u /\ act'[a].base = seen[p][u]
        /\ act'[a].attempts = n /\ act'[a].answer = answer /\ act'[a].error = None
  BY <1>1 DEF Social!NoActivation
<1>5. /\ act[a].pc = "idle" /\ UNCHANGED <<log, signups>>
      /\ IF s = Absent THEN Begin("signUp", 0, None)
         ELSE IF Social!AttemptsUsedUp(s) THEN Begin("done", 0, "tooMany")
         ELSE Begin("try", Social!Attempts(s), None)
  BY <1>3 DEF Social!ActivateStart, Social!MayActivate, Social!storeVars, Social!signupVars
<1>6. seen[p][u] = Len(log[u]) /\ s = log[u][Len(log[u])]
  BY DEF CachesFresh, Social!Cached
<1> HIDE DEF Begin, s
<1>7. /\ act'[a].user = u /\ act'[a].base = Len(log[u]) /\ act'[a].error = None
      /\ act'[a].answer \in {None, "tooMany"}
      /\ \/ act'[a].pc \in {"signUp", "done"}
         \/ /\ act'[a].pc = "try" /\ act'[a].attempts = Social!Attempts(s)
            /\ s # Absent /\ ~Social!AttemptsUsedUp(s)
  BY <1>4, <1>5, <1>6
<1>8. ActivationPlan(a)'
  BY <1>5, <1>6, <1>7 DEF ActivationPlan
<1> QED
  BY <1>5, <1>7, <1>8 DEF ActivationEffect, ActivationBegins

LEMMA ActivateRetryEffect ==
  ASSUME Types, NEW a \in Social!Activations, ActivationPlan(a), Social!ActivateRetry(a),
         Guessing(a), UNCHANGED <<log, signups>>, Latest(act[a].user) = Absent
  PROVE  ActivationEffect(a) /\ ActivationPlan(a)'
<1>1. act \in [Social!Activations -> Social!Activation]
  BY ActivationFacts DEF Types, AC!ActivationInv, AC!Activations, Social!Activations
<1>2. Social!Active(a) /\ act[a].answer = None
  BY ActivationFacts DEF Social!Active, Guessing
<1>3. CASE act' = [act EXCEPT ![a].pc = "try", ![a].tries = @ + 1]
  <2>1. act'[a].pc = "try" /\ act'[a].answer = None /\ SameActivation(a)
    BY <1>1, <1>2, <1>3 DEF SameActivation, Social!Activation
  <2>2. ActivationPlan(a)'
    BY <2>1 DEF ActivationPlan, SameActivation, Guessing, Latest
  <2> QED
    BY <1>2, <2>1, <2>2, ActivationNotNone DEF ActivationEffect, ActivationGoesOn
<1>4. CASE act' = [act EXCEPT ![a] = Social!Answered(a, IF @.error = None THEN "internal" ELSE @.error)]
  <2> DEFINE answer == IF act[a].error = None THEN "internal" ELSE act[a].error
  <2>1. answer \in {"internal", "invalid"}
    BY <1>1 DEF Social!Activation, Social!Opt
  <2>2. act'[a] = Social!Answered(a, answer)
    BY <1>1, <1>4
  <2> HIDE DEF answer
  <2>3. act'[a].pc = "done" /\ act'[a].answer = answer /\ SameActivation(a)
    BY <1>1, <2>2 DEF Social!Answered, SameActivation, Social!Activation
  <2>4. ActivationPlan(a)'
    BY <2>3 DEF ActivationPlan
  <2> QED
    BY <1>2, <2>1, <2>3, <2>4
       DEF ActivationEffect, ActivationGoesOn, ActivationGaveUp, Guessing
<1> QED
  BY <1>3, <1>4 DEF Social!ActivateRetry

LEMMA ActivateTryEffect ==
  ASSUME Types, CachesFresh, NEW a \in Social!Activations, ActivationPlan(a), Social!ActivateTry(a)
  PROVE  ActivationEffect(a) /\ ActivationPlan(a)'
<1> DEFINE u == act[a].user
           p == act[a].at
<1>1. act \in [Social!Activations -> Social!Activation]
  BY ActivationFacts DEF Types, AC!ActivationInv, AC!Activations, Social!Activations
<1>2. act[a].pc = "try" /\ UNCHANGED <<log, signups>>
  BY DEF Social!ActivateTry, Social!storeVars, Social!signupVars
<1>3. u \in Users /\ p \in Replicas /\ act[a].answer = None
  BY <1>2, ActivationFacts
<1>4. seen[p][u] = Len(log[u]) /\ Social!Cached(p, u) = Latest(u)
  BY <1>3 DEF CachesFresh, Social!Cached, Latest
<1>5. CASE Latest(u) = Absent
  BY <1>2, <1>4, <1>5, ActivateRetryEffect DEF Social!ActivateTry, Guessing
<1>6. CASE Latest(u) # Absent
  <2>1. \/ act' = [act EXCEPT ![a].pc = "put", ![a].copy = seen[p][u], ![a].approve = TRUE]
        \/ act' = [act EXCEPT ![a].pc = "put", ![a].copy = seen[p][u], ![a].approve = FALSE,
                              ![a].attempts = @ + 1, ![a].error = "invalid"]
    BY <1>4, <1>6 DEF Social!ActivateTry
  <2>2. Len(log[u]) = act[a].base /\ act[a].error = None
        /\ act[a].attempts = Social!Attempts(log[u][act[a].base])
    BY <1>2, <1>6 DEF ActivationPlan
  <2>3. /\ SameActivation(a) /\ act'[a].pc = "put" /\ act'[a].copy = act[a].base
        /\ act'[a].answer = None
        /\ \/ /\ act'[a].approve /\ act'[a].error = None
              /\ act'[a].attempts = act[a].attempts
           \/ /\ ~act'[a].approve /\ act'[a].error = "invalid"
              /\ act'[a].attempts = act[a].attempts + 1
    BY <1>1, <1>3, <1>4, <2>1, <2>2 DEF SameActivation, Social!Activation
  <2>4. ActivationPlan(a)'
    BY <1>2, <2>2, <2>3 DEF ActivationPlan, SameActivation, Latest
  <2> QED
    BY <1>2, <2>3, <2>4, ActivationNotNone
       DEF ActivationEffect, ActivationGoesOn, Guessing, Social!Active
<1> QED
  BY <1>5, <1>6

LEMMA ActivatePutEffect ==
  ASSUME Types, NEW a \in Social!Activations, Social!ActivatePut(a)
  PROVE  ActivationWrote(a) /\ ActivationPlan(a)'
<1> DEFINE answer == IF act[a].error = None THEN "ok" ELSE act[a].error
<1>1. act \in [Social!Activations -> Social!Activation]
  BY ActivationFacts DEF Types, AC!ActivationInv, AC!Activations, Social!Activations
<1>2. answer = IF act[a].error = None THEN "ok" ELSE "invalid"
  BY <1>1 DEF Social!Activation, Social!Opt
<1>3. act'[a] = Social!Answered(a, answer)
  <2>1. act' = [act EXCEPT ![a] = Social!Answered(a, answer)]
    BY <1>1 DEF Social!ActivatePut
  <2> QED
    BY <1>1, <2>1
<1>4. /\ act[a].pc = "put" /\ UNCHANGED <<signups, banned, now>>
      /\ IsCurrent(act[a].user, act[a].copy)
      /\ NewVersion(act[a].user, Social!ActivationWritten(a))
  BY SameVersions DEF Social!ActivatePut, Social!ActivationWritable, Social!signupVars
<1> HIDE DEF answer
<1>5. act'[a].pc = "done" /\ act'[a].answer = answer /\ SameActivation(a)
  BY <1>1, <1>3 DEF Social!Answered, SameActivation, Social!Activation
<1> QED
  BY <1>2, <1>4, <1>5 DEF ActivationWrote, ActivationPlan

LEMMA HandsOverEffect ==
  ASSUME Types, NEW a \in Social!Activations, NEW r, NEW t, Social!ActivateUnknown(a, r, t)
  PROVE  ActivationHandsOver(a)
<1>1. act \in [Social!Activations -> Social!Activation]
  BY ActivationFacts DEF Types, AC!ActivationInv, AC!Activations, Social!Activations
<1>2. act[a].pc = "signUp" /\ UNCHANGED log
      /\ act' = [act EXCEPT ![a].pc = "done", ![a].answer = "handedOn"]
  BY DEF Social!ActivateUnknown, Social!SignupStart, Social!storeVars
<1>3. act'[a].pc = "done" /\ act'[a].answer = "handedOn" /\ SameActivation(a)
  BY <1>1, <1>2 DEF SameActivation, Social!Activation
<1> QED
  BY <1>2, <1>3 DEF ActivationHandsOver

LEMMA ActivationHandleEffect ==
  ASSUME Undisturbed, Types, CachesFresh, NEW a \in Social!Activations, ActivationPlan(a),
         Social!ActivationHandle(a)
  PROVE  ActivationEffect(a) /\ ActivationPlan(a)'
<1>1. CASE Social!ActivateTry(a)
  BY <1>1, ActivateTryEffect
<1>2. CASE Social!ActivatePut(a)
  BY <1>2, ActivatePutEffect DEF ActivationEffect
<1>3. CASE Social!ActivateConflict(a)
  <2>1. /\ act[a].pc = "put" /\ Social!ActivateRetry(a) /\ UNCHANGED <<log, signups>>
        /\ ~IsCurrent(act[a].user, act[a].copy)
    BY <1>3, SameVersions
       DEF Social!ActivateConflict, Social!ActivationWritable, Social!storeVars, Social!signupVars
  <2>2. Latest(act[a].user) = Absent
    BY <2>1 DEF ActivationPlan, IsCurrent
  <2> QED
    BY <2>1, <2>2, ActivateRetryEffect DEF Guessing
<1>4. CASE Social!ActivatePutError(a)
  BY <1>4 DEF Social!ActivatePutError, Undisturbed
<1>5. ASSUME NEW r \in Social!Requests, NEW t \in Claims, Social!ActivateUnknown(a, r, t)
      PROVE  ActivationEffect(a) /\ ActivationPlan(a)'
  <2>1. ActivationHandsOver(a)
    BY <1>5, HandsOverEffect
  <2> QED
    BY <2>1 DEF ActivationEffect, ActivationHandsOver, ActivationPlan
<1> QED
  BY <1>1, <1>2, <1>3, <1>4, <1>5 DEF Social!ActivationHandle

\* Every user has to verify a phone, or attend an event that asks for none.
Everybody == VerificationEnabled /\ ~CaptchaEnabled /\ ExcludedUsers = {}

NoPhoneEvents == Events \ VerifyingEvents

\* A new UserSignup has no code and no attempts, and asks for the verification unless the event
\* e that it came with does away with it.
NewlyMade(s, e) ==
  /\ s.code = None /\ s.attempts = None
  /\ Everybody => "verification-required" \in s.states \/ e \in NoPhoneEvents

\* What the sign-up r has decided on.
SignupPlan(r) ==
  LET q == signups[r] IN
    q.pc \in {"verify", "build", "write"} =>
      /\ \/ Len(log[q.user]) = q.base
         \/ Social!Base(r) # Absent /\ Latest(q.user) = Absent
      /\ q.pc = "write" => NewlyMade(draft[r], q.event)

SameSignup(r) ==
  /\ signups'[r].user = signups[r].user /\ signups'[r].base = signups[r].base
  /\ signups'[r].event = signups[r].event

SignupBegins(r) ==
  /\ signups[r].pc = "idle" /\ UNCHANGED log
  /\ signups'[r].answer # "accepted" /\ signups'[r].verdict # "rejected"

SignupGoesOn(r) ==
  /\ Social!InFlight(r) /\ SameSignup(r) /\ UNCHANGED log
  /\ signups'[r].answer \notin {"accepted", "rejected"}

SignupWrote(r) ==
  /\ signups[r].pc = "write" /\ SameSignup(r)
  /\ signups'[r].pc = "done" /\ Len(log[signups[r].user]) = signups[r].base
  /\ \/ signups'[r].answer = "accepted"
     \/ signups'[r].answer = "rejected" /\ signups'[r].verdict = "rejected"
  /\ NewVersion(signups[r].user, draft[r]) /\ UNCHANGED <<banned, now>>

SignupEffect(r) == SignupBegins(r) \/ SignupGoesOn(r) \/ SignupWrote(r)

LEMMA SignupStartEffect ==
  ASSUME Types, CachesFresh, NEW r \in Social!Requests, NEW p \in Replicas, NEW u \in Users,
         NEW t, NEW e, Social!SignupStart(r, p, u, t, e)
  PROVE  SignupBegins(r) /\ SignupPlan(r)'
<1>1. signups \in [Social!Requests -> Social!Request]
  BY SignupFacts DEF Types, AC!ActivationInv, AC!IInv, AC!TypeOK, AC!Requests, Social!Requests
<1>2. \A pc, n : Social!Start(r, "signup", p, u, t, e, pc, n) =>
        /\ signups'[r].pc = pc /\ signups'[r].user = u /\ signups'[r].answer = n
        /\ signups'[r].base = Len(log[u]) /\ signups'[r].verdict = None
  BY <1>1 DEF Social!Start, Social!Idle, CachesFresh
<1>3. /\ signups[r].pc = "idle" /\ UNCHANGED log
      /\ \/ Social!Start(r, "signup", p, u, t, e, "verify", None)
         \/ Social!Start(r, "signup", p, u, t, e, "done", "rejected")
         \/ Social!Start(r, "signup", p, u, t, e, "done", "conflict")
  BY DEF Social!SignupStart, Social!MayStart, Social!storeVars
<1>4. /\ signups'[r].pc \in {"verify", "done"} /\ signups'[r].user = u
      /\ signups'[r].base = Len(log[u]) /\ signups'[r].verdict = None
      /\ signups'[r].answer \in {None, "rejected", "conflict"}
  BY <1>2, <1>3
<1> QED
  BY <1>3, <1>4, NotNone DEF SignupBegins, SignupPlan

LEMMA SignUpEffect ==
  ASSUME Types, CachesFresh, NEW r \in Social!Requests, SignUp(r)
  PROVE  SignupEffect(r) /\ SignupPlan(r)'
BY SignupStartEffect DEF SignUp, SignupEffect

LEMMA SignupVerifyEffect ==
  ASSUME Types, NEW r \in Social!Requests, SignupPlan(r), Social!SignupVerify(r)
  PROVE  SignupEffect(r) /\ SignupPlan(r)'
<1>1. signups \in [Social!Requests -> Social!Request]
  BY SignupFacts DEF Types, AC!ActivationInv, AC!IInv, AC!TypeOK, AC!Requests, Social!Requests
<1>2. signups[r].pc = "verify" /\ UNCHANGED log /\ signups[r].answer = None
      /\ \E v : signups' = [signups EXCEPT ![r].pc = "build", ![r].verdict = v]
  BY SignupFacts DEF Social!SignupVerify, Social!storeVars
<1>3. signups'[r].pc = "build" /\ signups'[r].answer = None /\ SameSignup(r)
  BY <1>1, <1>2 DEF SameSignup, Social!Request
<1>4. Social!Base(r)' = Social!Base(r)
  BY <1>2, <1>3 DEF Social!Base, SameSignup
<1> QED
  BY <1>2, <1>3, <1>4, NotNone
     DEF SignupEffect, SignupGoesOn, SignupPlan, SameSignup, Social!InFlight, Latest

\* The UserSignup that newUserSignup builds.
Built(t, v, a, e) ==
  IF e = None THEN Social!NewSignup(t, v, a) ELSE Social!WithEvent(Social!NewSignup(t, v, a), e)

LEMMA DraftBuilt ==
  ASSUME NEW u \in Users, NEW t, NEW v, NEW e, NEW a \in Social!Assessments(u), NEW old,
         e # None => e \in Events
  PROVE  NewlyMade(Built(t, v, a, e), e) /\ NewlyMade(Social!Reactivated(old, Built(t, v, a, e)), e)
<1> DEFINE S == Social!NewStates(v, a[1])
           approve == IF e \in VerifyingEvents THEN [add |-> {}, del |-> {}] ELSE Social!SetApprovedManually
           T == ((S \cup approve.add) \ approve.del) \ {"deactivated"}
           Made(states, event) ==
             [states |-> states, approval |-> "pending", status |-> "none",
              claims |-> t, emailHash |-> t, phone |-> None, initAt |-> None, counter |-> 0,
              attempts |-> None, code |-> None, expiry |-> None, risk |-> None, event |-> event,
              score |-> a[2], activated |-> None]
<1>1. Everybody => "verification-required" \in S
  <2>1. ASSUME Everybody
        PROVE  a[1] = TRUE
    <3>1. a = <<TRUE, None>>
      BY <2>1 DEF Everybody, Social!Assessments
    <3> QED
      BY <3>1
  <2>2. "verification-required" \in Social!NewStates(v, TRUE)
    BY DEF Social!NewStates
  <2> QED
    BY <2>1, <2>2
<1>2. e \in VerifyingEvents /\ "verification-required" \in S => "verification-required" \in T
  OBVIOUS
<1>3. Social!NewSignup(t, v, a) = Made(S, None)
  BY DEF Social!NewSignup
<1>4. Social!WithEvent(Made(S, None), e) = [Made(S, None) EXCEPT !.states = T, !.event = e]
  BY DEF Social!WithEvent
<1> HIDE DEF S, T
<1>5. Social!WithEvent(Made(S, None), e) = Made(T, e)
  BY <1>4, ZenonT(60)
<1>6. Built(t, v, a, e) = IF e = None THEN Made(S, None) ELSE Made(T, e)
  BY <1>3, <1>5 DEF Built
<1>7. \A states, event :
        /\ Made(states, event).code = None /\ Made(states, event).attempts = None
        /\ Made(states, event).states = states
        /\ Social!Reactivated(old, Made(states, event)).code = None
        /\ Social!Reactivated(old, Made(states, event)).attempts = None
        /\ Social!Reactivated(old, Made(states, event)).states = states
  BY DEF Social!Reactivated
<1> HIDE DEF Made
<1> QED
  BY <1>1, <1>2, <1>6, <1>7 DEF NoPhoneEvents, NewlyMade

LEMMA SignupBuildEffect ==
  ASSUME Types, NEW r \in Social!Requests, SignupPlan(r), Social!SignupBuild(r, Social!Valid)
  PROVE  SignupEffect(r) /\ SignupPlan(r)'
<1> DEFINE u == signups[r].user
           e == signups[r].event
<1>1. /\ signups \in [Social!Requests -> Social!Request]
      /\ draft \in [Social!Requests -> AC!Opt(AC!Signup)]
  BY SignupFacts DEF Types, AC!ActivationInv, AC!IInv, AC!TypeOK, AC!Requests, Social!Requests
<1>2. signups[r].pc = "build" /\ UNCHANGED log /\ signups[r].answer = None /\ u \in Users
  BY SignupFacts DEF Social!SignupBuild, Social!storeVars
<1>3. ASSUME NEW n, n \notin {"accepted", "rejected"}, Social!Answer(r, n)
      PROVE  SignupEffect(r) /\ SignupPlan(r)'
  <2>1. signups'[r].pc = "done" /\ signups'[r].answer = n /\ SameSignup(r)
    BY <1>1, <1>3 DEF Social!Answer, SameSignup, Social!Request
  <2> QED
    BY <1>2, <1>3, <2>1 DEF SignupEffect, SignupGoesOn, SignupPlan, Social!InFlight
<1>4. ASSUME NEW a \in Social!Assessments(u), e # None => e \in Social!Valid,
             LET new == Built(signups[r].token, signups[r].verdict, a, e) IN
               /\ Social!Goto(r, "write")
               /\ draft' = [draft EXCEPT ![r] = IF Social!Base(r) = Absent THEN new
                                                ELSE Social!Reactivated(Social!Base(r), new)]
      PROVE  SignupEffect(r) /\ SignupPlan(r)'
  <2> DEFINE new == Built(signups[r].token, signups[r].verdict, a, e)
             d == IF Social!Base(r) = Absent THEN new ELSE Social!Reactivated(Social!Base(r), new)
  <2>1. signups'[r].pc = "write" /\ signups'[r].answer = None /\ SameSignup(r)
    BY <1>1, <1>2, <1>4 DEF Social!Goto, SameSignup, Social!Request
  <2>2. draft'[r] = d
    <3>1. draft' = [draft EXCEPT ![r] = d]
      BY <1>4
    <3> HIDE DEF d
    <3> QED
      BY <1>1, <3>1
  <2>3. NewlyMade(new, e) /\ NewlyMade(Social!Reactivated(Social!Base(r), new), e)
    <3>1. e # None => e \in Events
      BY <1>4 DEF Social!Valid
    <3> QED
      BY <1>2, <1>4, <3>1, DraftBuilt
  <2> HIDE DEF new
  <2>4. NewlyMade(d, e)
    BY <2>3
  <2> HIDE DEF d
  <2>5. Social!Base(r)' = Social!Base(r)
    BY <1>2, <2>1 DEF Social!Base, SameSignup
  <2>6. SignupPlan(r)'
    BY <1>2, <2>1, <2>2, <2>4, <2>5 DEF SignupPlan, SameSignup, Latest
  <2> QED
    BY <1>2, <2>1, <2>6, NotNone DEF SignupEffect, SignupGoesOn, Social!InFlight
<1> QED
  BY <1>3, <1>4 DEF Social!SignupBuild, Built

LEMMA SignupWriteEffect ==
  ASSUME Types, NEW r \in Social!Requests, SignupPlan(r), Social!SignupWrite(r)
  PROVE  SignupEffect(r) /\ SignupPlan(r)'
<1>1. signups \in [Social!Requests -> Social!Request]
  BY SignupFacts DEF Types, AC!ActivationInv, AC!IInv, AC!TypeOK, AC!Requests, Social!Requests
<1>2. signups[r].pc = "write" /\ UNCHANGED <<banned, now>>
      /\ Social!Answer(r, Social!Outcome(r))
  BY DEF Social!SignupWrite
<1>3. signups'[r].pc = "done" /\ signups'[r].answer = Social!Outcome(r)
      /\ signups'[r].verdict = signups[r].verdict /\ SameSignup(r)
  <2> DEFINE n == Social!Outcome(r)
  <2>1. signups' = [signups EXCEPT ![r].pc = "done", ![r].answer = n]
    BY <1>2 DEF Social!Answer
  <2> HIDE DEF n
  <2>2. signups'[r].pc = "done" /\ signups'[r].answer = n
        /\ signups'[r].verdict = signups[r].verdict /\ SameSignup(r)
    BY <1>1, <2>1 DEF SameSignup, Social!Request
  <2> QED
    BY <2>2 DEF n
<1>4. CASE Social!Writable(r)
  <2>1. NewVersion(signups[r].user, draft[r])
    BY <1>4, SameVersions DEF Social!SignupWrite
  <2>2. Len(log[signups[r].user]) = signups[r].base
    <3>1. CASE Social!Base(r) = Absent
      BY <1>2, <3>1 DEF SignupPlan
    <3>2. CASE Social!Base(r) # Absent
      BY <1>4, <3>2 DEF Social!Writable, Social!IsCurrent
    <3> QED
      BY <3>1, <3>2
  <2> QED
    BY <1>2, <1>3, <1>4, <2>1, <2>2 DEF SignupEffect, SignupWrote, SignupPlan, Social!Outcome
<1>5. CASE ~Social!Writable(r)
  BY <1>2, <1>3, <1>5
     DEF SignupEffect, SignupGoesOn, SignupPlan, Social!Outcome, Social!SignupWrite, Social!InFlight
<1> QED
  BY <1>4, <1>5

LEMMA SignupHandleEffect ==
  ASSUME Undisturbed, Types, NEW r \in Social!Requests, SignupPlan(r),
         Social!SignupHandle(r, Social!Valid)
  PROVE  SignupEffect(r) /\ SignupPlan(r)'
BY SignupVerifyEffect, SignupBuildEffect, SignupWriteEffect
   DEF Social!SignupHandle, Social!SignupWriteError, Undisturbed

-----------------------------------------------------------------------------
(* What all of them have decided on                                        *)

Plans ==
  /\ \A r \in Phone!Requests : Phone!InFlight(r) => PhonePlan(r)
  /\ \A a \in Social!Activations : ActivationPlan(a)
  /\ \A r \in Social!Requests : SignupPlan(r)

\* A step of the store: it deletes UserSignups at most.
StoreEffect ==
  \A u \in Users : \/ log'[u] = log[u]
                   \/ Latest(u) # Absent /\ log'[u] = Append(log[u], Absent)

LEMMA StoreStepEffect ==
  ASSUME Undisturbed, Types, StoreNext
  PROVE  StoreEffect
<1>1. StoreTypeOK
  BY StoreTyped
<1>2. \A u \in Users : ~OperatorApproves(u) /\ ~OperatorDeactivates(u) /\ ~OperatorReports(u)
                         /\ ~AdminApproves(u)
  BY DEF Undisturbed, OperatorApproves, OperatorDeactivates, OperatorReports, AdminApproves
<1>3. ASSUME NEW v \in Users, OperatorDeletes(v)
      PROVE  StoreEffect
  BY <1>1, <1>3, NewVersionType DEF OperatorDeletes, OperatorWrites, StoreEffect
<1> QED
  BY <1>2, <1>3 DEF StoreNext, InformerSync, Tick, BanPhone, BanUser, StoreEffect

LEMMA LengthGrows ==
  ASSUME StoreTypeOK, NEW u \in Users, NEW s, s \in Signup \cup {Absent}, log'[u] = Append(log[u], s)
  PROVE  Len(log'[u]) = Len(log[u]) + 1 /\ Latest(u)' = s /\ Len(log[u]) \in Nat \ {0}
<1>1. log[u] \in Seq(Signup \cup {Absent}) /\ Len(log[u]) \in Nat \ {0}
  BY DEF StoreTypeOK
<1> QED
  BY <1>1 DEF Latest

LEMMA StoreKeepsPlans ==
  ASSUME Undisturbed, Types, Types', LogGrows, Plans, StoreNext, UNCHANGED <<phoneVars, socialVars>>
  PROVE  Plans'
<1>1. StoreTypeOK /\ StoreEffect
  BY StoreTyped, StoreStepEffect
<1>2. \A u \in Users : \/ log'[u] = log[u] /\ Latest(u)' = Latest(u)
                       \/ Latest(u) # Absent /\ Latest(u)' = Absent
  BY <1>1, LengthGrows DEF StoreEffect, Latest
<1>3. UNCHANGED <<req, writes, sms, signups, draft, act>>
  BY DEF phoneVars, socialVars
<1>4. ASSUME NEW r \in Phone!Requests, Phone!InFlight(r)'
      PROVE  PhonePlan(r)'
  <2>1. Phone!InFlight(r) /\ PhonePlan(r) /\ req[r].user \in Users
    BY <1>3, <1>4, PhoneFacts DEF Phone!InFlight, Plans
  <2>2. Phone!Base(r)' = Phone!Base(r)
    BY <1>3, <2>1, PhoneFacts DEF Phone!Base, LogGrows
  <2> QED
    BY <1>2, <1>3, <2>1, <2>2 DEF PhonePlan
<1>5. ASSUME NEW a \in Social!Activations, act[a].pc \in {"try", "put"}
      PROVE  ActivationPlan(a)'
  <2>1. act[a].user \in Users /\ act[a].base \in 1 .. Len(log[act[a].user]) /\ ActivationPlan(a)
    BY <1>5, ActivationFacts DEF Plans
  <2>2. log'[act[a].user][act[a].base] = log[act[a].user][act[a].base]
    BY <2>1 DEF LogGrows
  <2> QED
    BY <1>2, <1>3, <1>5, <2>1, <2>2 DEF ActivationPlan
<1>6. ASSUME NEW r \in Social!Requests, signups[r].pc \in {"verify", "build", "write"}
      PROVE  SignupPlan(r)'
  <2>1. /\ signups[r].user \in Users /\ signups[r].base \in 1 .. Len(log[signups[r].user])
        /\ SignupPlan(r)
    BY <1>6, SignupFacts DEF Plans
  <2>2. Social!Base(r)' = Social!Base(r)
    BY <1>3, <2>1 DEF Social!Base, LogGrows
  <2>3. signups[r].base = Len(log[signups[r].user]) => Social!Base(r) = Latest(signups[r].user)
    BY DEF Social!Base, Latest
  <2> QED
    BY <1>2, <1>3, <1>6, <2>1, <2>2, <2>3 DEF SignupPlan
<1>7. \A a \in Social!Activations : ActivationPlan(a)'
  BY <1>3, <1>5 DEF ActivationPlan
<1>8. \A r \in Social!Requests : SignupPlan(r)'
  BY <1>3, <1>6 DEF SignupPlan
<1> QED
  BY <1>4, <1>7, <1>8 DEF Plans

\* Nobody is at work but, perhaps, the phone verification r.
OnlyPhone(r) ==
  /\ \A q \in Phone!Requests \ {r} : ~Phone!InFlight(q)
  /\ \A q \in Social!Requests : ~Social!InFlight(q)
  /\ \A b \in Social!Activations : ~Social!Active(b)

OnlySocial(r, a) ==
  /\ \A q \in Phone!Requests : ~Phone!InFlight(q)
  /\ \A q \in Social!Requests : q = r \/ ~Social!InFlight(q)
  /\ \A b \in Social!Activations : b = a \/ ~Social!Active(b)

LEMMA PhoneMove ==
  ASSUME Undisturbed, Types, Alone, CachesFresh, Plans, PhoneStep
  PROVE  \E r \in Phone!Requests : /\ PhoneOnly(r) /\ OnlyPhone(r) /\ PhoneEffect(r)
                                   /\ Phone!InFlight(r)' => PhonePlan(r)'
<1>1. PICK r \in Phone!Requests :
        (Busy < MaxInFlight /\ Phone!Arrive(r)) \/ Phone!Handle(r)
  BY DEF PhoneStep
<1>2. PhoneOnly(r)
  BY <1>1, PhoneFrame DEF PhoneStep
<1>3. NobodyAtWork \/ Phone!InFlight(r)
  BY <1>1, NobodyBusy, AtWork
<1>4. OnlyPhone(r)
  BY <1>3 DEF Alone, NobodyAtWork, OnlyPhone
<1>5. CASE Phone!Arrive(r)
  BY <1>2, <1>4, <1>5, ArriveEffect
<1>6. CASE Phone!Handle(r)
  BY <1>2, <1>4, <1>6, HandleEffect, AtWork DEF Plans
<1> QED
  BY <1>1, <1>5, <1>6

LEMMA SignupMove ==
  ASSUME Undisturbed, Types, Alone, CachesFresh, Plans, SignupStep
  PROVE  \E r \in Social!Requests : /\ SignupOnly(r) /\ UNCHANGED act /\ OnlySocial(r, 0)
                                    /\ SignupEffect(r) /\ SignupPlan(r)'
<1>1. PICK r \in Social!Requests :
        (Busy < MaxInFlight /\ SignUp(r)) \/ Social!SignupHandle(r, Social!Valid)
  BY DEF SignupStep
<1>2. SignupOnly(r) /\ UNCHANGED act
  BY <1>1, SignupFrame DEF SignupStep
<1>3. NobodyAtWork \/ Social!InFlight(r)
  BY <1>1, NobodyBusy, AtWork
<1>4. OnlySocial(r, 0)
  BY <1>3 DEF Alone, NobodyAtWork, OnlySocial
<1>5. CASE SignUp(r)
  BY <1>2, <1>4, <1>5, SignUpEffect
<1>6. CASE Social!SignupHandle(r, Social!Valid)
  BY <1>2, <1>4, <1>6, SignupHandleEffect DEF Plans
<1> QED
  BY <1>1, <1>5, <1>6

LEMMA ActivationMove ==
  ASSUME Undisturbed, Types, Alone, CachesFresh, Plans, ActivationStep
  PROVE  \E a \in Social!Activations :
           /\ ActivationOnly(a) /\ ActivationEffect(a) /\ ActivationPlan(a)'
           /\ \/ UNCHANGED signups /\ OnlySocial(0, a)
              \/ /\ ActivationHandsOver(a)
                 /\ \E r \in Social!Requests :
                      /\ \A q \in Social!Requests \ {r} : signups'[q] = signups[q]
                      /\ SignupBegins(r) /\ SignupPlan(r)' /\ OnlySocial(r, a)
<1>1. PICK a \in Social!Activations :
        (Busy < MaxInFlight /\ Social!ActivationArrive(a)) \/ Social!ActivationHandle(a)
  BY DEF ActivationStep
<1>2. ActivationOnly(a)
  BY <1>1, ActivationFrame DEF ActivationStep
<1>3. NobodyAtWork \/ Social!Active(a)
  BY <1>1, NobodyBusy, AtWork
<1>4. OnlySocial(0, a) /\ \A r : OnlySocial(r, a)
  BY <1>3 DEF Alone, NobodyAtWork, OnlySocial
<1>5. ActivationEffect(a) /\ ActivationPlan(a)'
  <2>1. CASE Social!ActivationArrive(a)
    BY <2>1, ActivateStartEffect
  <2>2. CASE Social!ActivationHandle(a)
    BY <2>2, ActivationHandleEffect DEF Plans
  <2> QED
    BY <1>1, <2>1, <2>2
<1>6. ASSUME NEW r \in Social!Requests, NEW t \in Claims, Social!ActivateUnknown(a, r, t)
      PROVE  /\ ActivationHandsOver(a)
             /\ \A q \in Social!Requests \ {r} : signups'[q] = signups[q]
             /\ SignupBegins(r) /\ SignupPlan(r)'
  <2>1. /\ act[a].pc = "signUp" /\ act[a].user \in Users /\ act[a].at \in Replicas
        /\ Social!SignupStart(r, act[a].at, act[a].user, t, act[a].code)
    BY <1>6, ActivationFacts DEF Social!ActivateUnknown
  <2>2. SignupBegins(r) /\ SignupPlan(r)'
    BY <2>1, SignupStartEffect
  <2>3. ActivationHandsOver(a)
    BY <1>6, HandsOverEffect
  <2> QED
    BY <1>6, <2>2, <2>3, HandedFrame
<1>7. ASSUME ~\E r \in Social!Requests, t \in Claims : Social!ActivateUnknown(a, r, t)
      PROVE  UNCHANGED signups
  BY <1>1, <1>7, NotHanded DEF Social!ActivationHandle
<1> QED
  BY <1>2, <1>4, <1>5, <1>6, <1>7

LEMMA NotAtWork ==
  /\ \A a \in Social!Activations : ~Social!Active(a) => ActivationPlan(a)
  /\ \A r \in Social!Requests : ~Social!InFlight(r) => SignupPlan(r)
BY DEF Social!Active, Social!InFlight, ActivationPlan, SignupPlan

LEMMA NotAtWorkNext ==
  /\ \A a \in Social!Activations : ~Social!Active(a)' => ActivationPlan(a)'
  /\ \A r \in Social!Requests : ~Social!InFlight(r)' => SignupPlan(r)'
BY DEF Social!Active, Social!InFlight, ActivationPlan, SignupPlan

LEMMA PlansNext ==
  ASSUME Undisturbed, Types, Alone, CachesFresh, Plans, [Next]_vars
  PROVE  Plans'
<1>1. Types' /\ LogGrows
  BY TypesNext
<1>2. CASE StoreStep
  BY <1>1, <1>2, StoreKeepsPlans DEF StoreStep
<1>3. CASE UNCHANGED vars
  BY <1>3 DEF vars, Plans, PhonePlan, ActivationPlan, SignupPlan, Phone!InFlight, Latest, Phone!Base,
              Social!Base
<1>4. CASE PhoneStep
  <2>1. PICK r \in Phone!Requests : /\ PhoneOnly(r) /\ OnlyPhone(r) /\ PhoneEffect(r)
                                    /\ Phone!InFlight(r)' => PhonePlan(r)'
    BY <1>4, PhoneMove
  <2>2. \A q \in Phone!Requests \ {r} : ~Phone!InFlight(q)'
    BY <2>1 DEF PhoneOnly, OnlyPhone, Phone!InFlight
  <2>3. /\ \A a \in Social!Activations : ~Social!Active(a)'
        /\ \A q \in Social!Requests : ~Social!InFlight(q)'
    BY <2>1 DEF PhoneOnly, OnlyPhone, socialVars, Social!Active, Social!InFlight
  <2> QED
    BY <2>1, <2>2, <2>3, NotAtWorkNext DEF Plans
<1>5. CASE SignupStep
  <2>1. PICK r \in Social!Requests : /\ SignupOnly(r) /\ UNCHANGED act /\ OnlySocial(r, 0)
                                     /\ SignupPlan(r)'
    BY <1>5, SignupMove
  <2>2. \A q \in Phone!Requests : ~Phone!InFlight(q)'
    BY <2>1 DEF SignupOnly, OnlySocial, phoneVars, Phone!InFlight
  <2>3. /\ \A a \in Social!Activations : ~Social!Active(a)'
        /\ \A q \in Social!Requests \ {r} : ~Social!InFlight(q)'
    BY <2>1 DEF SignupOnly, OnlySocial, Social!Active, Social!InFlight, Social!Activations
  <2> QED
    BY <2>1, <2>2, <2>3, NotAtWorkNext DEF Plans
<1>6. CASE ActivationStep
  <2>1. PICK a \in Social!Activations :
          /\ ActivationOnly(a) /\ ActivationPlan(a)'
          /\ \/ UNCHANGED signups /\ OnlySocial(0, a)
             \/ \E r \in Social!Requests :
                  /\ \A q \in Social!Requests \ {r} : signups'[q] = signups[q]
                  /\ SignupPlan(r)' /\ OnlySocial(r, a)
    BY <1>6, ActivationMove
  <2>2. \A q \in Phone!Requests : ~Phone!InFlight(q)'
    BY <2>1 DEF ActivationOnly, OnlySocial, phoneVars, Phone!InFlight
  <2>3. \A b \in Social!Activations \ {a} : ~Social!Active(b)'
    BY <2>1 DEF ActivationOnly, OnlySocial, Social!Active
  <2>4. \A q \in Social!Requests : SignupPlan(q)'
    <3>1. CASE UNCHANGED signups /\ OnlySocial(0, a)
      <4>1. \A q \in Social!Requests : ~Social!InFlight(q)'
        BY <3>1 DEF OnlySocial, Social!InFlight, Social!Requests
      <4> QED
        BY <4>1, NotAtWorkNext
    <3>2. ASSUME NEW r \in Social!Requests, SignupPlan(r)', OnlySocial(r, a),
                 \A q \in Social!Requests \ {r} : signups'[q] = signups[q]
          PROVE  \A q \in Social!Requests : SignupPlan(q)'
      <4>1. \A q \in Social!Requests \ {r} : ~Social!InFlight(q)'
        BY <3>2 DEF OnlySocial, Social!InFlight
      <4> QED
        BY <3>2, <4>1, NotAtWorkNext
    <3> QED
      BY <2>1, <3>1, <3>2
  <2> QED
    BY <2>1, <2>2, <2>3, <2>4, NotAtWorkNext DEF Plans
<1> QED
  BY <1>2, <1>3, <1>4, <1>5, <1>6 DEF Next, Finished

\* All that handlers are held to when they run one at a time.
Orderly == Types /\ CachesFresh /\ Alone /\ Plans

LEMMA OrderlyInit ==
  ASSUME Init
  PROVE  Orderly
<1>1. /\ \A r \in Phone!Requests : ~Phone!InFlight(r)
      /\ \A r \in Social!Requests : ~Social!InFlight(r)
      /\ \A a \in Social!Activations : ~Social!Active(a)
  BY DEF Init, Phone!Idle, Social!Idle, Social!NoActivation, Phone!InFlight, Social!InFlight,
         Social!Active
<1>2. Alone /\ Plans
  BY <1>1, NotAtWork DEF Alone, Plans
<1>3. CachesFresh
  <2>1. \A u \in Users : Len(log[u]) = 1
    BY DEF Init
  <2> QED
    BY <2>1 DEF Init, CachesFresh
<1> QED
  BY <1>2, <1>3, TypesInit DEF Orderly

LEMMA OrderlyNext ==
  ASSUME Undisturbed, Orderly, [Next]_vars
  PROVE  Orderly'
BY TypesNext, FreshNext, AloneNext, PlansNext DEF Orderly

-----------------------------------------------------------------------------
(* What a step does to the UserSignup of u and to what u has entered.      *)

\* These are what u enters, signs up with and is sent anew.
Adds(u, missed, guessed, verified, activated, enrolled, sent) ==
  /\ VerifiesOf(u, "invalid")' = VerifiesOf(u, "invalid") \cup missed
  /\ ActivationsOf(u, "invalid")' = ActivationsOf(u, "invalid") \cup guessed
  /\ VerifiesOf(u, "ok")' = VerifiesOf(u, "ok") \cup verified
  /\ ActivationsOf(u, "ok")' = ActivationsOf(u, "ok") \cup activated
  /\ SignupsOf(u)' = SignupsOf(u) \cup enrolled
  /\ MessagesTo(u)' = MessagesTo(u) \cup sent

AddsNothing(u) == Adds(u, {}, {}, {}, {}, {}, {})

Unverified(s) == "verification-required" \in s.states

\* The attempts that count when there are none on record.
Tries(s) == IF s.attempts = None THEN 0 ELSE s.attempts

Stays(u) == log'[u] = log[u] /\ AddsNothing(u)

Deleted(u) == Latest(u) # Absent /\ log'[u] = Append(log[u], Absent) /\ AddsNothing(u)

Messaged(u) ==
  /\ log'[u] = log[u]
  /\ \E c \in Codes \ MessagesTo(u) : Adds(u, {}, {}, {}, {}, {}, {c})

GaveUp(u) ==
  /\ Latest(u) = Absent /\ log'[u] = log[u]
  /\ \E a \in Social!Activations \ ActivationsOf(u, "invalid") :
       Guessing(a) /\ act[a].user = u /\ Adds(u, {}, {a}, {}, {}, {}, {})

Rewritten(u, s) ==
  /\ s.code = Latest(u).code /\ (Unverified(Latest(u)) => Unverified(s)) /\ AddsNothing(u)
  /\ \/ s.attempts = Latest(u).attempts
     \/ Latest(u).attempts = None /\ s.attempts = AttemptsAllowed

Stored(u, s) ==
  /\ s.code \in Codes /\ s.attempts = 0 /\ (Unverified(Latest(u)) => Unverified(s)) /\ AddsNothing(u)
  /\ \E r \in Phone!Requests : Sent(r) /\ req[r].user = u

Missed(u, s) ==
  /\ s.code = Latest(u).code /\ (Unverified(Latest(u)) => Unverified(s))
  /\ Tries(Latest(u)) < AttemptsAllowed /\ s.attempts = Tries(Latest(u)) + 1
  /\ \/ \E r \in Phone!Requests \ VerifiesOf(u, "invalid") :
          /\ Latest(u).attempts # None
          /\ req'[r].base = Len(log[u]) /\ Adds(u, {r}, {}, {}, {}, {}, {})
     \/ \E a \in Social!Activations \ ActivationsOf(u, "invalid") :
          act'[a].base = Len(log[u]) /\ Adds(u, {}, {a}, {}, {}, {}, {})

Verified(u, s) ==
  /\ s.code = None /\ s.attempts = None
  /\ \E r \in Phone!Requests \ VerifiesOf(u, "ok") :
       req'[r].base = Len(log[u]) /\ Adds(u, {}, {}, {r}, {}, {}, {})

Activated(u, s) ==
  /\ s.code = Latest(u).code /\ s.attempts = None
  /\ \E a \in Social!Activations \ ActivationsOf(u, "ok") :
       /\ act'[a].code \in VerifyingEvents => (Unverified(Latest(u)) => Unverified(s))
       /\ act'[a].base = Len(log[u]) /\ Adds(u, {}, {}, {}, {a}, {}, {})

Enrolled(u, s) ==
  \E r \in Social!Requests \ SignupsOf(u) :
    /\ NewlyMade(s, signups'[r].event)
    /\ signups'[r].base = Len(log[u]) /\ Adds(u, {}, {}, {}, {}, {r}, {})

WritesOver(u, s) ==
  /\ Latest(u) # Absent
  /\ Rewritten(u, s) \/ Stored(u, s) \/ Missed(u, s) \/ Verified(u, s) \/ Activated(u, s)

Writes(u) ==
  \E s \in Signup : log'[u] = Append(log[u], s) /\ (WritesOver(u, s) \/ Enrolled(u, s))

Move(u) == Stays(u) \/ Deleted(u) \/ Messaged(u) \/ GaveUp(u) \/ Writes(u)

\* What is answered stays as it is.
Settled ==
  /\ \A r \in Phone!Requests : req[r].pc = "done" => req'[r] = req[r]
  /\ \A a \in Social!Activations : act[a].pc = "done" => act'[a] = act[a]
  /\ \A r \in Social!Requests : signups[r].pc = "done" => signups'[r] = signups[r]

\* Whoever is told of too many attempts was so before, or has none left.
Judged(r) ==
  req'[r].answer = "tooMany" =>
    /\ SameRequest(r)
    /\ \/ req[r].answer = "tooMany"
       \/ Phone!InFlight(r) /\ Phone!AttemptsUsedUp(Phone!Base(r))

\* A code that is about to be stored was sent before, or in this step.
Sending(r) ==
  \A u \in Users : Sent(r)' /\ req'[r].user = u =>
    req[r].user = u /\ IF Sent(r) THEN AddsNothing(u) ELSE Messaged(u)

\* A code is tried only while attempts are left.
Trying(a) ==
  \A u \in Users : Guessing(a)' /\ act'[a].user = u =>
    /\ AddsNothing(u)
    /\ \/ Guessing(a) /\ act[a].user = u
       \/ log'[u] = log[u] /\ Latest(u) # Absent /\ ~Social!AttemptsUsedUp(Latest(u))

Moves ==
  /\ \A u \in Users : Move(u)
  /\ Settled
  /\ \A r \in Phone!Requests : Judged(r) /\ Sending(r)
  /\ \A a \in Social!Activations : Trying(a)

LEMMA PhoneTally ==
  ASSUME NEW r \in Phone!Requests, PhoneOnly(r), req[r].pc # "done", NEW u, NEW x
  PROVE  /\ VerifiesOf(u, x)' = VerifiesOf(u, x)
              \cup (IF req'[r].kind = "verify" /\ req'[r].user = u /\ req'[r].answer = x
                        /\ req'[r].pc = "done" THEN {r} ELSE {})
         /\ r \notin VerifiesOf(u, x)
         /\ UNCHANGED <<ActivationsOf(u, x), SignupsOf(u)>>
BY DEF PhoneOnly, VerifiesOf, ActivationsOf, SignupsOf, socialVars

LEMMA ActivationTally ==
  ASSUME NEW a \in Social!Activations, ActivationOnly(a), act[a].answer = None, NEW u, NEW x,
         x # None
  PROVE  /\ ActivationsOf(u, x)' = ActivationsOf(u, x)
              \cup (IF act'[a].user = u /\ act'[a].answer = x THEN {a} ELSE {})
         /\ a \notin ActivationsOf(u, x)
         /\ UNCHANGED <<VerifiesOf(u, x), MessagesTo(u)>>
BY DEF ActivationOnly, VerifiesOf, ActivationsOf, MessagesTo, phoneVars

LEMMA SignupTally ==
  ASSUME NEW r \in Social!Requests, signups[r].answer = None, NEW u,
         \A q \in Social!Requests \ {r} : signups'[q] = signups[q]
  PROVE  /\ SignupsOf(u)' = SignupsOf(u)
              \cup (IF signups'[r].user = u
                        /\ \/ signups'[r].answer = "accepted"
                           \/ signups'[r].answer = "rejected" /\ signups'[r].verdict = "rejected"
                    THEN {r} ELSE {})
         /\ r \notin SignupsOf(u)
BY NotNone DEF SignupsOf

LEMMA MessagesTally ==
  ASSUME NEW u, UNCHANGED sms
  PROVE  UNCHANGED MessagesTo(u)
BY DEF MessagesTo

\* Others delete at most, and enter nothing.
LEMMA StoreMoves ==
  ASSUME Undisturbed, Orderly, StoreStep \/ UNCHANGED vars
  PROVE  Moves
<1>1. UNCHANGED <<req, sms, signups, act>>
  BY DEF StoreStep, vars, phoneVars, socialVars
<1>2. StoreEffect
  BY StoreStepEffect DEF Orderly, StoreStep, vars, StoreEffect
<1>3. \A u : AddsNothing(u)
  BY <1>1 DEF AddsNothing, Adds, VerifiesOf, ActivationsOf, SignupsOf, MessagesTo
<1>4. \A u \in Users : Move(u)
  BY <1>2, <1>3 DEF StoreEffect, Move, Stays, Deleted
<1>5. Settled
  BY <1>1 DEF Settled
<1>6. \A r \in Phone!Requests : Judged(r) /\ Sending(r)
  BY <1>1, <1>3 DEF Judged, Sending, Sent, SameRequest
<1>7. \A a \in Social!Activations : Trying(a)
  BY <1>1, <1>3 DEF Trying, Guessing
<1> QED
  BY <1>4, <1>5, <1>6, <1>7 DEF Moves

LEMMA AppliedFields ==
  ASSUME NEW s \in Signup, NEW w, PV!IsUpdate(w)
  PROVE  /\ \A k \in {"code", "attempts"} :
              Phone!Apply(s, w)[k] = IF k \in DOMAIN w.set THEN w.set[k] ELSE s[k]
         /\ Phone!Apply(s, w).states = (s.states \cup w.add) \ w.del
<1>1. "states" \notin DOMAIN w.set /\ {"code", "attempts", "states"} \subseteq DOMAIN s
  BY DEF PV!IsUpdate, PV!Annotations, PV!Numbers, Signup
<1> DEFINE f == Phone!With(s, w.set)
<1>2. /\ \A k \in {"code", "attempts"} : f[k] = IF k \in DOMAIN w.set THEN w.set[k] ELSE s[k]
      /\ f.states = s.states /\ f = [k \in DOMAIN f |-> f[k]]
      /\ {"code", "attempts", "states"} \subseteq DOMAIN f
  BY <1>1 DEF Phone!With
<1>3. Phone!Apply(s, w) = [f EXCEPT !.states = (f.states \cup w.add) \ w.del]
  BY DEF Phone!Apply
<1> HIDE DEF f
<1> QED
  BY <1>2, <1>3

\* What a phone verification writes over the UserSignup that it read.
LEMMA PhoneWritesOver ==
  ASSUME Orderly, NEW r \in Phone!Requests, PhoneOnly(r), PhoneWrote(r),
         NEW u \in Users, req[r].user = u
  PROVE  Phone!Written(r) \in Signup /\ WritesOver(u, Phone!Written(r))
<1> DEFINE old == Latest(u)
           s == Phone!Written(r)
           set == writes[r].set
<1>1. Phone!InFlight(r) /\ req[r].pc = "put"
  BY DEF PhoneWrote, Phone!InFlight
<1>2. PhonePlan(r) /\ Types
  BY <1>1 DEF Orderly, Plans
<1>3. /\ u \in Users /\ s \in Signup /\ PV!IsUpdate(writes[r]) /\ req[r].kind \in {"init", "verify"}
      /\ Phone!Base(r) \in Signup
  BY <1>1, <1>2, PhoneFacts
<1>4. /\ old # Absent /\ req[r].base = Len(log[u]) /\ Phone!Base(r) = old
      /\ s = Phone!Apply(old, writes[r])
  BY <1>2 DEF PhonePlan, PhoneWrote, IsCurrent, Latest, Phone!Base, Phone!Written
<1>5. old \in Signup
  BY <1>3, <1>4
<1>6. /\ s.code = IF "code" \in DOMAIN set THEN set.code ELSE old.code
      /\ s.attempts = IF "attempts" \in DOMAIN set THEN set.attempts ELSE old.attempts
      /\ s.states = (old.states \cup writes[r].add) \ writes[r].del
  BY <1>3, <1>4, <1>5, AppliedFields
<1>7. /\ req'[r].base = Len(log[u]) /\ req'[r].kind = req[r].kind /\ req'[r].user = u
      /\ req'[r].pc = "done" /\ req'[r].answer = req[r].answer /\ UNCHANGED sms
  BY <1>4 DEF PhoneWrote, SameRequest
<1>8. /\ r \notin VerifiesOf(u, "ok") /\ r \notin VerifiesOf(u, "invalid")
      /\ UNCHANGED <<ActivationsOf(u, "ok"), ActivationsOf(u, "invalid"), SignupsOf(u), MessagesTo(u)>>
      /\ VerifiesOf(u, "ok")' = VerifiesOf(u, "ok")
           \cup (IF req[r].kind = "verify" /\ req[r].answer = "ok" THEN {r} ELSE {})
      /\ VerifiesOf(u, "invalid")' = VerifiesOf(u, "invalid")
           \cup (IF req[r].kind = "verify" /\ req[r].answer = "invalid" THEN {r} ELSE {})
  BY <1>1, <1>7, PhoneTally, MessagesTally
<1> HIDE DEF s, old
<1>9. CASE req[r].kind = "init"
  <2>1. AddsNothing(u)
    BY <1>8, <1>9 DEF AddsNothing, Adds
  <2>2. Unverified(old) => Unverified(s)
    BY <1>1, <1>2, <1>6, <1>9 DEF PhonePlan, Unverified
  <2>3. CASE req[r].answer = "ok"
    <3>1. Sent(r)
      BY <1>1, <1>9, <2>3 DEF Sent
    <3>2. s.code \in Codes /\ s.attempts = 0
      BY <1>1, <1>2, <1>6, <1>9, <2>3 DEF PhonePlan
    <3> QED
      BY <1>3, <1>4, <2>1, <2>2, <3>1, <3>2 DEF WritesOver, Stored, old, s
  <2>4. CASE req[r].answer # "ok"
    <3>1. s.code = old.code /\ s.attempts = old.attempts
      BY <1>1, <1>2, <1>6, <1>9, <2>4 DEF PhonePlan
    <3> QED
      BY <1>3, <1>4, <2>1, <2>2, <3>1 DEF WritesOver, Rewritten, old, s
  <2> QED
    BY <2>3, <2>4
<1>10. CASE req[r].kind = "verify"
  <2>1. /\ req[r].answer \in {"ok", "invalid", "tooMany", "internal", "expired"}
        /\ writes[r] = Phone!VerifyWrites(old, req[r].answer)
        /\ req[r].answer \in {"ok", "invalid"} => ~Phone!AttemptsUsedUp(old)
    BY <1>1, <1>2, <1>4, <1>10 DEF PhonePlan
  <2>2. old.attempts \in Nat \/ old.attempts = None
    BY <1>5 DEF Signup, Opt
  <2>3. CASE req[r].answer = "ok"
    <3>1. set = Phone!Cleared
      BY <2>1, <2>3 DEF Phone!VerifyWrites
    <3>2. s.code = None /\ s.attempts = None
      BY <1>6, <3>1 DEF Phone!Cleared
    <3>3. Adds(u, {}, {}, {r}, {}, {}, {})
      BY <1>8, <1>10, <2>3 DEF Adds
    <3> QED
      BY <1>3, <1>4, <1>7, <1>8, <3>2, <3>3 DEF WritesOver, Verified, old, s
  <2>4. CASE req[r].answer = "invalid"
    <3>1. writes[r] = [Phone!NoChange EXCEPT !.set = [attempts |-> old.attempts + 1]]
      BY <2>1, <2>4 DEF Phone!VerifyWrites
    <3>2. set = [attempts |-> old.attempts + 1] /\ writes[r].del = {} /\ writes[r].add = {}
      BY <3>1 DEF Phone!NoChange
    <3>3. s.code = old.code /\ s.attempts = old.attempts + 1 /\ s.states = old.states
      BY <1>6, <3>2
    <3>4. old.attempts # None /\ old.attempts < AttemptsAllowed
      <4>1. AttemptsAllowed \in Nat
        BY PhoneAssumed DEF PV!PhoneVerificationAssumption
      <4> QED
        BY <2>1, <2>2, <2>4, <4>1 DEF Phone!AttemptsUsedUp, Phone!Attempts
    <3>5. Adds(u, {r}, {}, {}, {}, {}, {})
      BY <1>8, <1>10, <2>4 DEF Adds
    <3>6. Missed(u, s)
      BY <1>7, <1>8, <3>3, <3>4, <3>5 DEF Missed, Tries, Unverified, old
    <3> QED
      BY <1>3, <1>4, <3>6 DEF WritesOver, old, s
  <2>5. CASE req[r].answer \notin {"ok", "invalid"}
    <3>1. writes[r] = IF old.attempts = None
                      THEN [Phone!NoChange EXCEPT !.set = [attempts |-> AttemptsAllowed]]
                      ELSE Phone!NoChange
      BY <2>1, <2>5 DEF Phone!VerifyWrites
    <3>2. /\ set = IF old.attempts = None THEN [attempts |-> AttemptsAllowed] ELSE Phone!NoFields
          /\ writes[r].del = {} /\ writes[r].add = {}
      BY <3>1 DEF Phone!NoChange
    <3>3. /\ s.code = old.code /\ s.states = old.states
          /\ \/ s.attempts = old.attempts
             \/ old.attempts = None /\ s.attempts = AttemptsAllowed
      <4>1. CASE old.attempts = None
        <5>1. set = [attempts |-> AttemptsAllowed]
          BY <3>2, <4>1
        <5> QED
          BY <1>6, <3>2, <4>1, <5>1
      <4>2. CASE old.attempts # None
        <5>1. set = Phone!NoFields
          BY <3>2, <4>2
        <5>2. DOMAIN set = {}
          BY <5>1 DEF Phone!NoFields
        <5> QED
          BY <1>6, <3>2, <5>2
      <4> QED
        BY <4>1, <4>2
    <3>4. AddsNothing(u)
      BY <1>8, <2>5 DEF AddsNothing, Adds
    <3>5. Rewritten(u, s)
      BY <3>3, <3>4 DEF Rewritten, Unverified, old
    <3> QED
      BY <1>3, <1>4, <3>5 DEF WritesOver, old, s
  <2> QED
    BY <2>3, <2>4, <2>5
<1> QED
  BY <1>3, <1>9, <1>10

LEMMA PhoneMoves ==
  ASSUME Undisturbed, Orderly, PhoneStep
  PROVE  Moves
<1>1. PICK r \in Phone!Requests : PhoneOnly(r) /\ OnlyPhone(r) /\ PhoneEffect(r)
  BY PhoneMove DEF Orderly
<1>2. /\ req[r].pc # "done" /\ \A q \in Phone!Requests \ {r} : req'[q] = req[q]
      /\ UNCHANGED <<signups, act>>
  BY <1>1 DEF PhoneEffect, PhoneBegins, PhoneGoesOn, PhoneSends, PhoneWrote, PhoneOnly, socialVars,
              Phone!InFlight
<1>3. \A u : UNCHANGED <<ActivationsOf(u, "ok"), ActivationsOf(u, "invalid"), SignupsOf(u)>>
  BY <1>1, <1>2, PhoneTally
<1>4. ASSUME NEW u,
             ~(req'[r].kind = "verify" /\ req'[r].pc = "done" /\ req'[r].answer \in {"ok", "invalid"}
               /\ req'[r].user = u)
      PROVE  UNCHANGED <<VerifiesOf(u, "ok"), VerifiesOf(u, "invalid")>>
  <2>1. /\ VerifiesOf(u, "ok")' = VerifiesOf(u, "ok") \cup {}
        /\ VerifiesOf(u, "invalid")' = VerifiesOf(u, "invalid") \cup {}
    BY <1>1, <1>2, <1>4, PhoneTally
  <2> QED
    BY <2>1
<1>5. ASSUME NEW u, UNCHANGED <<VerifiesOf(u, "ok"), VerifiesOf(u, "invalid"), MessagesTo(u)>>
      PROVE  AddsNothing(u)
  BY <1>3, <1>5 DEF AddsNothing, Adds
<1>6. CASE PhoneBegins(r)
  <2>1. \A u : AddsNothing(u)
    BY <1>4, <1>5, <1>6, MessagesTally DEF PhoneBegins
  <2>2. \A u \in Users : Move(u)
    BY <1>6, <2>1 DEF PhoneBegins, Move, Stays
  <2>3. \A q \in Phone!Requests : Judged(q)
    BY <1>2, <1>6 DEF PhoneBegins, Judged, SameRequest
  <2>4. ~Sent(r)'
    BY <1>6 DEF PhoneBegins, Sent, Phone!InFlight
  <2>5. \A q \in Phone!Requests : Sending(q)
    BY <1>2, <2>1, <2>4 DEF Sending, Sent
  <2> QED
    BY <1>1, <1>2, <2>2, <2>3, <2>5 DEF Moves, Settled, OnlyPhone, Trying, Guessing, Social!Active
<1>7. CASE PhoneGoesOn(r)
  <2>1. \A u : AddsNothing(u)
    BY <1>4, <1>5, <1>7, MessagesTally DEF PhoneGoesOn, SameRequest
  <2>2. \A u \in Users : Move(u)
    BY <1>7, <2>1 DEF PhoneGoesOn, Move, Stays
  <2>3. \A q \in Phone!Requests : Judged(q)
    BY <1>2, <1>7 DEF PhoneGoesOn, Judged, SameRequest
  <2>4. \A q \in Phone!Requests : Sending(q)
    BY <1>2, <1>7, <2>1 DEF PhoneGoesOn, Sending, Sent, SameRequest
  <2> QED
    BY <1>1, <1>2, <2>2, <2>3, <2>4 DEF Moves, Settled, OnlyPhone, Trying, Guessing, Social!Active
<1>8. ASSUME PhoneSends(r), NEW v \in Users, req[r].user = v
      PROVE  Moves
  <2>1. PICK c \in Codes : /\ sms[c] = None /\ sms'[c] # None /\ sms'[c].user = v
                           /\ \A d \in Codes \ {c} : sms'[d] = sms[d]
    BY <1>8 DEF PhoneSends
  <2>2. /\ \A u \in Users \ {v} : MessagesTo(u)' = MessagesTo(u)
        /\ MessagesTo(v)' = MessagesTo(v) \cup {c} /\ c \notin MessagesTo(v)
    BY <2>1 DEF MessagesTo
  <2>3. \A u : UNCHANGED <<VerifiesOf(u, "ok"), VerifiesOf(u, "invalid")>>
    BY <1>4, <1>8 DEF PhoneSends
  <2>4. \A u \in Users \ {v} : AddsNothing(u)
    BY <1>5, <2>2, <2>3
  <2>5. Adds(v, {}, {}, {}, {}, {}, {c})
    BY <1>3, <2>2, <2>3 DEF Adds
  <2>6. UNCHANGED log
    BY <1>8 DEF PhoneSends
  <2>7. Messaged(v)
    BY <2>2, <2>5, <2>6 DEF Messaged
  <2>8. \A u \in Users : Move(u)
    BY <2>4, <2>6, <2>7 DEF Move, Stays
  <2>9. \A q \in Phone!Requests : Judged(q)
    BY <1>2, <1>8 DEF PhoneSends, Judged, SameRequest
  <2>10. \A q \in Phone!Requests : Sending(q)
    <3>1. ~Sent(r) /\ req'[r].user = v
      BY <1>8 DEF PhoneSends, Sent, SameRequest
    <3>2. \A q \in Phone!Requests \ {r} : ~Sent(q)'
      BY <1>1, <1>2 DEF OnlyPhone, Sent, Phone!InFlight
    <3> QED
      BY <1>8, <2>7, <3>1, <3>2 DEF Sending
  <2> QED
    BY <1>1, <1>2, <2>8, <2>9, <2>10 DEF Moves, Settled, OnlyPhone, Trying, Guessing, Social!Active
<1>9. ASSUME PhoneWrote(r), NEW v \in Users, req[r].user = v
      PROVE  Moves
  <2>1. Phone!Written(r) \in Signup /\ WritesOver(v, Phone!Written(r))
    BY <1>1, <1>9, PhoneWritesOver
  <2>2. /\ \A u \in Users \ {v} : log'[u] = log[u]
        /\ log'[v] = Append(log[v], Phone!Written(r))
    <3>1. StoreTypeOK
      BY StoreTyped DEF Orderly
    <3> QED
      BY <1>9, <3>1 DEF PhoneWrote, NewVersion, StoreTypeOK
  <2>3. \A u \in Users \ {v} : AddsNothing(u)
    BY <1>4, <1>5, <1>9, MessagesTally DEF PhoneWrote, SameRequest
  <2>4. \A u \in Users : Move(u)
    BY <2>1, <2>2, <2>3 DEF Move, Stays, Writes
  <2>5. \A q \in Phone!Requests : Judged(q)
    BY <1>2, <1>9 DEF PhoneWrote, Judged, SameRequest
  <2>6. \A q \in Phone!Requests : ~Sent(q)'
    BY <1>1, <1>2, <1>9 DEF PhoneWrote, Sent, OnlyPhone, Phone!InFlight
  <2> QED
    BY <1>1, <1>2, <2>4, <2>5, <2>6
       DEF Moves, Settled, OnlyPhone, Trying, Guessing, Social!Active, Sending
<1>10. PhoneSends(r) \/ PhoneWrote(r) => req[r].user \in Users
  BY PhoneFacts DEF PhoneSends, PhoneWrote, Orderly, Phone!InFlight
<1> QED
  BY <1>1, <1>6, <1>7, <1>8, <1>9, <1>10 DEF PhoneEffect

\* Nobody verifies a phone or enters a code meanwhile.
LEMMA NobodyElse ==
  ASSUME UNCHANGED phoneVars, \A q \in Phone!Requests : ~Phone!InFlight(q)
  PROVE  \A r \in Phone!Requests : Judged(r) /\ Sending(r) /\ req'[r] = req[r]
<1>1. \A r \in Phone!Requests : ~Sent(r)'
  BY DEF phoneVars, Sent, Phone!InFlight
<1> QED
  BY <1>1 DEF phoneVars, Judged, Sending, SameRequest

LEMMA SignupMoves ==
  ASSUME Undisturbed, Orderly, SignupStep
  PROVE  Moves
<1>1. PICK r \in Social!Requests : /\ SignupOnly(r) /\ UNCHANGED act /\ OnlySocial(r, 0)
                                   /\ SignupEffect(r)
  BY SignupMove DEF Orderly
<1>2. /\ signups[r].pc # "done" /\ \A q \in Social!Requests \ {r} : signups'[q] = signups[q]
      /\ UNCHANGED phoneVars /\ UNCHANGED <<req, sms>>
  BY <1>1 DEF SignupEffect, SignupBegins, SignupGoesOn, SignupWrote, SignupOnly, phoneVars,
              Social!InFlight
<1>3. signups[r].answer = None
  BY <1>2, SignupFacts DEF Orderly, Social!Idle
<1>4. \A u : UNCHANGED <<ActivationsOf(u, "ok"), ActivationsOf(u, "invalid"), VerifiesOf(u, "ok"),
                         VerifiesOf(u, "invalid"), MessagesTo(u)>>
  BY <1>1, <1>2 DEF ActivationsOf, VerifiesOf, MessagesTo
<1>5. Settled
  BY <1>1, <1>2 DEF Settled
<1>6. \A q \in Phone!Requests : Judged(q) /\ Sending(q)
  BY <1>1, <1>2, NobodyElse DEF OnlySocial
<1>7. \A a \in Social!Activations : Trying(a)
  BY <1>1 DEF OnlySocial, Trying, Guessing, Social!Active, Social!Activations
<1>8. ASSUME NEW u, ~(signups'[r].user = u /\ \/ signups'[r].answer = "accepted"
                                              \/ /\ signups'[r].answer = "rejected"
                                                 /\ signups'[r].verdict = "rejected")
      PROVE  AddsNothing(u)
  <2>1. SignupsOf(u)' = SignupsOf(u) \cup {}
    BY <1>2, <1>3, <1>8, SignupTally
  <2> QED
    BY <1>4, <2>1 DEF AddsNothing, Adds
<1>9. CASE SignupBegins(r) \/ SignupGoesOn(r)
  <2>1. \A u : AddsNothing(u)
    BY <1>8, <1>9 DEF SignupBegins, SignupGoesOn
  <2>2. \A u \in Users : Move(u)
    BY <1>9, <2>1 DEF SignupBegins, SignupGoesOn, Move, Stays
  <2> QED
    BY <1>5, <1>6, <1>7, <2>2 DEF Moves
<1>10. ASSUME SignupWrote(r), NEW v \in Users, signups[r].user = v
       PROVE  Moves
  <2>1. \A u \in Users \ {v} : AddsNothing(u)
    BY <1>8, <1>10 DEF SignupWrote, SameSignup
  <2>2. draft[r] \in Signup /\ NewlyMade(draft[r], signups'[r].event)
    BY <1>10, SignupFacts DEF SignupWrote, SameSignup, Orderly, Plans, SignupPlan
  <2>3. SignupsOf(v)' = SignupsOf(v) \cup {r} /\ r \notin SignupsOf(v)
    BY <1>2, <1>3, <1>10, SignupTally DEF SignupWrote, SameSignup
  <2>4. Adds(v, {}, {}, {}, {}, {r}, {})
    BY <1>4, <2>3 DEF Adds
  <2>5. signups'[r].base = Len(log[v])
    BY <1>10 DEF SignupWrote, SameSignup
  <2>6. /\ \A u \in Users \ {v} : log'[u] = log[u]
        /\ log'[v] = Append(log[v], draft[r])
    <3>1. StoreTypeOK
      BY StoreTyped DEF Orderly
    <3> QED
      BY <1>10, <3>1 DEF SignupWrote, NewVersion, StoreTypeOK
  <2>7. Enrolled(v, draft[r])
    BY <2>2, <2>3, <2>4, <2>5 DEF Enrolled
  <2>8. \A u \in Users : Move(u)
    BY <2>1, <2>2, <2>6, <2>7 DEF Move, Stays, Writes
  <2> QED
    BY <1>5, <1>6, <1>7, <2>8 DEF Moves
<1>11. SignupWrote(r) => signups[r].user \in Users
  BY SignupFacts DEF SignupWrote, Orderly
<1> QED
  BY <1>1, <1>9, <1>10, <1>11 DEF SignupEffect

\* What an activation writes over the UserSignup that it read.
LEMMA ActivationWritesOver ==
  ASSUME Orderly, NEW a \in Social!Activations, ActivationOnly(a), ActivationWrote(a),
         NEW u \in Users, act[a].user = u
  PROVE  /\ Social!ActivationWritten(a) \in Signup
         /\ WritesOver(u, Social!ActivationWritten(a))
<1> DEFINE old == Latest(u)
           s == Social!ActivationWritten(a)
           x == Social!WithEvent(old, act[a].code)
<1>1. act[a].pc = "put" /\ act[a].copy = Len(log[u]) /\ old # Absent
  BY DEF ActivationWrote, IsCurrent
<1>2. ActivationPlan(a) /\ Types
  BY DEF Orderly, Plans
<1>3. s \in Signup /\ old \in Signup /\ log[u][act[a].copy] = old
  BY <1>1, <1>2, ActivationWrittenTyped, ActivationFacts DEF Latest
<1>4. /\ act[a].base = Len(log[u]) /\ ~Social!AttemptsUsedUp(old)
      /\ IF act[a].approve
         THEN act[a].error = None
         ELSE act[a].error = "invalid" /\ act[a].attempts = Social!Attempts(old) + 1
  BY <1>1, <1>2, <1>3 DEF ActivationPlan
<1>5. /\ act'[a].base = Len(log[u]) /\ act'[a].user = u /\ act'[a].code = act[a].code
      /\ act'[a].answer = IF act[a].error = None THEN "ok" ELSE "invalid"
      /\ UNCHANGED signups /\ act[a].answer = None
  BY <1>1, <1>2, <1>4, ActivationFacts DEF ActivationWrote, SameActivation
<1>6. /\ a \notin ActivationsOf(u, "ok") /\ a \notin ActivationsOf(u, "invalid")
      /\ UNCHANGED <<VerifiesOf(u, "ok"), VerifiesOf(u, "invalid"), SignupsOf(u), MessagesTo(u)>>
      /\ ActivationsOf(u, "ok")' = ActivationsOf(u, "ok")
           \cup (IF act[a].error = None THEN {a} ELSE {})
      /\ ActivationsOf(u, "invalid")' = ActivationsOf(u, "invalid")
           \cup (IF act[a].error = None THEN {} ELSE {a})
  BY <1>5, ActivationTally, ActivationNotNone DEF SignupsOf
<1>7. Tries(old) = Social!Attempts(old) /\ Tries(old) < AttemptsAllowed
  <2>1. AttemptsAllowed \in Nat /\ Tries(old) \in Nat
    BY <1>3, PhoneAssumed DEF PV!PhoneVerificationAssumption, Tries, Signup, Opt
  <2> QED
    BY <1>4, <2>1 DEF Social!AttemptsUsedUp, Social!Attempts, Tries
<1>8. ASSUME act[a].approve
      PROVE  Activated(u, s)
  <2>1. s = [x EXCEPT !.attempts = None]
    BY <1>3, <1>8 DEF Social!ActivationWritten
  <2>2. x = [old EXCEPT !.states = x.states, !.event = act[a].code]
    <3> DEFINE T == ((old.states \cup (IF act[a].code \in VerifyingEvents THEN {} ELSE {"approved"}))
                       \ (IF act[a].code \in VerifyingEvents
                          THEN {} ELSE {"verification-required", "deactivated"})) \ {"deactivated"}
    <3>1. x = [old EXCEPT !.states = T, !.event = act[a].code]
      BY DEF Social!WithEvent, Social!SetApprovedManually
    <3> HIDE DEF T, x
    <3>2. x.states = T
      BY <1>3, <3>1 DEF Signup
    <3> QED
      BY <3>1, <3>2
  <2>3. act[a].code \in VerifyingEvents => x.states = old.states \ {"deactivated"}
    BY <1>3 DEF Social!WithEvent, Signup
  <2>4. s.code = old.code /\ s.attempts = None /\ s.states = x.states
    <3> HIDE DEF s, x
    <3> QED
      BY <1>3, <2>1, <2>2 DEF Signup
  <2>5. act[a].error = None
    BY <1>4, <1>8
  <2>6. Adds(u, {}, {}, {}, {a}, {}, {})
    BY <1>6, <2>5 DEF Adds
  <2> HIDE DEF s, x
  <2> QED
    BY <1>5, <1>6, <2>3, <2>4, <2>6 DEF Activated, Unverified, old
<1>9. ASSUME ~act[a].approve
      PROVE  Missed(u, s)
  <2>1. s = [old EXCEPT !.attempts = act[a].attempts]
    BY <1>3, <1>9 DEF Social!ActivationWritten
  <2>2. s.code = old.code /\ s.attempts = Tries(old) + 1 /\ s.states = old.states
    <3> HIDE DEF s, old
    <3> QED
      BY <1>3, <1>4, <1>7, <1>9, <2>1 DEF Signup
  <2>3. act[a].error # None
    BY <1>4, <1>9, ActivationNotNone
  <2>4. Adds(u, {}, {a}, {}, {}, {}, {})
    BY <1>6, <2>3 DEF Adds
  <2> HIDE DEF s
  <2> QED
    BY <1>5, <1>6, <1>7, <2>2, <2>4 DEF Missed, Unverified, old
<1> QED
  BY <1>1, <1>3, <1>8, <1>9 DEF WritesOver

LEMMA ActivationMoves ==
  ASSUME Undisturbed, Orderly, ActivationStep
  PROVE  Moves
<1>1. PICK a \in Social!Activations :
        /\ ActivationOnly(a) /\ ActivationEffect(a) /\ ActivationPlan(a)'
        /\ \/ UNCHANGED signups /\ OnlySocial(0, a)
           \/ /\ ActivationHandsOver(a)
              /\ \E r \in Social!Requests :
                   /\ \A q \in Social!Requests \ {r} : signups'[q] = signups[q]
                   /\ SignupBegins(r) /\ SignupPlan(r)' /\ OnlySocial(r, a)
  BY ActivationMove DEF Orderly
<1>2. /\ act[a].pc # "done" /\ act[a].answer = None /\ UNCHANGED phoneVars
      /\ \A b \in Social!Activations \ {a} : act'[b] = act[b]
      /\ \A q \in Phone!Requests : ~Phone!InFlight(q)
      /\ \A b \in Social!Activations \ {a} : ~Social!Active(b)
  BY <1>1, ActivationFacts
     DEF ActivationEffect, ActivationBegins, ActivationGoesOn, ActivationGaveUp, ActivationWrote,
         ActivationHandsOver, ActivationOnly, Social!Active, Guessing, OnlySocial, Orderly
<1>3. /\ \A u : UNCHANGED <<VerifiesOf(u, "ok"), VerifiesOf(u, "invalid"), MessagesTo(u)>>
      /\ \A r \in Phone!Requests : Judged(r) /\ Sending(r) /\ req'[r] = req[r]
  BY <1>2, NobodyElse DEF phoneVars, VerifiesOf, MessagesTo
<1>4. /\ \A u : UNCHANGED SignupsOf(u)
      /\ \A q \in Social!Requests : signups[q].pc = "done" => signups'[q] = signups[q]
  <2>1. CASE UNCHANGED signups
    BY <2>1 DEF SignupsOf
  <2>2. ASSUME NEW r \in Social!Requests, SignupBegins(r),
               \A q \in Social!Requests \ {r} : signups'[q] = signups[q]
        PROVE  /\ \A u : UNCHANGED SignupsOf(u)
               /\ \A q \in Social!Requests : signups[q].pc = "done" => signups'[q] = signups[q]
    <3>1. signups[r].pc = "idle" /\ signups[r].answer = None
      BY <2>2, SignupFacts DEF SignupBegins, Orderly, Social!Idle
    <3>2. \A u : SignupsOf(u)' = SignupsOf(u) \cup {}
      BY <2>2, <3>1, SignupTally DEF SignupBegins
    <3> QED
      BY <2>2, <3>1, <3>2
  <2> QED
    BY <1>1, <2>1, <2>2
<1>5. Settled /\ \A b \in Social!Activations \ {a} : Trying(b)
  BY <1>2, <1>3, <1>4 DEF Settled, Trying, Guessing, Social!Active
<1>6. ASSUME NEW u, ~(act'[a].user = u /\ act'[a].answer \in {"ok", "invalid"})
      PROVE  AddsNothing(u)
  <2>1. /\ ActivationsOf(u, "ok")' = ActivationsOf(u, "ok") \cup {}
        /\ ActivationsOf(u, "invalid")' = ActivationsOf(u, "invalid") \cup {}
    <3>1. /\ ActivationsOf(u, "ok")' = ActivationsOf(u, "ok")
               \cup (IF act'[a].user = u /\ act'[a].answer = "ok" THEN {a} ELSE {})
          /\ ActivationsOf(u, "invalid")' = ActivationsOf(u, "invalid")
               \cup (IF act'[a].user = u /\ act'[a].answer = "invalid" THEN {a} ELSE {})
      BY <1>1, <1>2, ActivationTally, ActivationNotNone
    <3> QED
      BY <1>6, <3>1
  <2> QED
    BY <1>3, <1>4, <2>1 DEF AddsNothing, Adds
<1>7. SUFFICES Trying(a) /\ \A u \in Users : Move(u)
  BY <1>3, <1>5 DEF Moves
<1>8. CASE ActivationBegins(a)
  <2>1. \A u : AddsNothing(u)
    BY <1>6, <1>8, ActivationNotNone DEF ActivationBegins
  <2>2. \A u \in Users : Move(u)
    BY <1>8, <2>1 DEF ActivationBegins, Move, Stays
  <2>3. Trying(a)
    <3> SUFFICES ASSUME NEW u \in Users, Guessing(a)', act'[a].user = u
                 PROVE  AddsNothing(u) /\ log'[u] = log[u] /\ Latest(u) # Absent
                          /\ ~Social!AttemptsUsedUp(Latest(u))
      BY DEF Trying
    <3>1. UNCHANGED log /\ act'[a].base = Len(log[u])
      BY <1>8 DEF ActivationBegins, Guessing
    <3>2. log'[u][act'[a].base] # Absent /\ ~Social!AttemptsUsedUp(log'[u][act'[a].base])
      BY <1>1 DEF ActivationPlan, Guessing, Social!AttemptsUsedUp, Social!Attempts
    <3> QED
      BY <2>1, <3>1, <3>2 DEF Latest
  <2> QED
    BY <2>2, <2>3
<1>9. CASE ActivationGoesOn(a) \/ ActivationHandsOver(a)
  <2>1. \A u : AddsNothing(u)
    BY <1>6, <1>9 DEF ActivationGoesOn, ActivationHandsOver
  <2> QED
    BY <1>9, <2>1 DEF ActivationGoesOn, ActivationHandsOver, Move, Stays, Trying, Guessing,
                      SameActivation
<1>10. ASSUME ActivationGaveUp(a), NEW v \in Users, act[a].user = v
       PROVE  Trying(a) /\ \A u \in Users : Move(u)
  <2>1. \A u \in Users \ {v} : AddsNothing(u)
    BY <1>6, <1>10 DEF ActivationGaveUp, SameActivation
  <2>2. /\ a \notin ActivationsOf(v, "invalid")
        /\ ActivationsOf(v, "invalid")' = ActivationsOf(v, "invalid") \cup {a}
        /\ ActivationsOf(v, "ok")' = ActivationsOf(v, "ok") \cup {}
    <3>1. act'[a].user = v /\ act'[a].answer = "invalid"
      BY <1>10 DEF ActivationGaveUp, SameActivation
    <3>2. /\ ActivationsOf(v, "ok")' = ActivationsOf(v, "ok")
               \cup (IF act'[a].user = v /\ act'[a].answer = "ok" THEN {a} ELSE {})
          /\ ActivationsOf(v, "invalid")' = ActivationsOf(v, "invalid")
               \cup (IF act'[a].user = v /\ act'[a].answer = "invalid" THEN {a} ELSE {})
          /\ a \notin ActivationsOf(v, "invalid")
      BY <1>1, <1>2, ActivationTally, ActivationNotNone
    <3> QED
      BY <3>1, <3>2
  <2>3. Adds(v, {}, {a}, {}, {}, {}, {})
    BY <1>3, <1>4, <2>2 DEF Adds
  <2>4. GaveUp(v)
    BY <1>10, <2>2, <2>3 DEF GaveUp, ActivationGaveUp
  <2> QED
    BY <1>10, <2>1, <2>4 DEF ActivationGaveUp, Move, Stays, Trying, Guessing
<1>11. ASSUME ActivationWrote(a), NEW v \in Users, act[a].user = v
       PROVE  Trying(a) /\ \A u \in Users : Move(u)
  <2>1. \A u \in Users \ {v} : AddsNothing(u)
    BY <1>6, <1>11 DEF ActivationWrote, SameActivation
  <2>2. Social!ActivationWritten(a) \in Signup /\ WritesOver(v, Social!ActivationWritten(a))
    BY <1>1, <1>11, ActivationWritesOver
  <2>3. /\ \A u \in Users \ {v} : log'[u] = log[u]
        /\ log'[v] = Append(log[v], Social!ActivationWritten(a))
    <3>1. StoreTypeOK
      BY StoreTyped DEF Orderly
    <3> QED
      BY <1>11, <3>1 DEF ActivationWrote, NewVersion, StoreTypeOK
  <2> QED
    BY <1>11, <2>1, <2>2, <2>3 DEF ActivationWrote, Move, Stays, Writes, Trying, Guessing
<1>12. Guessing(a) => act[a].user \in Users
  BY ActivationFacts DEF Guessing, Orderly
<1> QED
  BY <1>1, <1>8, <1>9, <1>10, <1>11, <1>12
     DEF ActivationEffect, ActivationGaveUp, ActivationWrote, Guessing

LEMMA MovesNext ==
  ASSUME Undisturbed, Orderly, [Next]_vars
  PROVE  Moves
<1>1. Finished => UNCHANGED vars
  BY DEF Finished
<1> QED
  BY <1>1, PhoneMoves, SignupMoves, ActivationMoves, StoreMoves DEF Next

-----------------------------------------------------------------------------
(* Nobody is active who was not verified.                                  *)

\* The versions with which u has signed up.
VersionsOf(u) == {signups[r].base + 1 : r \in SignupsOf(u)}

LastOf(V) == IF V = {} THEN 1 ELSE CHOOSE i \in V : \A j \in V : j <= i

HasLast(V) == V = {} \/ \E i \in V : \A j \in V : j <= i

SinceSignup(u) ==
  /\ VersionsOf(u) \subseteq 1 .. Len(log[u]) /\ HasLast(VersionsOf(u))
  /\ Everybody /\ Latest(u) # Absent /\ ~Unverified(Latest(u)) => Earned(u)

LEMMA SignedUpIsLast ==
  ASSUME NEW u
  PROVE  SignedUp(u) = LastOf(VersionsOf(u)) /\ SignedUp(u)' = LastOf(VersionsOf(u)')
BY DEF SignedUp, LastOf, VersionsOf

LEMMA LastOfBounds ==
  ASSUME NEW n \in Nat \ {0}, NEW V, V \subseteq 1 .. n, HasLast(V)
  PROVE  LastOf(V) \in 1 .. n
<1>1. CASE V = {}
  BY <1>1 DEF LastOf
<1>2. CASE V # {}
  <2>1. PICK i \in V : \A j \in V : j <= i
    BY <1>2 DEF HasLast
  <2>2. LastOf(V) \in V
    BY <1>2, <2>1 DEF LastOf
  <2> QED
    BY <2>2
<1> QED
  BY <1>1, <1>2

LEMMA LastOfNext ==
  ASSUME NEW n \in Nat, NEW V, V \subseteq 1 .. n
  PROVE  LastOf(V \cup {n + 1}) = n + 1 /\ HasLast(V \cup {n + 1})
<1> DEFINE W == V \cup {n + 1}
<1>1. n + 1 \in W /\ \A j \in W : j <= n + 1
  OBVIOUS
<1>2. \A i \in W : (\A j \in W : j <= i) => i = n + 1
  <2> SUFFICES ASSUME NEW i \in W, \A j \in W : j <= i
               PROVE  i = n + 1
    OBVIOUS
  <2>1. n + 1 <= i
    BY <1>1
  <2>2. i \in 1 .. n \/ i = n + 1
    OBVIOUS
  <2> QED
    BY <2>1, <2>2
<1> HIDE DEF W
<1>3. LastOf(W) = CHOOSE i \in W : \A j \in W : j <= i
  BY <1>1 DEF LastOf
<1> QED
  BY <1>1, <1>2, <1>3 DEF HasLast, W

\* What is on record stays as it is.
LEMMA OnRecord ==
  ASSUME Orderly, Settled, NEW u \in Users
  PROVE  /\ \A x : \A r \in VerifiesOf(u, x) : r \in Phone!Requests /\ req'[r] = req[r]
         /\ \A x \in {"ok", "invalid"} : \A a \in ActivationsOf(u, x) :
              a \in Social!Activations /\ act'[a] = act[a]
         /\ \A r \in SignupsOf(u) : r \in Social!Requests /\ signups'[r] = signups[r]
<1>1. Types
  BY DEF Orderly
<1>2. \A a \in Social!Activations : act[a].pc # "done" => act[a].answer = None
  BY <1>1, ActivationFacts
<1>3. \A r \in Social!Requests : signups[r].pc # "done" => signups[r].answer = None
  BY <1>1, SignupFacts DEF Social!Idle
<1> QED
  BY <1>2, <1>3, NotNone, ActivationNotNone DEF Settled, VerifiesOf, ActivationsOf, SignupsOf

LEMMA SameVersionsOf ==
  ASSUME Orderly, Settled, NEW u \in Users, SignupsOf(u)' = SignupsOf(u)
  PROVE  VersionsOf(u)' = VersionsOf(u) /\ SignedUp(u)' = SignedUp(u)
<1>1. \A r \in SignupsOf(u) : signups'[r] = signups[r]
  BY OnRecord
<1>2. VersionsOf(u)' = VersionsOf(u)
  BY <1>1 DEF VersionsOf
<1> QED
  BY <1>2, SignedUpIsLast

\* Who has earned it keeps it, as long as there is no new sign-up.
LEMMA EarnedStays ==
  ASSUME Orderly, Settled, NEW u \in Users, SignupsOf(u)' = SignupsOf(u), Earned(u),
         VerifiesOf(u, "ok") \subseteq VerifiesOf(u, "ok")',
         ActivationsOf(u, "ok") \subseteq ActivationsOf(u, "ok")', log'[u][1] = log[u][1]
  PROVE  Earned(u)'
<1>1. SignedUp(u)' = SignedUp(u)
  BY SameVersionsOf
<1>2. /\ \A r \in VerifiesOf(u, "ok") : req'[r] = req[r]
      /\ \A a \in ActivationsOf(u, "ok") : act'[a] = act[a]
      /\ \A r \in SignupsOf(u) : signups'[r] = signups[r]
  BY OnRecord
<1>3. CASE \E r \in VerifiesOf(u, "ok") : req[r].base >= SignedUp(u)
  BY <1>1, <1>2, <1>3 DEF Earned
<1>4. CASE \E a \in ActivationsOf(u, "ok") :
             act[a].base >= SignedUp(u) /\ act[a].code \notin VerifyingEvents
  BY <1>1, <1>2, <1>4 DEF Earned
<1>5. CASE \E r \in SignupsOf(u) :
             signups[r].base + 1 = SignedUp(u) /\ signups[r].event \in Events \ VerifyingEvents
  BY <1>1, <1>2, <1>5 DEF Earned
<1>6. CASE SignupsOf(u) = {} /\ log[u][1] # Absent
  BY <1>6 DEF Earned
<1> QED
  BY <1>3, <1>4, <1>5, <1>6 DEF Earned

LEMMA SinceSignupNext ==
  ASSUME Orderly, LogGrows, Moves, NEW u \in Users, SinceSignup(u)
  PROVE  SinceSignup(u)'
<1> DEFINE n == Len(log[u])
<1>1. Settled /\ Move(u)
  BY DEF Moves
<1>2. n \in Nat \ {0} /\ log[u] \in Seq(Signup \cup {Absent}) /\ log'[u][1] = log[u][1]
  <2>1. StoreTypeOK
    BY StoreTyped DEF Orderly
  <2>2. n \in Nat \ {0} /\ log[u] \in Seq(Signup \cup {Absent})
    BY <2>1 DEF StoreTypeOK
  <2>3. 1 \in 1 .. n
    BY <2>2
  <2> QED
    BY <2>2, <2>3 DEF LogGrows
<1>3. \A s : log'[u] = Append(log[u], s) => Len(log'[u]) = n + 1 /\ (s \in Signup \cup {Absent} => Latest(u)' = s)
  BY <1>2 DEF Latest
<1>4. SignedUp(u) \in 1 .. n
  BY <1>2, SignedUpIsLast, LastOfBounds DEF SinceSignup
\* Where nobody signs up, the earnings are to be seen to.
<1>5. ASSUME SignupsOf(u)' = SignupsOf(u),
             Everybody /\ Latest(u)' # Absent /\ ~Unverified(Latest(u))' => Earned(u)',
             log'[u] = log[u] \/ \E s : log'[u] = Append(log[u], s)
      PROVE  SinceSignup(u)'
  <2>1. VersionsOf(u)' = VersionsOf(u)
    BY <1>1, <1>5, SameVersionsOf
  <2>2. 1 .. n \subseteq 1 .. Len(log'[u])
    BY <1>2, <1>3, <1>5
  <2> QED
    BY <1>5, <2>1, <2>2 DEF SinceSignup, HasLast
<1>6. CASE Stays(u) \/ Messaged(u) \/ GaveUp(u)
  <2>1. /\ log'[u] = log[u] /\ SignupsOf(u)' = SignupsOf(u)
        /\ VerifiesOf(u, "ok")' = VerifiesOf(u, "ok") /\ ActivationsOf(u, "ok")' = ActivationsOf(u, "ok")
    BY <1>6 DEF Stays, Messaged, GaveUp, AddsNothing, Adds
  <2>2. Earned(u) => Earned(u)'
    BY <1>1, <2>1, EarnedStays
  <2>3. Latest(u)' = Latest(u)
    BY <2>1 DEF Latest
  <2> QED
    BY <1>5, <2>1, <2>2, <2>3 DEF SinceSignup, Unverified
<1>7. CASE Deleted(u)
  <2>1. log'[u] = Append(log[u], Absent) /\ SignupsOf(u)' = SignupsOf(u)
    BY <1>7 DEF Deleted, AddsNothing, Adds
  <2> QED
    BY <1>3, <1>5, <2>1
<1>8. ASSUME NEW s \in Signup, log'[u] = Append(log[u], s), WritesOver(u, s)
      PROVE  SinceSignup(u)'
  <2>1. Latest(u)' = s /\ Latest(u) # Absent
    BY <1>3, <1>8 DEF WritesOver
  <2>2. /\ SignupsOf(u)' = SignupsOf(u) /\ VerifiesOf(u, "ok") \subseteq VerifiesOf(u, "ok")'
        /\ ActivationsOf(u, "ok") \subseteq ActivationsOf(u, "ok")'
    BY <1>8 DEF WritesOver, Rewritten, Stored, Missed, Verified, Activated, AddsNothing, Adds
  <2>3. Earned(u) => Earned(u)'
    BY <1>1, <1>2, <2>2, EarnedStays
  <2>4. SignedUp(u)' = SignedUp(u)
    BY <1>1, <2>2, SameVersionsOf
  <2>5. ASSUME Everybody, ~Unverified(s)
        PROVE  Earned(u)'
    <3>1. CASE Unverified(Latest(u)) => Unverified(s)
      BY <2>1, <2>3, <2>5, <3>1 DEF SinceSignup
    <3>2. CASE Verified(u, s)
      <4>1. PICK r \in Phone!Requests : r \in VerifiesOf(u, "ok")' /\ req'[r].base = n
        BY <3>2 DEF Verified, Adds
      <4>2. req'[r].base >= SignedUp(u)'
        BY <1>2, <1>4, <2>4, <4>1
      <4> QED
        BY <4>1, <4>2 DEF Earned
    <3>3. ASSUME Activated(u, s), ~(Unverified(Latest(u)) => Unverified(s))
          PROVE  Earned(u)'
      <4>1. PICK a \in Social!Activations :
              a \in ActivationsOf(u, "ok")' /\ act'[a].base = n /\ act'[a].code \notin VerifyingEvents
        BY <3>3 DEF Activated, Adds
      <4>2. act'[a].base >= SignedUp(u)'
        BY <1>2, <1>4, <2>4, <4>1
      <4> QED
        BY <4>1, <4>2 DEF Earned
    <3> QED
      BY <1>8, <3>1, <3>2, <3>3 DEF WritesOver, Rewritten, Stored, Missed
  <2>6. Everybody /\ ~Unverified(s) => Earned(u)'
    BY <2>5
  <2>7. Unverified(Latest(u))' <=> Unverified(s)
    BY <2>1 DEF Unverified
  <2> QED
    BY <1>5, <1>8, <2>2, <2>6, <2>7
<1>9. ASSUME NEW s \in Signup, log'[u] = Append(log[u], s), Enrolled(u, s)
      PROVE  SinceSignup(u)'
  <2>1. PICK r \in Social!Requests \ SignupsOf(u) :
          /\ NewlyMade(s, signups'[r].event) /\ signups'[r].base = n
          /\ SignupsOf(u)' = SignupsOf(u) \cup {r}
    BY <1>9 DEF Enrolled, Adds
  <2>2. \A q \in SignupsOf(u) : signups'[q] = signups[q]
    BY <1>1, OnRecord
  <2>3. VersionsOf(u)' = VersionsOf(u) \cup {n + 1}
    <3>1. VersionsOf(u)' = {signups'[q].base + 1 : q \in SignupsOf(u) \cup {r}}
      BY <2>1 DEF VersionsOf
    <3> QED
      BY <2>1, <2>2, <3>1 DEF VersionsOf
  <2>4. VersionsOf(u) \subseteq 1 .. n
    BY DEF SinceSignup
  <2>5. SignedUp(u)' = n + 1 /\ HasLast(VersionsOf(u)') /\ VersionsOf(u)' \subseteq 1 .. n + 1
    <3> DEFINE V == VersionsOf(u)
    <3> HIDE DEF n, V
    <3>1. n \in Nat /\ V \subseteq 1 .. n
      BY <1>2, <2>4 DEF V
    <3>2. LastOf(V \cup {n + 1}) = n + 1 /\ HasLast(V \cup {n + 1})
      BY <3>1, LastOfNext
    <3>3. V \cup {n + 1} \subseteq 1 .. n + 1
      BY <3>1
    <3> QED
      BY <2>3, <3>2, <3>3, SignedUpIsLast DEF V
  <2>6. Latest(u)' = s /\ Len(log'[u]) = n + 1
    BY <1>3, <1>9
  <2>7. ASSUME Everybody, ~Unverified(s)
        PROVE  Earned(u)'
    <3>1. signups'[r].event \in Events \ VerifyingEvents
      BY <2>1, <2>7 DEF NewlyMade, Unverified, NoPhoneEvents
    <3>2. r \in SignupsOf(u)' /\ signups'[r].base + 1 = SignedUp(u)'
      BY <2>1, <2>5
    <3> QED
      BY <3>1, <3>2 DEF Earned
  <2>8. Everybody /\ ~Unverified(s) => Earned(u)'
    BY <2>7
  <2> QED
    BY <2>5, <2>6, <2>8 DEF SinceSignup, HasLast, Unverified
<1> QED
  BY <1>1, <1>6, <1>7, <1>8, <1>9 DEF Move, Writes

LEMMA SinceSignupInit ==
  ASSUME Init, NEW u \in Users
  PROVE  SinceSignup(u)
<1>1. SignupsOf(u) = {}
  BY NotNone DEF Init, SignupsOf, Social!Idle
<1>2. VersionsOf(u) = {}
  BY <1>1 DEF VersionsOf
<1>3. Latest(u) = log[u][1]
  BY DEF Init, Latest
<1> QED
  BY <1>1, <1>2, <1>3 DEF SinceSignup, HasLast, Earned

\* Whoever is active has been verified since the last sign-up, by phone or by the code of an
\* event that asks for no phone, when requests are handled one at a time on caches that do not
\* lag (signup_service.go:413-424, verification_service.go:397, 502).
THEOREM ActiveAreVerified ==
  ASSUME Undisturbed
  PROVE  Spec => []VerifiedSinceSignup
<1> DEFINE I == Orderly /\ \A u \in Users : SinceSignup(u)
<1>1. Init => I
  BY OrderlyInit, SinceSignupInit
<1>2. I /\ [Next]_vars => I'
  <2> SUFFICES ASSUME I, [Next]_vars
               PROVE  I'
    OBVIOUS
  <2>1. Orderly' /\ LogGrows /\ Moves
    BY OrderlyNext, TypesNext, MovesNext DEF Orderly
  <2> QED
    BY <2>1, SinceSignupNext
<1>3. I => VerifiedSinceSignup
  BY DEF SinceSignup, VerifiedSinceSignup, Everybody, Unverified
<1> QED
  BY <1>1, <1>2, <1>3, PTL DEF Spec

-----------------------------------------------------------------------------
(* Guesses are bounded.                                                    *)

\* The wrong codes of either kind that u has entered.
Wrong(u) == Cardinality(VerifiesOf(u, "invalid")) + Cardinality(ActivationsOf(u, "invalid"))

\* How often u was given new attempts.
Renewals(u) ==
  Cardinality(MessagesTo(u)) + Cardinality(VerifiesOf(u, "ok"))
    + Cardinality(ActivationsOf(u, "ok")) + Cardinality(SignupsOf(u))

\* The wrong codes that u may enter for what it was given so far, the first attempts left out.
Granted(u) == AttemptsAllowed * Renewals(u)

Counting(u) ==
  /\ IsFiniteSet(MessagesTo(u))
  /\ Wrong(u) <= Granted(u) + AttemptsAllowed
  /\ Latest(u) # Absent => /\ Tries(Latest(u)) <= AttemptsAllowed
                           /\ Wrong(u) <= Granted(u) + Tries(Latest(u))
  /\ \A r \in Phone!Requests : Sent(r) /\ req[r].user = u => Wrong(u) <= Granted(u)
  /\ \A a \in Social!Activations :
       Guessing(a) /\ act[a].user = u => Wrong(u) + 1 <= Granted(u) + AttemptsAllowed

Counts(u, wrong, renewed) ==
  /\ Wrong(u)' = Wrong(u) + wrong /\ Renewals(u)' = Renewals(u) + renewed
  /\ IsFiniteSet(MessagesTo(u)')

LEMMA TalliesFinite ==
  ASSUME NEW u
  PROVE  /\ \A x : /\ IsFiniteSet(VerifiesOf(u, x)) /\ IsFiniteSet(ActivationsOf(u, x))
                   /\ IsFiniteSet(VerifiesOf(u, x)') /\ IsFiniteSet(ActivationsOf(u, x)')
         /\ IsFiniteSet(SignupsOf(u)) /\ IsFiniteSet(SignupsOf(u)')
<1>1. \A x : /\ VerifiesOf(u, x) \subseteq Phone!Requests
             /\ VerifiesOf(u, x)' \subseteq Phone!Requests
             /\ ActivationsOf(u, x) \subseteq Social!Activations
             /\ ActivationsOf(u, x)' \subseteq Social!Activations
  BY DEF VerifiesOf, ActivationsOf
<1>2. SignupsOf(u) \subseteq Social!Requests /\ SignupsOf(u)' \subseteq Social!Requests
  BY DEF SignupsOf
<1> QED
  BY <1>1, <1>2, RequestsFinite, FS_Subset

LEMMA WrongAreNumbers ==
  ASSUME NEW u, IsFiniteSet(MessagesTo(u))
  PROVE  Wrong(u) \in Nat /\ Renewals(u) \in Nat
<1>1. /\ \A x : Cardinality(VerifiesOf(u, x)) \in Nat /\ Cardinality(ActivationsOf(u, x)) \in Nat
      /\ Cardinality(SignupsOf(u)) \in Nat
  BY TalliesFinite, FS_CardinalityType
<1>2. Cardinality(MessagesTo(u)) \in Nat
  BY FS_CardinalityType
<1> QED
  BY <1>1, <1>2 DEF Wrong, Renewals

LEMMA OneMore ==
  ASSUME NEW S, NEW x, IsFiniteSet(S), x \notin S
  PROVE  Cardinality(S \cup {x}) = Cardinality(S) + 1 /\ IsFiniteSet(S \cup {x})
BY FS_AddElement

LEMMA Counted ==
  ASSUME NEW u, IsFiniteSet(MessagesTo(u))
  PROVE  /\ AddsNothing(u) => Counts(u, 0, 0)
         /\ \A x : x \notin VerifiesOf(u, "invalid") /\ Adds(u, {x}, {}, {}, {}, {}, {})
                     => Counts(u, 1, 0)
         /\ \A x : x \notin ActivationsOf(u, "invalid") /\ Adds(u, {}, {x}, {}, {}, {}, {})
                     => Counts(u, 1, 0)
         /\ \A x : x \notin VerifiesOf(u, "ok") /\ Adds(u, {}, {}, {x}, {}, {}, {})
                     => Counts(u, 0, 1)
         /\ \A x : x \notin ActivationsOf(u, "ok") /\ Adds(u, {}, {}, {}, {x}, {}, {})
                     => Counts(u, 0, 1)
         /\ \A x : x \notin SignupsOf(u) /\ Adds(u, {}, {}, {}, {}, {x}, {}) => Counts(u, 0, 1)
         /\ \A x : x \notin MessagesTo(u) /\ Adds(u, {}, {}, {}, {}, {}, {x}) => Counts(u, 0, 1)
<1> DEFINE vi == VerifiesOf(u, "invalid")
           ai == ActivationsOf(u, "invalid")
           vo == VerifiesOf(u, "ok")
           ao == ActivationsOf(u, "ok")
           so == SignupsOf(u)
           me == MessagesTo(u)
<1>1. /\ IsFiniteSet(vi) /\ IsFiniteSet(ai) /\ IsFiniteSet(vo) /\ IsFiniteSet(ao)
      /\ IsFiniteSet(so) /\ IsFiniteSet(me)
  BY TalliesFinite
<1>2. /\ Cardinality(vi) \in Nat /\ Cardinality(ai) \in Nat /\ Cardinality(vo) \in Nat
      /\ Cardinality(ao) \in Nat /\ Cardinality(so) \in Nat /\ Cardinality(me) \in Nat
  BY <1>1, FS_CardinalityType
<1>3. /\ \A x : x \notin vi => Cardinality(vi \cup {x}) = Cardinality(vi) + 1
      /\ \A x : x \notin ai => Cardinality(ai \cup {x}) = Cardinality(ai) + 1
      /\ \A x : x \notin vo => Cardinality(vo \cup {x}) = Cardinality(vo) + 1
      /\ \A x : x \notin ao => Cardinality(ao \cup {x}) = Cardinality(ao) + 1
      /\ \A x : x \notin so => Cardinality(so \cup {x}) = Cardinality(so) + 1
      /\ \A x : x \notin me => Cardinality(me \cup {x}) = Cardinality(me) + 1
                                 /\ IsFiniteSet(me \cup {x})
  BY <1>1, OneMore
<1>4. \A missed, guessed, verified, activated, enrolled, sent :
        Adds(u, missed, guessed, verified, activated, enrolled, sent) =>
          /\ Wrong(u)' = Cardinality(vi \cup missed) + Cardinality(ai \cup guessed)
          /\ Renewals(u)' = Cardinality(me \cup sent) + Cardinality(vo \cup verified)
                              + Cardinality(ao \cup activated) + Cardinality(so \cup enrolled)
          /\ MessagesTo(u)' = me \cup sent
  BY DEF Adds, Wrong, Renewals
<1>5. /\ vi \cup {} = vi /\ ai \cup {} = ai /\ vo \cup {} = vo /\ ao \cup {} = ao
      /\ so \cup {} = so /\ me \cup {} = me
  OBVIOUS
<1>6. /\ Wrong(u) = Cardinality(vi) + Cardinality(ai)
      /\ Renewals(u) = Cardinality(me) + Cardinality(vo) + Cardinality(ao) + Cardinality(so)
  BY DEF Wrong, Renewals
<1> HIDE DEF vi, ai, vo, ao, so, me
<1>7. ASSUME AddsNothing(u)
      PROVE  Counts(u, 0, 0)
  <2>1. /\ Wrong(u)' = Cardinality(vi \cup {}) + Cardinality(ai \cup {})
        /\ Renewals(u)' = Cardinality(me \cup {}) + Cardinality(vo \cup {})
                              + Cardinality(ao \cup {}) + Cardinality(so \cup {})
        /\ MessagesTo(u)' = me \cup {}
    BY <1>4, <1>7 DEF AddsNothing
  <2>2. /\ Wrong(u)' = Cardinality(vi) + Cardinality(ai)
        /\ Renewals(u)' = Cardinality(me) + Cardinality(vo) + Cardinality(ao) + Cardinality(so)
        /\ IsFiniteSet(MessagesTo(u)')
    BY <1>1, <1>3, <1>5, <1>7, <2>1
  <2> QED
    BY <1>2, <1>6, <2>2 DEF Counts
<1>8. ASSUME NEW x, x \notin vi, Adds(u, {x}, {}, {}, {}, {}, {})
      PROVE  Counts(u, 1, 0)
  <2>1. /\ Wrong(u)' = Cardinality(vi \cup {x}) + Cardinality(ai \cup {})
        /\ Renewals(u)' = Cardinality(me \cup {}) + Cardinality(vo \cup {})
                              + Cardinality(ao \cup {}) + Cardinality(so \cup {})
        /\ MessagesTo(u)' = me \cup {}
    BY <1>4, <1>8
  <2>2. Cardinality(vi \cup {x}) = Cardinality(vi) + 1
    BY <1>3, <1>8
  <2>3. Wrong(u)' = Cardinality(vi) + 1 + Cardinality(ai)
    BY <1>2, <1>5, <2>1, <2>2
  <2>4. Renewals(u)' = Cardinality(me) + Cardinality(vo) + Cardinality(ao) + Cardinality(so)
    BY <1>2, <1>5, <2>1, <2>2
  <2>5. IsFiniteSet(MessagesTo(u)')
    BY <1>1, <1>5, <2>1
  <2> QED
    BY <1>2, <1>6, <2>3, <2>4, <2>5 DEF Counts
<1>9. ASSUME NEW x, x \notin ai, Adds(u, {}, {x}, {}, {}, {}, {})
      PROVE  Counts(u, 1, 0)
  <2>1. /\ Wrong(u)' = Cardinality(vi \cup {}) + Cardinality(ai \cup {x})
        /\ Renewals(u)' = Cardinality(me \cup {}) + Cardinality(vo \cup {})
                              + Cardinality(ao \cup {}) + Cardinality(so \cup {})
        /\ MessagesTo(u)' = me \cup {}
    BY <1>4, <1>9
  <2>2. Cardinality(ai \cup {x}) = Cardinality(ai) + 1
    BY <1>3, <1>9
  <2>3. Wrong(u)' = Cardinality(vi) + Cardinality(ai) + 1
    BY <1>2, <1>5, <2>1, <2>2
  <2>4. Renewals(u)' = Cardinality(me) + Cardinality(vo) + Cardinality(ao) + Cardinality(so)
    BY <1>2, <1>5, <2>1, <2>2
  <2>5. IsFiniteSet(MessagesTo(u)')
    BY <1>1, <1>5, <2>1
  <2> QED
    BY <1>2, <1>6, <2>3, <2>4, <2>5 DEF Counts
<1>10. ASSUME NEW x, x \notin vo, Adds(u, {}, {}, {x}, {}, {}, {})
      PROVE  Counts(u, 0, 1)
  <2>1. /\ Wrong(u)' = Cardinality(vi \cup {}) + Cardinality(ai \cup {})
        /\ Renewals(u)' = Cardinality(me \cup {}) + Cardinality(vo \cup {x})
                              + Cardinality(ao \cup {}) + Cardinality(so \cup {})
        /\ MessagesTo(u)' = me \cup {}
    BY <1>4, <1>10
  <2>2. Cardinality(vo \cup {x}) = Cardinality(vo) + 1
    BY <1>3, <1>10
  <2>3. Wrong(u)' = Cardinality(vi) + Cardinality(ai)
    BY <1>2, <1>5, <2>1, <2>2
  <2>4. Renewals(u)' = Cardinality(me) + Cardinality(vo) + 1 + Cardinality(ao) + Cardinality(so)
    BY <1>2, <1>5, <2>1, <2>2
  <2>5. IsFiniteSet(MessagesTo(u)')
    BY <1>1, <1>5, <2>1
  <2> QED
    BY <1>2, <1>6, <2>3, <2>4, <2>5 DEF Counts
<1>11. ASSUME NEW x, x \notin ao, Adds(u, {}, {}, {}, {x}, {}, {})
      PROVE  Counts(u, 0, 1)
  <2>1. /\ Wrong(u)' = Cardinality(vi \cup {}) + Cardinality(ai \cup {})
        /\ Renewals(u)' = Cardinality(me \cup {}) + Cardinality(vo \cup {})
                              + Cardinality(ao \cup {x}) + Cardinality(so \cup {})
        /\ MessagesTo(u)' = me \cup {}
    BY <1>4, <1>11
  <2>2. Cardinality(ao \cup {x}) = Cardinality(ao) + 1
    BY <1>3, <1>11
  <2>3. Wrong(u)' = Cardinality(vi) + Cardinality(ai)
    BY <1>2, <1>5, <2>1, <2>2
  <2>4. Renewals(u)' = Cardinality(me) + Cardinality(vo) + Cardinality(ao) + 1 + Cardinality(so)
    BY <1>2, <1>5, <2>1, <2>2
  <2>5. IsFiniteSet(MessagesTo(u)')
    BY <1>1, <1>5, <2>1
  <2> QED
    BY <1>2, <1>6, <2>3, <2>4, <2>5 DEF Counts
<1>12. ASSUME NEW x, x \notin so, Adds(u, {}, {}, {}, {}, {x}, {})
      PROVE  Counts(u, 0, 1)
  <2>1. /\ Wrong(u)' = Cardinality(vi \cup {}) + Cardinality(ai \cup {})
        /\ Renewals(u)' = Cardinality(me \cup {}) + Cardinality(vo \cup {})
                              + Cardinality(ao \cup {}) + Cardinality(so \cup {x})
        /\ MessagesTo(u)' = me \cup {}
    BY <1>4, <1>12
  <2>2. Cardinality(so \cup {x}) = Cardinality(so) + 1
    BY <1>3, <1>12
  <2>3. Wrong(u)' = Cardinality(vi) + Cardinality(ai)
    BY <1>2, <1>5, <2>1, <2>2
  <2>4. Renewals(u)' = Cardinality(me) + Cardinality(vo) + Cardinality(ao) + Cardinality(so) + 1
    BY <1>2, <1>5, <2>1, <2>2
  <2>5. IsFiniteSet(MessagesTo(u)')
    BY <1>1, <1>5, <2>1
  <2> QED
    BY <1>2, <1>6, <2>3, <2>4, <2>5 DEF Counts
<1>13. ASSUME NEW x, x \notin me, Adds(u, {}, {}, {}, {}, {}, {x})
      PROVE  Counts(u, 0, 1)
  <2>1. /\ Wrong(u)' = Cardinality(vi \cup {}) + Cardinality(ai \cup {})
        /\ Renewals(u)' = Cardinality(me \cup {x}) + Cardinality(vo \cup {})
                              + Cardinality(ao \cup {}) + Cardinality(so \cup {})
        /\ MessagesTo(u)' = me \cup {x}
    BY <1>4, <1>13
  <2>2. /\ Wrong(u)' = Cardinality(vi) + Cardinality(ai)
        /\ Renewals(u)' = Cardinality(me) + 1 + Cardinality(vo) + Cardinality(ao) + Cardinality(so)
        /\ IsFiniteSet(MessagesTo(u)')
    BY <1>1, <1>3, <1>5, <1>13, <2>1
  <2> QED
    BY <1>2, <1>6, <2>2 DEF Counts
<1> QED
  BY <1>7, <1>8, <1>9, <1>10, <1>11, <1>12, <1>13 DEF vi, ai, vo, ao, so, me

LEMMA GrantedFacts ==
  ASSUME NEW u, IsFiniteSet(MessagesTo(u))
  PROVE  /\ Granted(u) \in Nat
         /\ \A w : Counts(u, w, 0) => Granted(u)' = Granted(u)
         /\ \A w : Counts(u, w, 1) => Granted(u)' = Granted(u) + AttemptsAllowed
<1> DEFINE k == Renewals(u)
<1>1. k \in Nat /\ AttemptsAllowed \in Nat
  BY WrongAreNumbers, PhoneAssumed DEF PV!PhoneVerificationAssumption
<1>2. \A w : /\ Counts(u, w, 0) => Renewals(u)' = k + 0
             /\ Counts(u, w, 1) => Renewals(u)' = k + 1
  BY DEF Counts
<1>3. Granted(u) = AttemptsAllowed * k /\ Granted(u)' = AttemptsAllowed * Renewals(u)'
  BY DEF Granted
<1> HIDE DEF k
<1>4. AttemptsAllowed * k \in Nat
  BY <1>1
<1>5. AttemptsAllowed * (k + 1) = AttemptsAllowed * k + AttemptsAllowed /\ k + 0 = k
  BY <1>1
<1> QED
  BY <1>2, <1>3, <1>4, <1>5

LEMMA CountingNext ==
  ASSUME Orderly, Moves, NEW u \in Users, Counting(u)
  PROVE  Counting(u)'
<1> DEFINE W == Wrong(u)
           G == Granted(u)
           A == AttemptsAllowed
           old == Latest(u)
           new == Latest(u)'
           OK == /\ IsFiniteSet(MessagesTo(u)') /\ W' <= G' + A
                 /\ new # Absent => Tries(new) <= A /\ W' <= G' + Tries(new)
<1>1. /\ IsFiniteSet(MessagesTo(u)) /\ W <= G + A
      /\ old # Absent => Tries(old) <= A /\ W <= G + Tries(old)
      /\ \A r \in Phone!Requests : Sent(r) /\ req[r].user = u => W <= G
      /\ \A a \in Social!Activations : Guessing(a) /\ act[a].user = u => W + 1 <= G + A
  BY DEF Counting
<1>2. W \in Nat /\ G \in Nat /\ A \in Nat
  BY <1>1, WrongAreNumbers, GrantedFacts, PhoneAssumed DEF PV!PhoneVerificationAssumption
<1>3. /\ \A s \in Signup : Tries(s) \in Nat
      /\ old \in Signup \cup {Absent} /\ log[u] \in Seq(Signup \cup {Absent})
  <2>1. StoreTypeOK
    BY StoreTyped DEF Orderly
  <2>2. \A s \in Signup : Tries(s) \in Nat
    BY DEF Tries, Signup, Opt
  <2> QED
    BY <2>1, <2>2, LatestType DEF StoreTypeOK
<1>4. /\ \A w : Counts(u, w, 0) => W' = W + w /\ G' = G /\ IsFiniteSet(MessagesTo(u)')
      /\ \A w : Counts(u, w, 1) => W' = W + w /\ G' = G + A /\ IsFiniteSet(MessagesTo(u)')
  BY <1>1, GrantedFacts DEF Counts
<1>5. \A s : log'[u] = Append(log[u], s) /\ s \in Signup \cup {Absent} => new = s
  BY <1>3 DEF Latest
<1>6. AddsNothing(u) => W' = W /\ G' = G /\ IsFiniteSet(MessagesTo(u)')
  <2>1. AddsNothing(u) => Counts(u, 0, 0)
    BY <1>1, Counted
  <2> QED
    BY <1>2, <1>4, <2>1
<1>7. Messaged(u) => W' = W /\ G' = G + A /\ IsFiniteSet(MessagesTo(u)') /\ new = old
  <2>1. Messaged(u) => Counts(u, 0, 1) /\ new = old
    BY <1>1, Counted DEF Messaged, Latest
  <2> QED
    BY <1>2, <1>4, <2>1
<1> HIDE DEF W, G, A, old, new
<1>8. ASSUME NEW r \in Phone!Requests, Sent(r)', req'[r].user = u
      PROVE  W' <= G'
  <2>1. req[r].user = u /\ IF Sent(r) THEN AddsNothing(u) ELSE Messaged(u)
    BY <1>8 DEF Moves, Sending
  <2> QED
    BY <1>1, <1>2, <1>6, <1>7, <2>1
<1>9. ASSUME NEW a \in Social!Activations, Guessing(a)', act'[a].user = u
      PROVE  W' + 1 <= G' + A
  <2>1. /\ AddsNothing(u)
        /\ \/ Guessing(a) /\ act[a].user = u
           \/ old # Absent /\ ~Social!AttemptsUsedUp(old)
    BY <1>9 DEF Moves, Trying, old
  <2>2. old # Absent /\ ~Social!AttemptsUsedUp(old) => Tries(old) < A /\ Tries(old) \in Nat
    BY <1>2, <1>3 DEF Social!AttemptsUsedUp, Social!Attempts, Tries, A
  <2> QED
    BY <1>1, <1>2, <1>6, <2>1, <2>2
<1>10. ASSUME Stays(u) \/ Messaged(u)
       PROVE  OK
  <2>1. /\ IsFiniteSet(MessagesTo(u)') /\ new = old /\ W' = W
        /\ G' = G \/ G' = G + A
    BY <1>6, <1>7, <1>10 DEF Stays, Latest, old, new
  <2> QED
    BY <1>1, <1>2, <1>3, <2>1
<1>11. ASSUME Deleted(u)
       PROVE  OK
  <2>1. AddsNothing(u) /\ new = Absent
    BY <1>5, <1>11 DEF Deleted
  <2> QED
    BY <1>1, <1>6, <2>1
<1>12. ASSUME GaveUp(u)
       PROVE  OK
  <2>1. PICK a \in Social!Activations \ ActivationsOf(u, "invalid") :
          Guessing(a) /\ act[a].user = u /\ Adds(u, {}, {a}, {}, {}, {}, {})
    BY <1>12 DEF GaveUp
  <2>2. old = Absent /\ new = Absent
    BY <1>12 DEF GaveUp, Latest, old, new
  <2>3. Counts(u, 1, 0)
    BY <1>1, <2>1, Counted
  <2>4. W' = W + 1 /\ G' = G /\ IsFiniteSet(MessagesTo(u)')
    BY <1>4, <2>3
  <2> QED
    BY <1>1, <2>1, <2>2, <2>4
<1>13. ASSUME NEW s \in Signup, log'[u] = Append(log[u], s), WritesOver(u, s)
       PROVE  OK
  <2>1. new = s /\ old # Absent /\ Tries(s) \in Nat /\ Tries(old) \in Nat
    BY <1>3, <1>5, <1>13 DEF WritesOver, old
  <2>2. CASE Rewritten(u, s)
    <3>1. AddsNothing(u) /\ (Tries(s) = Tries(old) \/ (Tries(s) = A /\ Tries(old) <= A))
      BY <1>1, <1>2, <2>1, <2>2, NotNone DEF Rewritten, Tries, old, A
    <3> QED
      BY <1>1, <1>2, <1>6, <2>1, <3>1
  <2>3. CASE Stored(u, s)
    <3>1. AddsNothing(u) /\ Tries(s) = 0 /\ W <= G
      BY <1>1, <2>3 DEF Stored, Tries
    <3> QED
      BY <1>1, <1>2, <1>6, <2>1, <3>1
  <2>4. CASE Missed(u, s)
    <3>1. Tries(old) < A /\ s.attempts = Tries(old) + 1
      BY <2>4 DEF Missed, old, A
    <3>2. Tries(s) = Tries(old) + 1
      BY <2>1, <3>1, NotNone DEF Tries
    <3>3. Counts(u, 1, 0)
      BY <1>1, <2>4, Counted DEF Missed
    <3>4. W' = W + 1 /\ G' = G /\ IsFiniteSet(MessagesTo(u)')
      BY <1>4, <3>3
    <3> QED
      BY <1>1, <1>2, <2>1, <3>1, <3>2, <3>4
  <2>5. CASE Verified(u, s) \/ Activated(u, s)
    <3>1. Tries(s) = 0 /\ Counts(u, 0, 1)
      BY <1>1, <2>5, Counted DEF Verified, Activated, Tries
    <3>2. W' = W /\ G' = G + A /\ IsFiniteSet(MessagesTo(u)')
      BY <1>2, <1>4, <3>1
    <3> QED
      BY <1>1, <1>2, <2>1, <3>1, <3>2
  <2> QED
    BY <1>13, <2>2, <2>3, <2>4, <2>5 DEF WritesOver
<1>14. ASSUME NEW s \in Signup, log'[u] = Append(log[u], s), Enrolled(u, s)
       PROVE  OK
  <2>1. new = s
    BY <1>5, <1>14
  <2>2. Tries(s) = 0 /\ Counts(u, 0, 1)
    BY <1>1, <1>14, Counted DEF Enrolled, NewlyMade, Tries
  <2>3. W' = W /\ G' = G + A /\ IsFiniteSet(MessagesTo(u)')
    BY <1>2, <1>4, <2>2
  <2> QED
    BY <1>1, <1>2, <2>1, <2>2, <2>3
<1>15. OK
  BY <1>10, <1>11, <1>12, <1>13, <1>14 DEF Moves, Move, Writes
<1> QED
  BY <1>8, <1>9, <1>15 DEF Counting, W, G, A, new, Latest

LEMMA CountingInit ==
  ASSUME Init, NEW u \in Users
  PROVE  Counting(u)
<1>1. Orderly
  BY OrderlyInit
<1>2. /\ \A r \in Phone!Requests : req[r].pc = "idle" /\ ~Sent(r)
      /\ \A a \in Social!Activations : act[a].answer = None /\ ~Guessing(a)
  BY DEF Init, Phone!Idle, Social!NoActivation, Sent, Guessing
<1>3. /\ \A x : VerifiesOf(u, x) = {}
      /\ ActivationsOf(u, "ok") = {} /\ ActivationsOf(u, "invalid") = {}
      /\ SignupsOf(u) = {} /\ MessagesTo(u) = {}
  BY <1>2, NotNone, ActivationNotNone
     DEF Init, VerifiesOf, ActivationsOf, SignupsOf, MessagesTo, Social!Idle
<1>4. IsFiniteSet(MessagesTo(u)) /\ Wrong(u) = 0
  BY <1>3, FS_EmptySet DEF Wrong
<1>5. Granted(u) \in Nat /\ AttemptsAllowed \in Nat
  BY <1>4, GrantedFacts, PhoneAssumed DEF PV!PhoneVerificationAssumption
<1>6. Latest(u) # Absent => Tries(Latest(u)) = 0
  <2>1. \A t : Social!Inactive(t).attempts = None
    BY DEF Social!Inactive, Social!Deactivated, Social!NewSignup
  <2>2. log[u] = <<Absent>> \/ \E t \in Claims : log[u] = <<Social!Inactive(t)>>
    BY DEF Init
  <2>3. \A x : log[u] = <<x>> => Latest(u) = x
    BY DEF Latest
  <2> QED
    BY <2>1, <2>2, <2>3 DEF Tries
<1> QED
  BY <1>2, <1>4, <1>5, <1>6 DEF Counting

\* What a user who has a UserSignup can guess is bounded by what the user was given: a first
\* code's worth of attempts and one more for each message, each right code and each sign-up, in
\* whatever order phone codes and activation codes are entered, when requests are handled one
\* at a time on caches that do not lag (verification_service.go:182, 367, 388, 395, 497, 503, 579).
THEOREM GuessesAreBounded ==
  ASSUME Undisturbed
  PROVE  Spec => []GuessesBounded
<1> DEFINE I == Orderly /\ \A u \in Users : Counting(u)
<1>1. Init => I
  BY OrderlyInit, CountingInit
<1>2. I /\ [Next]_vars => I'
  <2> SUFFICES ASSUME I, [Next]_vars
               PROVE  I'
    OBVIOUS
  <2>1. Orderly' /\ Moves
    BY OrderlyNext, MovesNext
  <2> QED
    BY <2>1, CountingNext
<1>3. I => GuessesBounded
  <2> SUFFICES ASSUME NEW u \in Users, Counting(u)
               PROVE  Wrong(u) <= AttemptsAllowed * (1 + Renewals(u))
    <3> SUFFICES ASSUME NEW u \in Users, Counting(u)
                 PROVE  1 + Cardinality(MessagesTo(u)) + Cardinality(VerifiesOf(u, "ok"))
                          + Cardinality(ActivationsOf(u, "ok")) + Cardinality(SignupsOf(u))
                          = 1 + Renewals(u)
      BY DEF GuessesBounded, Wrong
    <3>1. /\ Cardinality(MessagesTo(u)) \in Nat /\ Cardinality(VerifiesOf(u, "ok")) \in Nat
          /\ Cardinality(ActivationsOf(u, "ok")) \in Nat /\ Cardinality(SignupsOf(u)) \in Nat
      BY TalliesFinite, FS_CardinalityType DEF Counting
    <3> QED
      BY <3>1 DEF Renewals
  <2>1. Renewals(u) \in Nat /\ AttemptsAllowed \in Nat
    BY WrongAreNumbers, PhoneAssumed DEF Counting, PV!PhoneVerificationAssumption
  <2>2. AttemptsAllowed * (1 + Renewals(u)) = AttemptsAllowed * Renewals(u) + AttemptsAllowed
    BY <2>1
  <2> QED
    BY <2>2 DEF Counting, Granted
<1> QED
  BY <1>1, <1>2, <1>3, PTL DEF Spec

-----------------------------------------------------------------------------
(* Nobody is refused for nothing.                                          *)

\* The code c was stored first in version i of the UserSignup l.
FirstIn(l, c, i) ==
  /\ i \in DOMAIN l /\ l[i] # Absent /\ l[i].code = c
  /\ \A j \in 1 .. i - 1 : l[j] = Absent \/ l[j].code # c

\* As many attempts as are on record have been made since, or a right activation code has done
\* away with them.
Excuse(u, c, attempts) ==
  \/ attempts # None /\ attempts <= AttemptsSince(u, c)
  \/ ActivationsSince(u, c, "ok") # {}

Excused(u, i) ==
  \A s : log[u][i] = s /\ s # Absent /\ s.code # None =>
    /\ \E j \in 1 .. i : FirstIn(log[u], s.code, j)
    /\ Excuse(u, s.code, s.attempts)

Reason(u, c) == AttemptsSince(u, c) >= AttemptsAllowed \/ ActivationsSince(u, c, "ok") # {}

RefusedWell(r) ==
  \A u, i : req[r].answer = "tooMany" /\ req[r].user = u /\ req[r].base = i =>
    /\ u \in Users /\ i \in 1 .. Len(log[u]) /\ log[u][i] # Absent
    /\ \A c : log[u][i].code = c /\ c # None => Reason(u, c)

LEMMA StoredIsFirst ==
  ASSUME NEW u, NEW c, NEW i
  PROVE  /\ DOMAIN log[u] \subseteq Nat \ {0} /\ FirstIn(log[u], c, i) => StoredAt(u, c) = i
         /\ DOMAIN log'[u] \subseteq Nat \ {0} /\ FirstIn(log'[u], c, i) => StoredAt(u, c)' = i
<1> DEFINE Stored1(l) ==
             CHOOSE k \in DOMAIN l :
               /\ l[k] # Absent /\ l[k].code = c
               /\ \A j \in 1 .. k - 1 : l[j] = Absent \/ l[j].code # c
<1>1. ASSUME NEW l, DOMAIN l \subseteq Nat \ {0}, FirstIn(l, c, i)
      PROVE  Stored1(l) = i
  <2>1. \A k : FirstIn(l, c, k) => k = i
    <3> SUFFICES ASSUME NEW k, FirstIn(l, c, k)
                 PROVE  ~(k < i) /\ ~(i < k) /\ k \in Nat /\ i \in Nat
      OBVIOUS
    <3>1. k \in Nat \ {0} /\ i \in Nat \ {0}
      BY <1>1 DEF FirstIn
    <3>2. ~(k < i)
      BY <1>1, <3>1 DEF FirstIn
    <3>3. ~(i < k)
      BY <1>1, <3>1 DEF FirstIn
    <3> QED
      BY <3>1, <3>2, <3>3
  <2>2. FirstIn(l, c, Stored1(l))
    BY <1>1 DEF FirstIn
  <2> QED
    BY <2>1, <2>2
<1>2. StoredAt(u, c) = Stored1(log[u]) /\ StoredAt(u, c)' = Stored1(log'[u])
  BY DEF StoredAt
<1> HIDE DEF Stored1
<1> QED
  BY <1>1, <1>2

\* Nothing that u has entered is forgotten.
LEMMA NothingForgotten ==
  ASSUME NEW u, Move(u)
  PROVE  /\ VerifiesOf(u, "invalid") \subseteq VerifiesOf(u, "invalid")'
         /\ ActivationsOf(u, "invalid") \subseteq ActivationsOf(u, "invalid")'
         /\ ActivationsOf(u, "ok") \subseteq ActivationsOf(u, "ok")'
<1>1. \A missed, guessed, verified, activated, enrolled, sent :
        Adds(u, missed, guessed, verified, activated, enrolled, sent) =>
          /\ VerifiesOf(u, "invalid") \subseteq VerifiesOf(u, "invalid")'
          /\ ActivationsOf(u, "invalid") \subseteq ActivationsOf(u, "invalid")'
          /\ ActivationsOf(u, "ok") \subseteq ActivationsOf(u, "ok")'
  BY DEF Adds
<1>2. \E missed, guessed, verified, activated, enrolled, sent :
        Adds(u, missed, guessed, verified, activated, enrolled, sent)
  BY DEF Move, Stays, Deleted, Messaged, GaveUp, Writes, WritesOver, Rewritten, Stored, Missed,
         Verified, Activated, Enrolled, AddsNothing
<1> QED
  BY <1>1, <1>2

LEMMA SinceFinite ==
  ASSUME NEW u, NEW c, NEW x
  PROVE  /\ IsFiniteSet(VerifiesSince(u, c, x)) /\ IsFiniteSet(VerifiesSince(u, c, x)')
         /\ IsFiniteSet(ActivationsSince(u, c, x)) /\ IsFiniteSet(ActivationsSince(u, c, x)')
<1>1. /\ VerifiesSince(u, c, x) \subseteq VerifiesOf(u, x)
      /\ VerifiesSince(u, c, x)' \subseteq VerifiesOf(u, x)'
      /\ ActivationsSince(u, c, x) \subseteq ActivationsOf(u, x)
      /\ ActivationsSince(u, c, x)' \subseteq ActivationsOf(u, x)'
  BY DEF VerifiesSince, ActivationsSince
<1> QED
  BY <1>1, TalliesFinite, FS_Subset

LEMMA AttemptsAreNumbers ==
  ASSUME NEW u, NEW c
  PROVE  AttemptsSince(u, c) \in Nat /\ AttemptsSince(u, c)' \in Nat
BY SinceFinite, FS_CardinalityType DEF AttemptsSince

\* As versions are only added, what was entered since a code was stored only grows.
LEMMA SinceGrows ==
  ASSUME Orderly, StoreTypeOK', LogGrows, Settled, NEW u \in Users, Move(u), NEW c, NEW i,
         FirstIn(log[u], c, i)
  PROVE  /\ FirstIn(log'[u], c, i) /\ StoredAt(u, c) = i /\ StoredAt(u, c)' = i
         /\ VerifiesSince(u, c, "invalid") \subseteq VerifiesSince(u, c, "invalid")'
         /\ ActivationsSince(u, c, "invalid") \subseteq ActivationsSince(u, c, "invalid")'
         /\ ActivationsSince(u, c, "ok") \subseteq ActivationsSince(u, c, "ok")'
<1>1. StoreTypeOK /\ StoreTypeOK'
  BY StoreTyped DEF Orderly
<1>2. /\ DOMAIN log[u] = 1 .. Len(log[u]) /\ DOMAIN log'[u] = 1 .. Len(log'[u])
      /\ Len(log[u]) \in Nat /\ Len(log'[u]) \in Nat
  BY <1>1 DEF StoreTypeOK
<1>3. Len(log'[u]) >= Len(log[u]) /\ \A j \in 1 .. Len(log[u]) : log'[u][j] = log[u][j]
  BY DEF LogGrows
<1>4. FirstIn(log'[u], c, i)
  <2>1. i \in 1 .. Len(log[u]) /\ \A j \in 1 .. i - 1 : j \in 1 .. Len(log[u])
    BY <1>2 DEF FirstIn
  <2>2. i \in DOMAIN log'[u]
    BY <1>2, <1>3, <2>1
  <2> QED
    BY <1>3, <2>1, <2>2 DEF FirstIn
<1>5. DOMAIN log[u] \subseteq Nat \ {0} /\ DOMAIN log'[u] \subseteq Nat \ {0}
  BY <1>2
<1>6. StoredAt(u, c) = i /\ StoredAt(u, c)' = i
  BY <1>4, <1>5, StoredIsFirst
<1>7. /\ \A r \in VerifiesOf(u, "invalid") : req'[r] = req[r]
      /\ \A x \in {"ok", "invalid"} : \A a \in ActivationsOf(u, x) : act'[a] = act[a]
  BY OnRecord
<1> QED
  BY <1>4, <1>6, <1>7, NothingForgotten DEF VerifiesSince, ActivationsSince

LEMMA LargerSet ==
  ASSUME NEW S, NEW T, IsFiniteSet(T), S \subseteq T
  PROVE  /\ Cardinality(S) <= Cardinality(T)
         /\ \A x : x \in T \ S => Cardinality(S) + 1 <= Cardinality(T)
<1>1. IsFiniteSet(S) /\ Cardinality(S) <= Cardinality(T)
  BY FS_Subset
<1>2. ASSUME NEW x, x \in T \ S
      PROVE  Cardinality(S) + 1 <= Cardinality(T)
  <2>1. Cardinality(S \cup {x}) = Cardinality(S) + 1
    BY <1>1, <1>2, OneMore
  <2>2. Cardinality(S \cup {x}) <= Cardinality(T)
    BY <1>2, FS_Subset
  <2> QED
    BY <2>1, <2>2
<1> QED
  BY <1>1, <1>2

LEMMA AttemptsGrow ==
  ASSUME Orderly, StoreTypeOK', LogGrows, Settled, NEW u \in Users, Move(u), NEW c, NEW i,
         FirstIn(log[u], c, i)
  PROVE  /\ AttemptsSince(u, c) <= AttemptsSince(u, c)'
         /\ \A r : r \in VerifiesSince(u, c, "invalid")' \ VerifiesSince(u, c, "invalid") =>
              AttemptsSince(u, c) + 1 <= AttemptsSince(u, c)'
         /\ \A a : a \in ActivationsSince(u, c, "invalid")' \ ActivationsSince(u, c, "invalid") =>
              AttemptsSince(u, c) + 1 <= AttemptsSince(u, c)'
<1> DEFINE V == VerifiesSince(u, c, "invalid")
           A == ActivationsSince(u, c, "invalid")
<1>1. /\ V \subseteq V' /\ A \subseteq A' /\ IsFiniteSet(V) /\ IsFiniteSet(A)
      /\ IsFiniteSet(V') /\ IsFiniteSet(A')
  BY SinceGrows, SinceFinite
<1>2. /\ Cardinality(V) \in Nat /\ Cardinality(A) \in Nat
      /\ Cardinality(V') \in Nat /\ Cardinality(A') \in Nat
  BY <1>1, FS_CardinalityType
<1>3. /\ Cardinality(V) <= Cardinality(V') /\ Cardinality(A) <= Cardinality(A')
      /\ \A r : r \in V' \ V => Cardinality(V) + 1 <= Cardinality(V')
      /\ \A a : a \in A' \ A => Cardinality(A) + 1 <= Cardinality(A')
  BY <1>1, LargerSet
<1>4. /\ AttemptsSince(u, c) = Cardinality(V) + Cardinality(A)
      /\ AttemptsSince(u, c)' = Cardinality(V') + Cardinality(A')
  BY DEF AttemptsSince
<1> HIDE DEF V, A
<1>5. AttemptsSince(u, c) <= AttemptsSince(u, c)'
  BY <1>2, <1>3, <1>4
<1>6. ASSUME NEW r, r \in V' \ V
      PROVE  AttemptsSince(u, c) + 1 <= AttemptsSince(u, c)'
  <2>1. Cardinality(V) + 1 <= Cardinality(V')
    BY <1>3, <1>6
  <2> QED
    BY <1>2, <1>3, <1>4, <2>1
<1>7. ASSUME NEW a, a \in A' \ A
      PROVE  AttemptsSince(u, c) + 1 <= AttemptsSince(u, c)'
  <2>1. Cardinality(A) + 1 <= Cardinality(A')
    BY <1>3, <1>7
  <2> QED
    BY <1>2, <1>3, <1>4, <2>1
<1> QED
  BY <1>5, <1>6, <1>7 DEF V, A

\* An excuse and a reason hold for good.
LEMMA ExcuseStays ==
  ASSUME Orderly, StoreTypeOK', LogGrows, Settled, NEW u \in Users, Move(u), NEW c, NEW i,
         FirstIn(log[u], c, i)
  PROVE  /\ \A n \in Opt(Nat) : Excuse(u, c, n) => Excuse(u, c, n)'
         /\ Reason(u, c) => Reason(u, c)'
<1>1. AttemptsSince(u, c) <= AttemptsSince(u, c)'
  BY AttemptsGrow
<1>2. AttemptsSince(u, c) \in Nat /\ AttemptsSince(u, c)' \in Nat
  BY AttemptsAreNumbers
<1>3. ActivationsSince(u, c, "ok") \subseteq ActivationsSince(u, c, "ok")'
  BY SinceGrows
<1>4. AttemptsAllowed \in Nat
  BY PhoneAssumed DEF PV!PhoneVerificationAssumption
<1> QED
  BY <1>1, <1>2, <1>3, <1>4 DEF Excuse, Reason, Opt

\* A new version keeps the excuse, or comes with one.
LEMMA WrittenExcused ==
  ASSUME Orderly, StoreTypeOK', LogGrows, Settled, NEW u \in Users, NEW s \in Signup,
         log'[u] = Append(log[u], s), WritesOver(u, s), Move(u),
         \A i \in 1 .. Len(log[u]) : Excused(u, i), s.code # None
  PROVE  (\E j \in 1 .. Len(log'[u]) : FirstIn(log'[u], s.code, j)) /\ Excuse(u, s.code, s.attempts)'
<1> DEFINE n == Len(log[u])
           old == Latest(u)
           c == s.code
<1>1. /\ n \in Nat \ {0} /\ log[u] \in Seq(Signup \cup {Absent}) /\ Len(log'[u]) = n + 1
      /\ log'[u][n + 1] = s /\ DOMAIN log[u] = 1 .. n /\ DOMAIN log'[u] = 1 .. n + 1
  <2>1. n \in Nat \ {0} /\ log[u] \in Seq(Signup \cup {Absent})
    BY StoreTyped DEF Orderly, StoreTypeOK
  <2> QED
    BY <2>1
<1>2. s # Absent /\ old # Absent /\ old \in Signup /\ log[u][n] = old
  <2>1. StoreTypeOK
    BY StoreTyped DEF Orderly
  <2> QED
    BY <2>1, LatestType, HostStoreAssumption DEF WritesOver, Latest, Signup
<1>3. s.attempts \in Opt(Nat) /\ old.attempts \in Opt(Nat)
  BY <1>2 DEF Signup
\* Where the code is the old one, so are its first version and its excuse.
<1>4. ASSUME old.code = c
      PROVE  \E j \in 1 .. n : FirstIn(log[u], c, j) /\ Excuse(u, c, old.attempts)
  <2>1. Excused(u, n)
    BY <1>1
  <2> QED
    BY <1>2, <1>4, <2>1 DEF Excused
<1>5. ASSUME NEW j \in 1 .. n, FirstIn(log[u], c, j)
      PROVE  /\ FirstIn(log'[u], c, j) /\ j \in 1 .. n + 1
             /\ StoredAt(u, c) = j /\ StoredAt(u, c)' = j
  <2>1. j \in 1 .. n + 1
    BY <1>1
  <2>2. /\ FirstIn(log'[u], c, j) /\ StoredAt(u, c) = j /\ StoredAt(u, c)' = j
    <3> HIDE DEF n, c
    <3> QED
      BY <1>5, SinceGrows
  <2> QED
    BY <2>1, <2>2
<1>6. AttemptsSince(u, c) \in Nat /\ AttemptsSince(u, c)' \in Nat
  BY AttemptsAreNumbers
<1>7. CASE Rewritten(u, s)
  <2>1. PICK j \in 1 .. n : FirstIn(log[u], c, j) /\ Excuse(u, c, old.attempts)
    BY <1>4, <1>7 DEF Rewritten
  <2>2. Excuse(u, c, s.attempts)
    <3>1. CASE s.attempts = old.attempts
      BY <2>1, <3>1
    <3>2. CASE old.attempts = None
      BY <2>1, <3>2 DEF Excuse
    <3> QED
      BY <1>7, <3>1, <3>2 DEF Rewritten
  <2>3. Excuse(u, c, s.attempts)'
    BY <1>3, <2>1, <2>2, ExcuseStays
  <2> QED
    BY <1>1, <1>5, <2>1, <2>3
<1>8. CASE Stored(u, s)
  <2>1. s.attempts = 0 /\ 0 # None
    BY <1>8, NotNone DEF Stored
  <2>2. Excuse(u, c, s.attempts)'
    BY <1>6, <2>1 DEF Excuse
  <2>3. CASE \E i \in 1 .. n : log[u][i] # Absent /\ log[u][i].code = c
    <3>1. PICK i \in 1 .. n : log[u][i] # Absent /\ log[u][i].code = c
      BY <2>3
    <3>2. Excused(u, i)
      BY <3>1
    <3>3. PICK j \in 1 .. i : FirstIn(log[u], c, j)
      BY <3>1, <3>2 DEF Excused
    <3>4. j \in 1 .. n
      BY <1>1, <3>1, <3>3
    <3> QED
      BY <1>1, <1>5, <2>2, <3>3, <3>4
  <2>4. CASE \A i \in 1 .. n : log[u][i] = Absent \/ log[u][i].code # c
    <3>1. \A i \in 1 .. n : log'[u][i] = log[u][i]
      BY DEF LogGrows
    <3>2. FirstIn(log'[u], c, n + 1) /\ n + 1 \in 1 .. n + 1
      BY <1>1, <1>2, <2>4, <3>1 DEF FirstIn
    <3> QED
      BY <1>1, <2>2, <3>2
  <2> QED
    BY <2>3, <2>4
<1>9. CASE Missed(u, s)
  <2>1. PICK j \in 1 .. n : FirstIn(log[u], c, j) /\ Excuse(u, c, old.attempts)
    BY <1>4, <1>9 DEF Missed
  <2>2. Excuse(u, c, s.attempts)'
    <3>1. CASE ActivationsSince(u, c, "ok") # {}
      BY <2>1, <3>1, SinceGrows DEF Excuse
    <3>2. ASSUME ActivationsSince(u, c, "ok") = {}
          PROVE  Excuse(u, c, s.attempts)'
      <4>1. old.attempts \in Nat /\ old.attempts # None /\ old.attempts <= AttemptsSince(u, c)
        BY <1>3, <2>1, <3>2 DEF Excuse, Opt
      <4>2. s.attempts = old.attempts + 1 /\ s.attempts # None
        BY <1>9, <4>1, NotNone DEF Missed, Tries, old
      <4>3. AttemptsSince(u, c) + 1 <= AttemptsSince(u, c)'
        <5>1. CASE \E r \in Phone!Requests \ VerifiesOf(u, "invalid") :
                     req'[r].base = n /\ Adds(u, {r}, {}, {}, {}, {}, {})
          <6>1. PICK r \in Phone!Requests \ VerifiesOf(u, "invalid") :
                  req'[r].base = n /\ Adds(u, {r}, {}, {}, {}, {}, {})
            BY <5>1
          <6>2. r \in VerifiesOf(u, "invalid")' /\ n >= j
            BY <1>1, <6>1 DEF Adds
          <6>3. r \in VerifiesSince(u, c, "invalid")' \ VerifiesSince(u, c, "invalid")
            BY <1>5, <2>1, <6>1, <6>2 DEF VerifiesSince
          <6> QED
            BY <2>1, <6>3, AttemptsGrow
        <5>2. CASE \E a \in Social!Activations \ ActivationsOf(u, "invalid") :
                     act'[a].base = n /\ Adds(u, {}, {a}, {}, {}, {}, {})
          <6>1. PICK a \in Social!Activations \ ActivationsOf(u, "invalid") :
                  act'[a].base = n /\ Adds(u, {}, {a}, {}, {}, {}, {})
            BY <5>2
          <6>2. a \in ActivationsOf(u, "invalid")' /\ n >= j
            BY <1>1, <6>1 DEF Adds
          <6>3. a \in ActivationsSince(u, c, "invalid")' \ ActivationsSince(u, c, "invalid")
            BY <1>5, <2>1, <6>1, <6>2 DEF ActivationsSince
          <6> QED
            BY <2>1, <6>3, AttemptsGrow
        <5> QED
          BY <1>9, <5>1, <5>2 DEF Missed
      <4> QED
        BY <1>6, <4>1, <4>2, <4>3 DEF Excuse
    <3> QED
      BY <3>1, <3>2
  <2> QED
    BY <1>1, <1>5, <2>1, <2>2
<1>10. CASE Activated(u, s)
  <2>1. PICK j \in 1 .. n : FirstIn(log[u], c, j)
    BY <1>4, <1>10 DEF Activated
  <2>2. PICK a \in Social!Activations :
          act'[a].base = n /\ a \in ActivationsOf(u, "ok")'
    BY <1>10 DEF Activated, Adds
  <2>3. a \in ActivationsSince(u, c, "ok")'
    BY <1>1, <1>5, <2>1, <2>2 DEF ActivationsSince
  <2> QED
    BY <1>1, <1>5, <2>1, <2>3 DEF Excuse
<1> QED
  BY <1>7, <1>8, <1>9, <1>10 DEF WritesOver, Verified

LEMMA ExcusedNext ==
  ASSUME Orderly, StoreTypeOK', LogGrows, Moves, NEW u \in Users,
         \A i \in 1 .. Len(log[u]) : Excused(u, i)
  PROVE  \A i \in 1 .. Len(log'[u]) : Excused(u, i)'
<1> DEFINE n == Len(log[u])
<1>1. Settled /\ Move(u)
  BY DEF Moves
<1>2. n \in Nat \ {0} /\ log[u] \in Seq(Signup \cup {Absent})
  BY StoreTyped DEF Orderly, StoreTypeOK
<1>3. \A s : log'[u] = Append(log[u], s) => Len(log'[u]) = n + 1 /\ log'[u][n + 1] = s
  BY <1>2
\* The versions that there were.
<1>4. ASSUME NEW i \in 1 .. n, NEW s, log'[u][i] = s, s # Absent, s.code # None
      PROVE  (\E j \in 1 .. i : FirstIn(log'[u], s.code, j)) /\ Excuse(u, s.code, s.attempts)'
  <2>1. log[u][i] = s
    BY <1>4 DEF LogGrows
  <2>2. s.attempts \in Opt(Nat)
    <3>1. s \in Signup \cup {Absent}
      BY <1>2, <2>1
    <3> QED
      BY <1>4, <3>1 DEF Signup
  <2>3. PICK j \in 1 .. i : FirstIn(log[u], s.code, j) /\ Excuse(u, s.code, s.attempts)
    <3>1. Excused(u, i)
      BY <1>4
    <3> QED
      BY <1>4, <2>1, <3>1 DEF Excused
  <2>4. FirstIn(log'[u], s.code, j)
    BY <1>1, <2>3, SinceGrows
  <2>5. Excuse(u, s.code, s.attempts)'
    BY <1>1, <2>2, <2>3, ExcuseStays
  <2> QED
    BY <2>4, <2>5
<1>5. \A i \in 1 .. n : Excused(u, i)'
  BY <1>4 DEF Excused
<1>6. CASE log'[u] = log[u]
  BY <1>5, <1>6
\* The version that is new.
<1>7. ASSUME NEW s, log'[u] = Append(log[u], s),
             s # Absent /\ s.code # None =>
               /\ \E j \in 1 .. Len(log'[u]) : FirstIn(log'[u], s.code, j)
               /\ Excuse(u, s.code, s.attempts)'
      PROVE  \A i \in 1 .. Len(log'[u]) : Excused(u, i)'
  <2>1. Len(log'[u]) = n + 1 /\ log'[u][n + 1] = s
    BY <1>3, <1>7
  <2>2. ASSUME NEW k, k = n + 1
        PROVE  Excused(u, k)'
    <3> HIDE DEF n
    <3>1. s # Absent /\ s.code # None =>
            (\E j \in 1 .. k : FirstIn(log'[u], s.code, j)) /\ Excuse(u, s.code, s.attempts)'
      BY <1>7, <2>1, <2>2
    <3>2. \A t : log'[u][k] = t => t = s
      BY <2>1, <2>2
    <3> QED
      BY <3>1, <3>2 DEF Excused
  <2>3. \A i \in 1 .. n + 1 : i \in 1 .. n \/ i = n + 1
    BY <1>2
  <2> QED
    BY <1>5, <2>1, <2>2, <2>3
<1>8. CASE Deleted(u)
  BY <1>7, <1>8 DEF Deleted
<1>9. ASSUME NEW s \in Signup, log'[u] = Append(log[u], s), WritesOver(u, s)
      PROVE  \A i \in 1 .. Len(log'[u]) : Excused(u, i)'
  BY <1>1, <1>7, <1>9, WrittenExcused
<1>10. ASSUME NEW s \in Signup, log'[u] = Append(log[u], s), Enrolled(u, s)
       PROVE  \A i \in 1 .. Len(log'[u]) : Excused(u, i)'
  BY <1>7, <1>10 DEF Enrolled, NewlyMade
<1> QED
  BY <1>1, <1>6, <1>8, <1>9, <1>10 DEF Move, Stays, Messaged, GaveUp, Writes

LEMMA RefusedWellNext ==
  ASSUME Orderly, StoreTypeOK', LogGrows, Moves, NEW r \in Phone!Requests, RefusedWell(r),
         \A u \in Users : \A i \in 1 .. Len(log[u]) : Excused(u, i)
  PROVE  RefusedWell(r)'
<1> SUFFICES ASSUME NEW u, NEW i, req'[r].answer = "tooMany", req'[r].user = u, req'[r].base = i
             PROVE  /\ u \in Users /\ i \in 1 .. Len(log'[u]) /\ log'[u][i] # Absent
                    /\ \A c : log'[u][i].code = c /\ c # None => Reason(u, c)'
  BY DEF RefusedWell
<1> DEFINE s == log[u][i]
<1>1. /\ req[r].user = u /\ req[r].base = i /\ Settled
      /\ \/ req[r].answer = "tooMany"
         \/ Phone!InFlight(r) /\ Phone!AttemptsUsedUp(Phone!Base(r))
  BY DEF Moves, Judged, SameRequest
<1>2. /\ u \in Users /\ i \in 1 .. Len(log[u]) /\ s # Absent
      /\ s.code # None => Reason(u, s.code)
  <2>1. CASE req[r].answer = "tooMany"
    BY <1>1, <2>1 DEF RefusedWell
  <2>2. ASSUME Phone!InFlight(r), Phone!AttemptsUsedUp(Phone!Base(r))
        PROVE  /\ u \in Users /\ i \in 1 .. Len(log[u]) /\ s # Absent
               /\ s.code # None => Reason(u, s.code)
    <3>1. u \in Users /\ i \in 1 .. Len(log[u]) /\ Phone!Base(r) = s /\ s \in Signup
      BY <1>1, <2>2, PhoneFacts DEF Phone!Base, Orderly
    <3>2. s # Absent /\ Excused(u, i) /\ s.attempts \in Opt(Nat)
      BY <3>1, HostStoreAssumption DEF Signup
    <3>3. ASSUME s.code # None
          PROVE  Reason(u, s.code)
      <4>1. Excuse(u, s.code, s.attempts)
        BY <3>2, <3>3 DEF Excused
      <4>2. AttemptsAllowed \in Nat /\ AttemptsSince(u, s.code) \in Nat
        BY AttemptsAreNumbers, PhoneAssumed DEF PV!PhoneVerificationAssumption
      <4>3. s.attempts # None => s.attempts >= AttemptsAllowed /\ s.attempts \in Nat
        BY <2>2, <3>1, <3>2 DEF Phone!AttemptsUsedUp, Phone!Attempts, Opt
      <4> HIDE DEF s
      <4> QED
        BY <4>1, <4>2, <4>3 DEF Excuse, Reason
    <3> QED
      BY <3>1, <3>2, <3>3
  <2> QED
    BY <1>1, <2>1, <2>2
<1>3. log'[u][i] = s /\ i \in 1 .. Len(log'[u]) /\ Move(u)
  <2>1. Len(log[u]) \in Nat /\ Len(log'[u]) \in Nat
    BY <1>2, StoreTyped DEF Orderly, StoreTypeOK
  <2> QED
    BY <1>2, <2>1 DEF LogGrows, Moves
<1>4. ASSUME NEW c, s.code = c, c # None
      PROVE  Reason(u, c)'
  <2>1. Excused(u, i)
    BY <1>2
  <2>2. PICK j \in 1 .. i : FirstIn(log[u], c, j)
    BY <1>2, <1>4, <2>1 DEF Excused
  <2> QED
    BY <1>1, <1>2, <1>3, <1>4, <2>2, ExcuseStays
<1>5. \A c : log'[u][i].code = c /\ c # None => Reason(u, c)'
  BY <1>3, <1>4
<1> QED
  BY <1>2, <1>3, <1>5

LEMMA RefusedWellInit ==
  ASSUME Init
  PROVE  /\ \A u \in Users : \A i \in 1 .. Len(log[u]) : Excused(u, i)
         /\ \A r \in Phone!Requests : RefusedWell(r)
<1>1. ASSUME NEW u \in Users, NEW i \in 1 .. Len(log[u])
      PROVE  Excused(u, i)
  <2>1. \A t : Social!Inactive(t).code = None
    BY DEF Social!Inactive, Social!Deactivated, Social!NewSignup
  <2>2. log[u][i] = Absent \/ log[u][i].code = None
    <3>1. log[u] = <<Absent>> \/ \E t \in Claims : log[u] = <<Social!Inactive(t)>>
      BY DEF Init
    <3>2. \A x : Len(<<x>>) = 1 /\ <<x>>[1] = x
      OBVIOUS
    <3>3. Len(log[u]) = 1 /\ (log[u][1] = Absent \/ \E t \in Claims : log[u][1] = Social!Inactive(t))
      BY <3>1, <3>2
    <3> QED
      BY <2>1, <3>3
  <2> QED
    BY <2>2 DEF Excused
<1>2. \A r \in Phone!Requests : req[r].answer = None
  BY DEF Init, Phone!Idle
<1> QED
  BY <1>1, <1>2, NotNone DEF RefusedWell

\* A code is refused untried only after as many wrong codes of either kind, or after a right
\* activation code, entered since the code was stored, when requests are handled one at a time
\* on caches that do not lag (verification_service.go:354-367, 503).
THEOREM RefusalsHaveAReason ==
  ASSUME Undisturbed
  PROVE  Spec => []RefusedForAReason
<1> DEFINE I == /\ Orderly
                /\ \A u \in Users : \A i \in 1 .. Len(log[u]) : Excused(u, i)
                /\ \A r \in Phone!Requests : RefusedWell(r)
<1>1. Init => I
  BY OrderlyInit, RefusedWellInit
<1>2. I /\ [Next]_vars => I'
  <2> SUFFICES ASSUME I, [Next]_vars
               PROVE  I'
    OBVIOUS
  <2>1. Orderly' /\ LogGrows /\ Moves
    BY OrderlyNext, TypesNext, MovesNext DEF Orderly
  <2>2. StoreTypeOK'
    BY <2>1, SameStore DEF Orderly, Types, PV!TypeOK
  <2>3. \A u \in Users : \A i \in 1 .. Len(log'[u]) : Excused(u, i)'
    BY <2>1, <2>2, ExcusedNext
  <2>4. \A r \in Phone!Requests : RefusedWell(r)'
    BY <2>1, <2>2, RefusedWellNext
  <2> QED
    BY <2>1, <2>3, <2>4
<1>3. I => RefusedForAReason
  <2> SUFFICES ASSUME I, NEW r \in Phone!Requests, Refused(r)
               PROVE  Reason(req[r].user, Phone!Base(r).code)
    BY DEF RefusedForAReason, Reason
  <2>1. Phone!Base(r) = log[req[r].user][req[r].base] /\ Phone!Base(r).code # None
    BY DEF Phone!Base, Refused
  <2> QED
    BY <2>1 DEF RefusedWell, Refused
<1> QED
  BY <1>1, <1>2, <1>3, PTL DEF Spec
=============================================================================
