----------------------------- MODULE Registration -----------------------------
(***************************************************************************)
(* The way of a user through registration: signing up, phone verification  *)
(* and activation codes, as they work together on one UserSignup.          *)
(*                                                                         *)
(* The handlers of PhoneVerification and ActivationCode run over the same  *)
(* HostStore.  They share the attempts annotation, the states and the      *)
(* social event, and each knows nothing of the other.                      *)
(***************************************************************************)
EXTENDS HostStore, FiniteSets

CONSTANTS
  MaxPhoneRequests,      \* bound: requests to the phone verification
  MaxActivations,        \* bound: activation codes that users enter
  MaxSignups,            \* bound: sign-ups
  MaxInFlight,           \* bound: requests handled at the same time
  DailyLimit, AttemptsAllowed, Window, CodeExpires, MaxTries,
  LookupMode, LookupExempt, Scores, Counters, LowScoreReactivation,
  VerifierMode, VerificationEnabled, CaptchaEnabled, ExcludedUsers, CrtAdmins, VerifyingEvents,
  NoEvent,
  Capacity, Opens, Closes,
  WriteErrors, SmsErrors, Crashes

VARIABLES
  req, writes, sms, lookups,  \* of PhoneVerification
  signups, draft,             \* of SignupService
  act, counted                \* of ActivationCode

phoneVars == <<req, writes, sms, lookups>>
socialVars == <<signups, draft, act, counted>>
vars == <<log, seen, banned, now, req, writes, sms, lookups, signups, draft, act, counted>>

Phone == INSTANCE PhoneVerification WITH MaxRequests <- MaxPhoneRequests

Social == INSTANCE ActivationCode WITH MaxRequests <- MaxSignups, req <- signups

\* What the components assume of their constants.
ASSUME RegistrationAssumption ==
  /\ Phone!PhoneVerificationAssumption /\ Phone!NoneAssumption
  /\ Social!SignupServiceAssumption /\ Social!NoneAssumption
  /\ Social!ActivationCodeAssumption /\ Social!ActivationNoneAssumption

-----------------------------------------------------------------------------

\* The requests under way, to whichever endpoint.
Busy ==
  Cardinality({r \in Phone!Requests : Phone!InFlight(r)})
    + Cardinality({r \in Social!Requests : Social!InFlight(r)})
    + Cardinality({a \in Social!Activations : Social!Active(a)})

\* A UserSignup does not exist yet, or was active once and has been deactivated.
Init ==
  /\ log \in [Users -> {<<Absent>>} \cup {<<Social!Inactive(t)>> : t \in Claims}]
  /\ seen = [p \in Replicas |-> [u \in Users |-> 1]]
  /\ banned = {}
  /\ now = 0
  /\ req = [r \in Phone!Requests |-> Phone!Idle]
  /\ writes = [r \in Phone!Requests |-> NoChange]
  /\ sms = [c \in Codes |-> None]
  /\ lookups = {}
  /\ signups = [r \in Social!Requests |-> Social!Idle]
  /\ draft = [r \in Social!Requests |-> None]
  /\ act = [a \in Social!Activations |-> Social!NoActivation]
  /\ counted = [e \in Events |-> 0]

\* POST /api/v1/signup, without an activation code.  One sign-up is kept for every activation
\* code that may still come from a user without a UserSignup.
SignUp(r) ==
  /\ Cardinality({q \in Social!Requests : signups[q].pc = "idle"})
       > Cardinality({a \in Social!Activations : act[a].pc # "done"})
  /\ \E p \in Replicas, u \in Users, t \in Claims : Social!SignupStart(r, p, u, t, None)

PhoneStep ==
  /\ \E r \in Phone!Requests : (Busy < MaxInFlight /\ Phone!Arrive(r)) \/ Phone!Handle(r)
  /\ UNCHANGED socialVars

ActivationStep ==
  /\ \E a \in Social!Activations :
       (Busy < MaxInFlight /\ Social!ActivationArrive(a)) \/ Social!ActivationHandle(a)
  /\ UNCHANGED phoneVars

SignupStep ==
  /\ \E r \in Social!Requests :
       (Busy < MaxInFlight /\ SignUp(r)) \/ Social!SignupHandle(r, Social!Valid)
  /\ UNCHANGED <<phoneVars, act, counted>>

StoreStep == StoreNext /\ UNCHANGED <<phoneVars, socialVars>>

Finished == Busy = 0 /\ UNCHANGED vars

Next == PhoneStep \/ ActivationStep \/ SignupStep \/ StoreStep \/ Finished

Spec == Init /\ [][Next]_vars

-----------------------------------------------------------------------------
(* What holds of requests handled one at a time on caches that do not lag. *)

VerifiesOf(u, answer) ==
  {r \in Phone!Requests : req[r].kind = "verify" /\ req[r].user = u /\ req[r].answer = answer
                          /\ req[r].pc = "done"}

ActivationsOf(u, answer) ==
  {a \in Social!Activations : act[a].user = u /\ act[a].answer = answer}

\* The sign-ups that are on record, as accepted or as rejected by the account verifier.
SignupsOf(u) ==
  {r \in Social!Requests :
     /\ signups[r].user = u
     /\ \/ signups[r].answer = "accepted"
        \/ signups[r].answer = "rejected" /\ signups[r].verdict = "rejected"}

MessagesTo(u) == {c \in Codes : sms[c] # None /\ sms[c].user = u}

\* A user who has a UserSignup guesses phone codes and activation codes at the expense of one
\* counter.  What gives such a user new attempts is a new code by SMS, a right code of either
\* kind, and a new sign-up; nothing else does, in whatever order the endpoints are used
\* (verification_service.go:182, 367, 388, 395, 497, 503, 579).  The activation codes of a
\* user without a UserSignup are handed on to Signup, which counts none that it refuses.
GuessesBounded ==
  \A u \in Users :
    Cardinality(VerifiesOf(u, "invalid")) + Cardinality(ActivationsOf(u, "invalid"))
      <= AttemptsAllowed * (1 + Cardinality(MessagesTo(u)) + Cardinality(VerifiesOf(u, "ok"))
                              + Cardinality(ActivationsOf(u, "ok")) + Cardinality(SignupsOf(u)))

\* The version of u that stored the code c.
StoredAt(u, c) ==
  CHOOSE i \in DOMAIN log[u] :
    /\ log[u][i] # Absent /\ log[u][i].code = c
    /\ \A j \in 1 .. i - 1 : log[u][j] = Absent \/ log[u][j].code # c

\* The codes of either kind that u has entered since c was stored, with that answer.
VerifiesSince(u, c, answer) == {r \in VerifiesOf(u, answer) : req[r].base >= StoredAt(u, c)}

ActivationsSince(u, c, answer) == {a \in ActivationsOf(u, answer) : act[a].base >= StoredAt(u, c)}

AttemptsSince(u, c) ==
  Cardinality(VerifiesSince(u, c, "invalid")) + Cardinality(ActivationsSince(u, c, "invalid"))

\* r was refused though it came with a code for a stored one.
Refused(r) == req[r].answer = "tooMany" /\ Phone!Base(r).code # None

\* "If the user has made more attempts than is allowed per generated verification code, return
\* an error" (verification_service.go:366): whoever is told "too many verification attempts"
\* has entered as many wrong codes of either kind as are allowed since the code was stored.
TooManyWereMade ==
  \A r \in Phone!Requests :
    Refused(r) => AttemptsSince(req[r].user, Phone!Base(r).code) >= AttemptsAllowed

\* A code sent by SMS is refused untried only after that, or after a right activation code,
\* which removes the attempts, and no attempts count as all of them
\* (verification_service.go:354-367, 503).
RefusedForAReason ==
  \A r \in Phone!Requests : Refused(r) =>
    LET u == req[r].user
        c == Phone!Base(r).code IN
      AttemptsSince(u, c) >= AttemptsAllowed \/ ActivationsSince(u, c, "ok") # {}

\* The version with which u has signed up last.
SignedUp(u) ==
  LET versions == {signups[r].base + 1 : r \in SignupsOf(u)} IN
    IF versions = {} THEN 1 ELSE CHOOSE i \in versions : \A j \in versions : j <= i

\* u has entered a right code of one kind or the other since then, or was active before
\* and has never signed up again.
Earned(u) ==
  \/ \E r \in VerifiesOf(u, "ok") : req[r].base >= SignedUp(u)
  \/ \E a \in ActivationsOf(u, "ok") :
       act[a].base >= SignedUp(u) /\ act[a].code \notin VerifyingEvents
  \/ \E r \in SignupsOf(u) :
       signups[r].base + 1 = SignedUp(u) /\ signups[r].event \in Events \ VerifyingEvents
  \/ SignupsOf(u) = {} /\ log[u][1] # Absent

\* When everybody has to be verified and no captcha stands in for the phone, an active
\* UserSignup without verification-required has been verified since the user last signed up,
\* by phone or by the code of an event that asks for no phone: not by what was verified before
\* the deactivation that was signed up from, nor by the code of an event that asks for a phone
\* (signup_service.go:413-424, verification_service.go:397, 502).
VerifiedSinceSignup ==
  VerificationEnabled /\ ~CaptchaEnabled /\ ExcludedUsers = {} =>
    \A u \in Users : LET s == Latest(u) IN
      s # Absent /\ s.states \cap {"verification-required", "deactivated"} = {} => Earned(u)

===============================================================================
