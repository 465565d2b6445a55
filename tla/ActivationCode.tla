---------------------------- MODULE ActivationCode ----------------------------
(***************************************************************************)
(* VerifyActivationCode of pkg/verification/service/verification_service.go *)
(* and the SocialEvents it goes by (pkg/signup/socialevent.go).            *)
(*                                                                         *)
(* A user without a UserSignup is signed up with the code, by the Signup   *)
(* of the module SignupService.  For another one the handler checks the    *)
(* attempts made so far and then, under PollUpdateSignup, reads the        *)
(* UserSignup and the event, and writes an approval or one attempt more.   *)
(***************************************************************************)
EXTENDS SignupService

CONSTANTS
  MaxActivations,   \* bound: activation codes that users enter
  AttemptsAllowed,  \* Verification().AttemptsAllowed()
  Capacity,         \* Capacity[e]: Spec.MaxAttendees
  Opens,            \* Opens[e]: Spec.StartTime
  Closes            \* Closes[e]: Spec.EndTime

ASSUME ActivationCodeAssumption ==
  /\ MaxActivations \in Nat /\ AttemptsAllowed \in Nat
  /\ MaxRequests >= MaxActivations  \* every activation may become a sign-up
  /\ Capacity \in [Events -> Nat]
  /\ Opens \in [Events -> Nat] /\ Closes \in [Events -> Nat]

VARIABLES
  act,     \* act[a]: where the handler of the activation a is, and its local variables
  counted  \* counted[e]: Status.ActivationCount of e, which the host operator updates

activationVars == <<act, counted>>
allVars == <<log, seen, banned, now, req, draft, act, counted>>

Activations == 1 .. MaxActivations

ActivationAnswers == {"ok", "tooMany", "invalid", "internal", "handedOn"}

Activation == [pc       : {"idle", "signUp", "try", "put", "done"},
               at       : Opt(Replicas),
               user     : Opt(Users),
               code     : Opt(EventCodes),  \* None: an empty one
               base     : Nat,          \* version read when the request arrived
               copy     : Nat,          \* version read by the current try
               approve  : BOOLEAN,      \* whether the current try approves the user
               attempts : Nat,          \* attemptsMade
               error    : Opt({"invalid"}),  \* errToReturn
               tries    : Nat,          \* failed updates
               answer   : Opt(ActivationAnswers)]

NoActivation == [pc |-> "idle", at |-> None, user |-> None, code |-> None, base |-> 0, copy |-> 0,
                 approve |-> FALSE, attempts |-> 0, error |-> None, tries |-> 0, answer |-> None]

ASSUME ActivationNoneAssumption == None \notin ActivationAnswers

Active(a) == act[a].pc \notin {"idle", "done"}

-----------------------------------------------------------------------------
(* Social events                                                           *)

\* The UserSignups that attend e.
Attendees(e) ==
  {u \in Users : LET s == Latest(u) IN
     s # Absent /\ s.event = e /\ "deactivated" \notin s.states}

\* The activation count in the caches; without a lag, the operator keeps up too.
ActivationCount(e) == IF FreshReads THEN Cardinality(Attendees(e)) ELSE counted[e]

\* Mutated: one attendee too many.
RoomForOneMore(e) == ActivationCount(e) <= Capacity[e]

Room(e) == ActivationCount(e) < Capacity[e]

\* The events GetAndValidateSocialEvent lets pass.
Valid == {e \in Events : Room(e) /\ Opens[e] <= now /\ now <= Closes[e]}

\* The host operator counts the attendees of e.
OperatorCounts(e) ==
  /\ counted[e] # Cardinality(Attendees(e))
  /\ counted' = [counted EXCEPT ![e] = Cardinality(Attendees(e))]
  /\ UNCHANGED <<storeVars, signupVars, act>>

-----------------------------------------------------------------------------
(* VerifyActivationCode                                                    *)

Attempts(s) == IF s.attempts = None THEN 0 ELSE s.attempts

\* Mutated: one attempt too many.
AttemptsExceeded(s) == Attempts(s) > AttemptsAllowed

AttemptsUsedUp(s) == Attempts(s) >= AttemptsAllowed

MayActivate(a) ==
  /\ act[a].pc = "idle"
  /\ \A b \in Activations : b < a => act[b].pc # "idle"
  /\ Cardinality({b \in Activations : Active(b)}) + Cardinality({r \in Requests : InFlight(r)})
       < MaxInFlight

\* The request arrives and the handler reads the UserSignup.
ActivateStart(a, p, u, c) ==
  LET s == Cached(p, u)
      Begin(pc, n, answer) ==
        act' = [act EXCEPT ![a] = [NoActivation EXCEPT !.pc = pc, !.at = p, !.user = u, !.code = c,
                                                       !.base = seen[p][u], !.attempts = n,
                                                       !.answer = answer]] IN
    /\ MayActivate(a)
    /\ IF s = Absent THEN Begin("signUp", 0, None)
       ELSE IF AttemptsUsedUp(s) THEN Begin("done", 0, "tooMany")
       ELSE Begin("try", Attempts(s), None)
    /\ UNCHANGED <<storeVars, signupVars, counted>>

\* There was no UserSignup: Signup, which reads it again, goes on with the request.  It
\* refuses a code that is not valid and counts no attempt; an empty one is none to it.
ActivateUnknown(a, r, t) ==
  /\ act[a].pc = "signUp"
  /\ SignupStart(r, act[a].at, act[a].user, t, act[a].code)
  /\ act' = [act EXCEPT ![a].pc = "done", ![a].answer = "handedOn"]
  /\ UNCHANGED counted

\* The answer, and nothing left of the local variables but what it was decided on.
Answered(a, answer) ==
  [act[a] EXCEPT !.pc = "done", !.copy = 0, !.attempts = 0, !.tries = 0, !.answer = answer]

\* Mutated: a failed update is tried again without end.
ActivateRetryForever(a) == act' = [act EXCEPT ![a].pc = "try"]

\* Mutated: the error of the last try is only logged.
ActivateRetrySilently(a) ==
  IF act[a].tries + 1 < MaxTries
  THEN act' = [act EXCEPT ![a].pc = "try", ![a].tries = @ + 1]
  ELSE act' = [act EXCEPT ![a] = Answered(a, IF @.error = None THEN "ok" ELSE @.error)]

\* The write of a try failed: the next try, or the error of an earlier one.
ActivateRetry(a) ==
  IF act[a].tries + 1 < MaxTries
  THEN act' = [act EXCEPT ![a].pc = "try", ![a].tries = @ + 1]
  ELSE act' = [act EXCEPT ![a] = Answered(a, IF @.error = None THEN "internal" ELSE @.error)]

\* One try reads the UserSignup and the event.  attemptsMade and errToReturn outlive it.
ActivateTry(a) ==
  LET p == act[a].at
      u == act[a].user IN
    /\ act[a].pc = "try"
    /\ IF Cached(p, u) = Absent THEN ActivateRetry(a)
       ELSE IF act[a].code \in Valid
       THEN act' = [act EXCEPT ![a].pc = "put", ![a].copy = seen[p][u], ![a].approve = TRUE]
       ELSE act' = [act EXCEPT ![a].pc = "put", ![a].copy = seen[p][u], ![a].approve = FALSE,
                               ![a].attempts = @ + 1, ![a].error = "invalid"]
    /\ UNCHANGED <<storeVars, signupVars, counted>>

\* Mutated: a wrong code is not counted.
ActivationWrittenUncounted(a) ==
  LET s == log[act[a].user][act[a].copy] IN
    IF act[a].approve THEN [WithEvent(s, act[a].code) EXCEPT !.attempts = None] ELSE s

\* The version a writes.
ActivationWritten(a) ==
  LET s == log[act[a].user][act[a].copy] IN
    IF act[a].approve
    THEN [WithEvent(s, act[a].code) EXCEPT !.attempts = None]
    ELSE [s EXCEPT !.attempts = act[a].attempts]

\* Mutated: an update that does not insist on the version read.
ActivationWritableAnyway(a) == Latest(act[a].user) # Absent

ActivationWritable(a) == IsCurrent(act[a].user, act[a].copy)

ActivatePut(a) ==
  /\ act[a].pc = "put"
  /\ ActivationWritable(a)
  /\ NewVersion(act[a].user, ActivationWritten(a))
  /\ act' = [act EXCEPT ![a] = Answered(a, IF @.error = None THEN "ok" ELSE @.error)]
  /\ UNCHANGED <<banned, now, signupVars, counted>>

\* The resource has a newer version, or is gone.
ActivateConflict(a) ==
  /\ act[a].pc = "put"
  /\ ~ActivationWritable(a)
  /\ ActivateRetry(a)
  /\ UNCHANGED <<storeVars, signupVars, counted>>

\* The API server fails, or writes and its answer is lost.
ActivatePutError(a) ==
  /\ WriteErrors
  /\ act[a].pc = "put"
  /\ \/ UNCHANGED <<log, seen>>
     \/ ActivationWritable(a) /\ NewVersion(act[a].user, ActivationWritten(a))
  /\ ActivateRetry(a)
  /\ UNCHANGED <<banned, now, signupVars, counted>>

-----------------------------------------------------------------------------

\* A UserSignup that waits for its verification.
Waiting(t) == NewSignup(t, None, <<TRUE, None>>)

ActivationInit ==
  /\ log \in [Users -> {<<Absent>>} \cup UNION {{<<Waiting(t)>>, <<Inactive(t)>>} : t \in Claims}]
  /\ seen = [p \in Replicas |-> [u \in Users |-> 1]]
  /\ banned = {}
  /\ now = 0
  /\ req = [r \in Requests |-> Idle]
  /\ draft = [r \in Requests |-> None]
  /\ act = [a \in Activations |-> NoActivation]
  /\ counted = [e \in Events |-> 0]

ActivationHandle(a) ==
  \/ ActivateTry(a)
  \/ ActivatePut(a)
  \/ ActivateConflict(a)
  \/ ActivatePutError(a)
  \/ \E r \in Requests, t \in Claims : ActivateUnknown(a, r, t)

ActivationArrive(a) ==
  \E p \in Replicas, u \in Users, c \in Opt(EventCodes) : ActivateStart(a, p, u, c)

ActivationFinished ==
  /\ \A a \in Activations : ~Active(a)
  /\ \A r \in Requests : ~InFlight(r)
  /\ UNCHANGED allVars

ActivationNext ==
  \/ \E a \in Activations : ActivationArrive(a) \/ ActivationHandle(a)
  \/ \E r \in Requests : SignupHandle(r, Valid) /\ UNCHANGED activationVars
  \/ StoreNext /\ UNCHANGED <<signupVars, activationVars>>
  \/ \E e \in Events : OperatorCounts(e)
  \/ ActivationFinished

ActivationFairness == \A a \in Activations : WF_allVars(ActivationHandle(a))

ActivationSpec == ActivationInit /\ [][ActivationNext]_allVars /\ ActivationFairness

-----------------------------------------------------------------------------
(* Invariants                                                              *)

\* A user who is told that the activation code was taken attends the event: an update
\* that lost against another one is done again on what is there
\* (verification_service.go:486-521).
OkMeansAttending ==
  \A a \in Activations : act[a].answer = "ok" =>
    \E i \in act[a].base + 1 .. Len(log[act[a].user]) :
      LET s == log[act[a].user][i] IN
        /\ s # Absent
        /\ s.event = act[a].code
        /\ "deactivated" \notin s.states
        /\ act[a].code \notin VerifyingEvents => "approved" \in s.states

\* An event is attended by no more users than it has room for
\* ("checks that the SocialEvent has enough capacity to approve the user",
\* verification_service.go:467).
CapacityHolds == \A e \in Events : Cardinality(Attendees(e)) <= Capacity[e]

\* Wrong codes of u that were answered as such; those handed on to Signup are not.
WrongCodes(u) == {a \in Activations : act[a].user = u /\ act[a].answer = "invalid"}

\* A user who has a UserSignup, and none of whose activation codes has been right yet, has
\* no more wrong ones looked at than are allowed (verification_service.go:578-582).  The
\* codes of a user without a UserSignup go to Signup, which counts none of them.
AttemptsLimited ==
  \A u \in Users :
    (\A a \in Activations : act[a].user = u => ~act[a].approve)
      => Cardinality(WrongCodes(u)) <= AttemptsAllowed

-----------------------------------------------------------------------------
(* Action properties                                                       *)

\* Activation a writes a new version.
ActivationWrites(a) ==
  LET u == act[a].user IN act[a].pc = "put" /\ act'[a].pc # "put" /\ log'[u] # log[u]

\* An activation undoes nothing that others did to the UserSignup while its handler was
\* deciding: an approval, a verification, a rejection, a new owner's claims
\* (verification_service.go:488-509).
OthersKept ==
  [][\A a \in Activations : ActivationWrites(a) =>
       LET old == Latest(act[a].user)
           new == Latest(act[a].user)' IN
         /\ old # Absent
         /\ \A k \in DOMAIN old \ {"states", "event", "attempts"} : new[k] = old[k]
         /\ "verification-required" \in new.states => "verification-required" \in old.states
         /\ old.states \cap {"approved", "rejected"} \subseteq new.states]_allVars

-----------------------------------------------------------------------------
(* Liveness                                                                *)

\* Every activation code is answered or handed on to Signup, though the UserSignup may be
\* changed or deleted under every try (signup.go:75-98).
EveryActivationAnswered ==
  \A a \in Activations : act[a].pc # "idle" ~> act[a].pc = "done"

===============================================================================
