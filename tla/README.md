# Verification of the registration service

The registration service of the Developer Sandbox lets a user sign up, verifies
the user's phone or activation code, and proxies the user's requests to the
member clusters. It keeps no database of its own: its state is the
`UserSignup` resources of the host cluster, which the host operator and the
administrators write too, and which the service reads through informer caches.
This directory holds TLA+ modules that model the service, TLC configurations
that check them on small instances, and TLAPS proofs for every instance.

## The system

| Component | Code | State | Operations | What makes it correct |
|---|---|---|---|---|
| Host cluster client | `cmd/main.go` newCachedClient | one informer cache per replica | Get, List (cache); Create, Update (API server, refused when based on an old version) | reads may be old, writes never are |
| Phone verification | `pkg/verification/service` InitVerification, VerifyPhoneCode | phone label; code, expiry, attempts, counter, timestamp, lookup annotations; states of the UserSignup | send a code, verify a code | limits hold; only a code sent to the user verifies the user; code, expiry and counters stay together |
| Update with retry | `pkg/signup/signup.go` PollUpdateSignup | the tries of a request | re-read, apply, write, again | what is answered ok is written; every request ends |
| Activation codes | VerifyActivationCode, `pkg/signup/socialevent.go` | attempts annotation, social-event label, the event's activation count | verify an activation code | capacity, attempts |
| Signup service | `pkg/signup/service` | the whole UserSignup | create, reactivate, read and audit against the token's claims | an active or rejected UserSignup is left alone; a rejection is recorded |
| Registration as a whole | the three above and the signup service over one UserSignup | what they share: attempts, states, social event | every way through sign-up, phone codes and activation codes | no flow gives away what another one guards |
| Signup controller | `pkg/controller/signup.go` | none | HTTP handlers | one answer per request |
| Token parser and key manager | `pkg/auth`, `pkg/middleware/jwt_middleware.go` | keys, the default parser (`sync.Once`) | fetch the keys once, find the key of a token | a token is refused only when its key came later |
| Proxy | `pkg/proxy` | none but the caches it reads | CORS, authentication, workspace and cluster resolution, impersonation | a request reaches only a workspace its user has access to |
| Workspace lister | `pkg/proxy/handlers` | none | list workspaces, bindings and roles | nearest binding wins |
| Namespaces reset | `pkg/namespaces` | the user's namespaces | delete them | partial failure is reported |
| Start-up and graceful shutdown | `cmd/main.go`, `pkg/server` | the stage of main, four HTTP servers | start, listen, fail, shut down | a shutdown ends, and lets requests finish |
| Health check | `pkg/controller/health_check.go` | none | asks the proxy of the same process | a dead server is replaced |
| CORS, username lookup | `pkg/proxy/cors.go`, `pkg/controller/usernames.go` | none | headers; a lookup by name | - |
| Configuration | `pkg/configuration` | cached ToolchainConfig | getters | constants of the modules |
| Senders, lookup, captcha | `pkg/verification/sender`, `captcha` | none | calls of external services | their answers are nondeterministic |

Components meet in the UserSignup: phone verification, activation codes, signup,
the host operator and administrators all write it, from different replicas, each
having decided on a version that may be old. That is where the behaviours that are
hard to test are: a handler reads a cache that lags, talks to other services, and
only then writes its decision over whatever the resource holds by then.

`PROJECT.json` lists the hazards with their lines and the properties that cover
them.

## Modules

- `HostStore`: the UserSignups as the API server keeps them and as the caches show
  them. `log[u]` holds every version of the UserSignup of `u` (its index is the
  resourceVersion, the value `Absent` means deleted); `seen[p][u]` is the version
  in the cache of replica `p`. `NewVersion` is a successful write, `IsCurrent` the
  version check of the API server, `InformerSync` one watch event. The other
  writers are outside this repository and are environment actions, as liberal as
  the service could observe them: approval, deactivation, manual approval,
  deletion, bans of phones and of users, and the conditions, which the operator
  brings up to date some time after the change they tell of (`OperatorReports`).
  Labels, annotations, states, claims and conditions are fields of one record;
  `Apply` is what the doUpdate closures do to it.
- `PhoneVerification`: InitVerification and VerifyPhoneCode as concurrent request
  handlers. `req[r]` is where the handler of request `r` is, and its local
  variables; `writes[r]` is what it has decided to assign (annotationValues,
  labelValues, unsetVerificationRequired). A handler takes its snapshot
  (`InitStart`, `VerifyStart`), decides (`InitCheckPhone`, `InitLookup`, `InitSend`,
  `VerifyDecide`), then updates (`Get`, `Put`, `PutConflict`, `PutError`, retried as
  PollUpdateSignup does). `sms` and `lookups` record the calls of the external
  services, so that properties can relate what is stored to what was sent.
- `SignupService`: Signup and GetSignup as concurrent request handlers over the
  same store. `req[r]` is where the handler of request `r` is and what it holds;
  `draft[r]` is the UserSignup it is about to write, or has read and audited.
  Signup reads the cache (`SignupStart`), asks the account verifier
  (`SignupVerify`), checks the bans and builds the UserSignup (`SignupBuild`), and
  creates or updates it with one write (`SignupWrite`, `SignupWriteError`), which it
  does not retry. GetSignup reads and audits (`GetRead`) and writes if the claims
  changed (`GetPut`, `GetConflict`, `GetPutError`), under PollUpdateSignup;
  `Status` is its answer by the conditions.
- `ActivationCode`, which extends `SignupService`: VerifyActivationCode. `act[a]` is
  the handler of the activation `a`. The code of an unknown user is handed on to
  Signup (`ActivateUnknown`), which goes on as a sign-up request, refuses a code that names no
  event (`NoEvent`) or one that is not open before anything is written, and counts nothing;
  any other one is handled by `ActivateTry`,
  `ActivatePut`, `ActivateConflict` and `ActivatePutError`. `counted[e]` is the
  activation count of an event, which the host operator updates after the fact.
- `ProxyRequest`: one request through the proxy and its workspace lister. The handlers
  write nothing and share nothing, so one request is enough; what they can do wrong is
  to decide on several reads of caches that change in between. `world` is what the
  caches hold (accounts, home spaces, places of spaces, bindings, requests for bindings,
  bans, members), each action of the handler reads it once, and the environment changes
  one field at a time. An account is what GetSignup makes of a UserSignup: absent,
  active or failing. `EnsureUserIsNotBanned` routes the request: to the home workspace
  (`HomeSignup`, `PickSpace`, `HomeTarget`, `FindMember`, then the list), to the list
  (`ListSignup`, `ListBindings`, `ListSpace`, `ListDone`), or to a workspace named in the
  path (`CheckUser`, `CheckSpace`, then as the lister's get: `WorkspaceSignup`,
  `WorkspaceSpace`, then level by level, as ListForSpace goes, `LevelBindings` and
  `ParentSpace`, one read each, then `WorkspaceRequests`, and for the proxy
  `ClusterAccess`, `CompliantName`, `SpaceTarget`, `FindMember`). `during`, a history
  variable, collects the worlds since the request arrived, and the properties say in
  which of them something was so.
- `PhoneGate`: what the phone verification promises, without requests, versions, caches,
  retries and crashes: codes are sent, stored and entered, and a user passes with a stored
  one. `GateOf(u)` in `PhoneVerification` is what has become of `u` (stage and current code
  from the latest version, what was stored from all of them, what was sent from `sms`, what
  was entered from the requests); `ImplementsGate` is the specification of the gate under
  this mapping.
- `Registration`: `PhoneVerification` and `ActivationCode` (with `SignupService`) as two
  instances over one `HostStore`. A step is one of one component, or of the store, and
  leaves the variables of the other alone. Its properties are about what the flows share
  without knowing of each other: the attempts annotation, the states, the event.
- `ServiceLifecycle`: one process. `main` goes through the stages of the start
  (`SyncCaches`, `LoadKeys`, `StartProxy`, `StartRegistrationService`, or `Panic`), waits,
  and hands the four servers to gracefulShutdown (`BeginShutdown`, `CloseListener`,
  `ServerStopped`, `EndMain`). The goroutine of a server listens or fails (`Listen`); a
  request arrives, is authenticated against the keys of the token parser and is answered.
  Kubelet, SSO and the clock are the environment; a `Restart` begins with nothing.
- `NamespacesReset`: ResetNamespaces, one action per call (`GetSignup`, `GetSpace`,
  `NextMember`, `GetNSTemplateSet`, `Delete` of one namespace, or its failure). The
  operators of the host and of the member clusters go on meanwhile: a namespace ends,
  is created again as another instance, is reported; the Space is moved or removed; a
  cluster leaves the cache.
- `MCPhoneVerification`, `MCSignupService`, `MCActivationCode`, `MCProxyRequest`,
  `MCRegistration`, `MCNamespacesReset`: symmetry and constant functions for TLC.
- `HostStore_proofs` (lemmas about the store), `PhoneVerification_proofs` (types, limits and
  codes, whatever overlaps, and the refinement of `PhoneGate`),
  `PhoneVerificationAnswers_proofs` (what answers tell; requests handled one at a time),
  `ActivationCode_proofs` (of `SignupService` and of `ActivationCode`, which extends it),
  `Registration_proofs` (which takes the two before over to its instances),
  `ProxyRequest_proofs`, `NamespacesReset_proofs`, `ServiceLifecycle_proofs`: the proofs.

Four history variables record what no code keeps, for properties to refer to: `during`
(the worlds since a request arrived), `quiet` (a reset has met no failing call, and
its user, Space, cluster and NSTemplateSet have stayed in order),
`steady` (the keys published ever since the process began), and `seen` in a reset's record
(the instances it found). No guard reads them.

Codes are model values drawn fresh (a code of six random digits that repeats is left
out). A phone stands for its hash, and a user for the e-mail by which it is banned.
`Claims` are whole sets of identity claims; a request without a context, as the proxy
makes them, has the token `None`, is not audited, and does not look at completeness.
Captcha scores are `low` or `ok` against the required score. `tries` counts the failed
updates.

Operators marked *Mutated* are faulty variants of the definition below them. No
specification uses them: substituted for the original, each makes the property it
is listed with in `PROJECT.json` fail, which shows that the property can fail.

## Runs

| Run | Question | Bounds |
|---|---|---|
| `phone_concurrent` | overlapping requests of one user on a lagging cache, phone lookup enabled: is what is stored consistent, is a phone that gets a message looked up (or had its label written by a request refused for the daily limit), and is verification only by the user's own code? | 3 requests, 2 in flight, 2 phones, 2 codes, 1 attempt, 1 message a window; a window is over, and a code expired, with the next tick |
| `phone_sequential` | requests of two users one at a time on caches that do not lag, with bans, approvals and deactivations: do the limits mean what the comments say, is a phone refused only when another user has it, is a verified user left alone? | 4 requests, 2 codes, 2 ticks (two windows) |
| `phone_faults` | failing writes, lost answers, crashes, deletion, an administrator, the lookup: do the handlers implement `PhoneGate`, is what was answered ok written, does nothing cleared come back, does no handler act on a UserSignup that is not there (`TypeOK`), is every request answered? | 2 requests, 2 tries |
| `signup_concurrent` | overlapping Signup and GetSignup requests with two tokens on a lagging cache, failing writes, lost answers, bans, the operator at work: is what was answered on record, is an audit never lost, what may a sign-up overwrite, is the account verifier left alone after a rejection, is every request answered? | 2 requests, 5 versions |
| `activation_concurrent` | overlapping activation codes of one user, failing writes, operator and administrator at work, deletion: does ok mean that the event was joined, is nothing of others' undone, is every code answered or handed to Signup? | 2 activations, 2 attempts, 1 seat |
| `activation_sequential` | codes of two users one at a time before, during and after an event, or naming no event, an activation count that is up to date, captcha, approvals by the operator that make tries conflict: are the attempts of a user who has a UserSignup what the comment says, are there never more attendees than seats? | 4 activations, 2 attempts, 1 seat, 2 ticks |
| `registration_sequential` | sign-ups, phone codes and activation codes of one user in every order, deletion, an event that asks for a phone and one that does not: are the guesses of a user who has a UserSignup bounded over both kinds of code, is a code refused only for a reason, is an active user verified since the last sign-up? | 3 phone requests, 3 codes, 2 activations, 2 sign-ups, one at a time |
| `registration_attempts` | a disagreement with a comment of the code; see the findings below | as above, one event, which asks for a phone |
| `proxy_requests` | any request while the caches change: is it forwarded only with rights that were held meanwhile, is nobody refused who had them all the time by the same binding, is the list of workspaces right, and without changes, do the many reads come to one verdict? | 1 user, a space in a space, 2 members, 2 changes, all initial home spaces and bindings |
| `service_lifecycle` | a process that starts, fails, is told to stop and starts again while a request is under way and the SSO rotates its keys: does a shutdown end at any stage but the one that fetches the keys, are dead servers replaced, and are tokens refused only after a rotation? | 2 keys, 1 request, 2 starts, timeout of 1 tick, every fault |
| `service_shutdown` | a disagreement with the comments of the code; see the findings in `PROJECT.json` | smallest that shows it |
| `namespaces_reset` | two overlapping resets of one user while calls fail and the operators create, move and remove: has what was accepted been reset, is a reset that nothing but the other one disturbs accepted once it has found namespaces, is only the target cluster touched? | 2 resets, 2 member clusters, 2 namespaces, 1 instance of each |

Three requests are enough for the interleavings of interest: two that overlap and one that
created or uses what they race for; for sign-ups two, since the UserSignup may be there at
first. Limits of one attempt and one message put every boundary within reach. `MaxTries` is 2
instead of 5: a first failure, a retry that succeeds and a retry that fails all occur. A window
and the life of a code are one tick, and none in `phone_concurrent`, so that both expire. One
replica is enough for a race on stale caches: a handler on a second replica whose cache is
older behaves like one on the first that started earlier. `MaxVersions` bounds the operator's
reports, which could go to and fro for ever; the versions that handlers write are bounded by
the requests.

One user is enough for the proxy, since no step of a request reads what belongs to
another one but the bindings of the public viewer, which is a name of its own. Two
spaces give a binding that is inherited and one that is not; two changes are what it
takes to give a right up and get it back, or to exchange one for another.

In `registration_sequential` three codes are one that is guessed at, one that replaces it
and one sent after a deletion or a new sign-up. In `service_lifecycle` the second start is a
process that loads other keys than the first. In `namespaces_reset` two resets find the same
namespaces or, after a move, others, and one instance of a namespace gives a reset the live,
the ended and the missing one; what is proved about it holds for any number.

Some properties hold only of requests handled one at a time, or on caches that do not
lag; the idealisation `FreshReads`, which makes the caches and the activation count
follow every write at once, says so in the configuration:

- `CounterCountsMessages`, `AttemptsPerCode` and `GuessesBounded` fail when requests
  overlap: the code computes the counter of messages and the attempts from its snapshot
  and writes them over whatever is stored by then
  (`verification_service.go:182` and `:387`). What does hold under any interleaving is
  that the stored counters stay within the limits. Both are proved, each under what it
  needs (see Proofs).
- `VerifierNotAskedAgain` is about replicas whose cache has caught up with the UserSignup: on
  one that lags, a second request of a user who was just rejected reaches the account
  verifier again.
- `RefusedForAReason` and `VerifiedSinceSignup` are checked of requests handled one at a time
  too: an overlapping code or sign-up writes over what the other one has decided on.
- `CapacityHolds` needs an up-to-date count: users who activate before the host operator
  has counted are all let in, up to any number.
- `AttemptsLimited` holds of codes entered one at a time, of a user who has a UserSignup. When
  an update loses a conflict, `attemptsMade`, which is declared outside the retried closure
  (`verification_service.go:497`), counts one wrong code once for each try, and the user is
  locked out before the attempts are used up.

Two runs expect a violation, the findings of the project. `service_shutdown`:
gracefulShutdown derives the context of its timeout from the context of the signal
handler, which is cancelled by then, so that Shutdown returns at once and main cuts off
the requests under way before the timeout has begun (`main.go:153`). The same context
is why `ShutdownEnds` needs no time at all. `registration_attempts`: a right activation code
removes the attempts annotation (`verification_service.go:503`), also when its event asks for
a phone, so that a code sent by SMS is still to be entered. VerifyPhoneCode takes the missing
annotation for as many attempts as are allowed (`:362`) and refuses that code untried, with
"too many verification attempts", though no wrong one was entered: the comment at `:366` says
who is refused, and the one at `:356` that the annotation is not expected to be missing. The
user gets on with another message. `RefusedForAReason`, which holds, says that there is no
other way to be refused early.

The models show more that is stated by no property, because nothing in the repository
says otherwise:

- the annotations of a code are written although the message could not be sent;
- the phone of a request refused for the daily limit is written all the same, and since
  performPhoneLookup skips the phone of the label (`verification_service.go:246`), a
  message goes to it unlooked-up once the counter has been reset: `MessageNeedsLookup` names
  this way around the lookup, and says that there is no other;
- a user rejected by the lookup of a second phone can still verify with the code that
  was sent to the first;
- of two sign-ups of a deactivated user that overlap with the operator's report, the second
  one overwrites the UserSignup that the first has reactivated
  (`signup_service.go:373`): the condition still says Deactivated;
- a sign-up that a ban or a wrong code turns away records no rejection, even when the
  account verifier has just rejected the user;
- when a UserSignup is deleted between two tries of GetSignup's audit, the answer is
  made from the object of the first try;
- when the activation code of an event that asks for a phone is entered while a code sent by
  SMS is being guessed at, activation codes count again from nothing, and the code sent by SMS
  can be compared with more wrong ones than are allowed: `AttemptsPerCode` of
  `PhoneVerification` does not carry over to `Registration` (with 3 attempts: 2 wrong phone
  codes, a right activation code, a wrong one, which stores 1, and 2 more wrong phone codes).
  `GuessesBounded` is what does hold: each right code is worth one more round of attempts, and
  no more;
- a user without a UserSignup guesses activation codes without limit: VerifyActivationCode
  hands every code on to Signup (`verification_service.go:476`), which refuses one that is not
  valid before it creates anything (`signup_service.go:171`), so that there is nothing to count
  attempts on. `AttemptsLimited` and `GuessesBounded` are about users who have a UserSignup;
- two resets of a user that overlap can make one fail: the first one deletes, the operator
  reports, and the second finds no namespace in the NSTemplateSet and answers 400
  (`namespaces_manager.go:112`). `QuietResetSucceeds` is about what comes after that read;
- a process that is told to stop while it waits for the keys of the SSO need not end, since
  the call has no timeout and does not know of the signal (`keymanager.go:144`);
- a user whose binding moves from one level of a workspace to another while the request is
  handled, so that there is one at every moment, may be refused or replaced by the public
  viewer, since the levels are listed one after the other (`spacelister_get.go:158`);
- a deactivated user who enters the code of an event that asks for a phone becomes active
  without verification-required when the UserSignup was verified before, and a new sign-up
  resets the daily counter of messages with the rest of the UserSignup;
- a user deactivated between two reads of a proxied request is taken for an unknown one,
  for whom the public viewer stands in (`proxy.go:423`);
- a user who has only asked for a binding (a SpaceBindingRequest not yet served) to a
  workspace that is open to the community is impersonated as themselves and not as the
  public viewer, before the binding exists (`WorkspaceRights` allows it).

Fairness is weak fairness of each request's own handler and nothing else: the goroutine of an
HTTP request keeps running. No request has to arrive, no cache to catch up, no external service
to succeed. In `ServiceLifecycle` it is weak fairness of main except where it waits for the
keys (the SSO may never answer), of the goroutines that listen, of the clock and of the
kubelet's probe (an assumption about the deployment, where the health endpoint is the liveness
probe); handlers get none there, since a watch through the proxy lasts as long as its client
wants. No property of `NamespacesReset` needs fairness. The runs of `ServiceLifecycle` do not
check for deadlock, because a process may stop for good. `Finished` lets a behaviour stutter
when all requests of an instance are done, so that a deadlock would be reported.

## Proofs

For all values of the constants (any number of users, replicas, requests, codes,
phones, limits), under the named assumptions of `HostStore` and
`PhoneVerification`:

- `TypeCorrect`: `TypeOK`, which includes that the versions a handler holds exist
  and are not of a deleted UserSignup. The argument goes action by action; its
  core is that versions are only added (`LogGrows`), so a version number held across
  other actors' steps keeps its meaning.
- `Inductive`: `IInv`. `LimitsHold`, `StoredCodeWasSent` and `CodeComplete` are not
  inductive: a handler writes assignments it decided on long ago. `IInv` adds
  `UpdatesHold`: what each handler is about to write keeps these true of *any*
  version that has them, because code and expiry are assigned together, counters are
  within their limits, and a handler that sends a code also resets the attempts.
- `LimitsAlwaysHold`, `StoredCodeWasAlwaysSent`, `CodeAlwaysComplete` follow.
- `Refinement`: `ImplementsGate`, that is `Spec => Gate!Spec`, with every step of every
  handler mapped to one step of the gate or to none. Type correctness and `IInv` are not
  enough: an update must also be *one* step of the gate, so `GateInv` adds that an update
  in flight uses up the code its user has entered, or replaces the code, or rejects, and
  never two of these (`EffectsHold`), that no UserSignup is both approved and to be verified
  (`StagesHold`), and that a request not yet begun has entered no code (`NothingAsked`).
  `UpdateStep` is the heart of it: an update decided on long ago, applied to whatever
  version is the latest, is still one step of the gate.
- `GateAlwaysHolds` (of the abstract gate): no code is sent to two users, and what is stored
  for a user was sent to that user. With `Refinement` it holds of the phone verification.
- `VerifiedOnlyByOwnCode` and `ClearedAlwaysStaysCleared`: action properties from the
  same invariant; `WhoWrites` reduces a new version to the update of a handler,
  applied to the latest version, or to one of the environment's writes.

In `PhoneVerificationAnswers_proofs`, without any further assumption:

- `OkAlwaysMeansWritten` and `RefusedPhoneWasAlwaysTaken`. An answer is decided on long
  before it is given, so the invariant `Answered` says of every request what its update would
  make of any version (`OkUpdate`), and of an answered one what is on record or who had the
  phone (`OkWritten`, `Taken`). Versions, messages, bans and lookups are never taken back
  (`Grows`), which keeps this true for as long as anybody may ask.
- `MessageAlwaysNeedsLookup`. `LookupInv` says of every phone in any version, and of every
  phone a handler is about to send to, that it is known: looked up, exempt, or left by a request
  refused for the limit. It needs every version, not just the latest, because the snapshot that
  the lookup is skipped for may be any of them.

And of requests handled one at a time on caches that do not lag (`Sequential`, which is
`FreshReads` with `MaxInFlight <= 1`):

- `VerifiedStaysSettled`, if no administrator approves by hand, who may do so between the
  message and the update and so get the code stored in a verified UserSignup. `SettledInv`:
  while an InitVerification is under way its user is to be verified, and who is verified has
  no code.
- `AttemptsAlwaysPerCode`, through lost answers, crashes and deletions. `CountInv` relates
  the set of requests that were answered "invalid" to the attempts of the version that has
  the code, and to the attempts that the update in flight is about to write; the lemmas about
  cardinality are few (`Fewer`, `OneMore`).
- `CounterAlwaysCountsMessages`, under `Unhindered`: besides, no write fails and nothing
  crashes, because a message that went out before a lost write is never counted, and nobody
  else writes a UserSignup that is to be verified, because an update that has used up its tries
  is lost too. `TallyInv` relates counter and timestamp to the messages: every message since
  the timestamp is counted and within its window (`Tallies`), except that the one just sent
  may still be owed (`Owes`), and then the update in flight settles it.

For all values of the constants of `SignupService` (in `ActivationCode_proofs`):

- `TypeCorrect`, `AnswersAreWritten`, `DecisionsAreKept`: the parts of `IInv`, which is
  inductive. `AnswerMeansWritten` alone is not: that a sign-up answered "rejected" left
  a rejection on record depends on the draft having been built with it, which is what
  `DecisionsHold` keeps from the verifier's verdict to the write. One lemma per
  action, each reduced to the one handler that moves (`StepOK`) and to the fact that
  versions stay for everyone else (`RequestStable`).
- `OverwritesAreRight`: `OthersLeftAlone`. A write that goes through found the version
  it was decided on to be the latest (`IsCurrent`), so what `DecisionsHold` says of the
  old version holds of the one that is overwritten.
- `AuditsTakeEffect`, if no UserSignup is deleted (after a deletion between two tries the
  answer is made from the object of the first one). `AuditInv` says that a draft that has been
  audited carries the claims of the token, and that the answer was stored as such.
- `VerifierIsNotAskedAgain`, without deletions (a new UserSignup knows nothing of the rejection
  of the old one). The rejection lasts because nobody clears the state `rejected`
  (`RejectionsLast`), and a cache that has caught up shows it.

For all values of the constants of `ActivationCode` (in `ActivationCode_proofs`):

- `OkAlwaysMeansAttending` and `OthersAreKept`, under every interleaving. `ActivationInv`
  has the types of both kinds of handler, since an activation of an unknown user goes on as a
  sign-up, and says what the assignments of an activation are: an update that is only ever an
  attempt counted, or an approval with the event, applied to the version that was just read.
- `CapacityAlwaysHolds`, for codes entered one at a time with a count that is up to date, for
  finitely many users and without an administrator, whose approval makes a deactivated attendee
  attend again, over the capacity. `CapacityInv` adds `RoomLeft`: for whomever a handler is
  about to add there is a seat.
- `AttemptsAlwaysLimited`, of users who have a UserSignup, under `Undisturbed`: besides, no
  write fails and others only ban. A lost answer or a conflict counts the same code twice, and
  the others' writes are what makes conflicts. `GuessInv` relates the wrong codes of a user to
  the attempts that are stored.

For all values of the constants of `Registration` (in `Registration_proofs`):

- `TypesHold`, under every interleaving and failure: the invariants of the two components,
  `TypeOK` of phone verification and `ActivationInv`, both hold of their instances over the one
  store. A step of one component is the environment of the other: it only adds a version that
  is a UserSignup or a deletion, or none (`TypesNext`), so each component keeps its own
  invariant through the other's steps (`PhoneLeftAlone`, `SocialLeftAlone`).
- `ActiveAreVerified`, `GuessesAreBounded` and `RefusalsHaveAReason`, under `Undisturbed`:
  requests are handled one at a time on caches that do not lag, no write fails, and others only
  ban users and phones and delete UserSignups, in any order and number. Nothing else is assumed:
  any number of users, replicas, events, codes, requests and attempts, crashes, messages that
  are not sent, the phone lookup, the account verifier. What is left out is what makes a write
  conflict or its answer get lost: a code is then counted once for each try, or, when the
  tries are used up, not at all, and an administrator's approval verifies nobody.

  The argument has two halves. `Orderly` is inductive: types, caches that do not lag, at most
  one request of either component under way (`Alone`), and what that one is about to write
  follows from the version that is still the latest, unless that was deleted (`Plans`). From it
  `MovesNext` shows that each step of the whole is one of a few moves of one user: the
  UserSignup stays, is deleted, or is written; a code is sent; a wrong activation code finds
  the UserSignup gone. What is written takes in a code that was sent, missed or right, or a
  sign-up, together with the one request that is thereby answered, or leaves the code and the
  attempts as they were (or puts down all of them where none are on record). The three
  invariants are then preserved move by move, without looking at the handlers again:
  - `SinceSignup`: there is a right code after the last sign-up, if the user may be active and
    has no verification to do (the base of that code is past the version it signed up from);
  - `Counting`: the wrong codes of both kinds that were not handed on to Signup are at most the
    attempts that messages, right codes and sign-ups have granted (`Granted`) plus those
    counted on the UserSignup, which are never more than allowed; whoever has been sent a code
    not stored yet, or has an activation code still to be looked at, keeps the room for it;
  - `Excused`, of every version that holds a code and not just of the latest, since a request
    is refused by the version it has read: as many wrong codes as its attempts say have been
    entered since the code was stored, or a right activation code; and `RefusedWell`, which
    keeps this for the answers given.

For all values of the constants of `ProxyRequest` (in `ProxyRequest_proofs`; the
assumptions are that the viewer and nil are not users, spaces or members):

- `TypeCorrect`, and `RightsWereHeld`: `ForwardedWithinRights`. What a request has found
  out about its rights is spread over its steps, so the invariant `PInv` adds `Earned`,
  which says what the handler knows at each of them. It is made of facts of the form
  "this was so in some world during the request"; a change of the caches cannot take
  such a fact back (`EarnedStays`), and each step of the handler adds the fact it has
  just read, in the world of that moment.
  The bindings are read level by level, so `Listing` says of the levels that are done
  (`Gathered`): each name found was bound in some world, and if the user is not among them,
  each of these levels was without the user's binding in some world, not all in the same.
  `LineStep` is the step from one level to its parent.
- `SteadyAccessIsAlwaysForwarded`, `ListIsAlwaysRight`, `QuietIsAlwaysRight`: what must come of
  a request when something was so in all its worlds. Another world only makes such a condition
  harder to meet (`MoreWorlds`), so `CInv` says what the handler has come to for as long as the
  condition still holds: it is on the way to forward the request (`LetThrough`), the binding
  that stays being found or on a level still to be read; whatever is bound and exists is in the
  list or still to be read (`ListSoFar`); each check it is past is one the single world passes,
  and what it keeps is what this world has (`SoFar`), or what it has of the levels listed so
  far (`Read`). A step is decided by the world it reads, which is one of the request's
  (`AtHand`).

For all values of the constants of `ServiceLifecycle` (in `ServiceLifecycle_proofs`; the
assumption is that nil is neither a key, a set of keys, nor an answer), without fairness:

- `RefusalsFollowRotations`: `RefusedOnlyAfterRotation`, an action property. `LInv` says that
  the keys are there exactly while main is past the parser and hold all that the SSO has
  published ever since the process began (`KeysKept`), and that nobody listens and no request
  is under way before main has started a server or after it is gone (`NothingServed`); only
  `Authenticate` refuses (`WhoRefuses`).

For all values of the constants of `NamespacesReset` (in `NamespacesReset_proofs`; the
assumption is that nil is not a member, a list or an answer):

- `AcceptedResets`, `QuietResetsSucceed`, `OnlyTargetIsReset`: the three properties of the
  run, from one invariant. `ResetOK` says that a reset goes through one member cluster at
  most and that each namespace it has found there is still to be deleted or has been
  reset; this stays so because an instance of a namespace never comes back
  (`NamespacesAdvance`). `QuietOK` says that a quiet reset goes
  through the cluster its user's Space targets, and is not answered with an error but the one
  for finding no namespace.

`HostStore_proofs` has the lemmas about the store that all of these use: what a write and the
environment's actions do to the versions (`NewVersionType`, `StoreStepType`) and to caches that
do not lag (`FreshWrite`, `FreshEnvironment`).

The theorems that assume requests one at a time are about the same instances as the runs that
check these properties: `phone_sequential`, `activation_sequential` and
`registration_sequential` give the constants values that satisfy the assumptions. Without them
TLC finds the counterexamples described above.

Model-checked only: `EveryRequestAnswered`, `EveryActivationAnswered`, `ShutdownEnds` and
`DeadServersReplaced` stay with TLC, since liveness under fairness is out of the prover's
reach. No module has a recursive operator.

## Not modelled

- Crashes in `SignupService` and `ActivationCode`: a handler keeps nothing outside the
  store, so a crash before its write is a request that never goes on, and one after it
  is a lost answer, which `WriteErrors` covers. (They are in `PhoneVerification`,
  where a message may have gone out.)
- The cache of BannedUsers: a ban that has not reached it yet is a ban that comes later.
- A failed Get of a SocialEvent other than NotFound. A write to a UserSignup that was
  deleted is answered as a conflict.
- How the signup controller reads a request and turns errors into status codes, and that
  GetHandler goes on after answering an error: it has no effect on any state. CORS
  (headers), the username lookup (stateless), the metrics middleware and the table of
  routes. The configuration: its values are constants.
- The claims a token carries, beyond the key that signed it; the fallback of the
  key manager to a test environment; the captcha file; a second signal, which ends the
  process at once.
- The names of namespaces and the order of a reset's list: a reset deletes what it has
  found in any order.
- The URLs of GetSignup's answer, and the default namespace of GetDefaultUserTarget
  (the space it chooses is in `ProxyRequest`); whether the MasterUserRecord is ready.
- Of the proxy: the headers and URLs of the forwarded request, the web login, the
  transport and its errors, CORS, and the validation of a token, which is a
  nondeterministic choice. A plugin's URL is a member that is found or a read that fails.
  Of the lister's answer, the roles and the actions available on each binding.
- Malformed numbers and timestamps in annotations: the service only writes well-formed
  ones.
- The country code and number formatting, regular expressions on codes and hashes.
- A repeated random code; failing reads of the cache other than NotFound.
- Wording of errors, logging, metrics.

## Plan

1. `BindingRoles`: the roles and the actions available on each binding of the lister's answer,
   and CORS, as pure operators against reference definitions.
2. `SignupController`: errors to answers, and the handler that answers twice.
3. Proofs: `GuessesBounded` and `RefusedForAReason` when the host operator writes between the
   read and the update of a handler, with a count of the tries in place of the count of codes.
