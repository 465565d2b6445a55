------------------------------ MODULE HostStore ------------------------------
(***************************************************************************)
(* The UserSignup resources of the host cluster as this service sees them: *)
(* an API server that serialises the writes of each resource and refuses a *)
(* write based on an older version, and one informer cache per replica of  *)
(* the service, which lags behind and from which every Get and List of the *)
(* service is answered (cmd/main.go, newCachedClient).                     *)
(*                                                                         *)
(* The other writers of a UserSignup (host operator, administrators) are   *)
(* not in this repository; they are the environment actions at the end.    *)
(***************************************************************************)
EXTENDS Naturals, Sequences

CONSTANTS
  Users,       \* owners of UserSignups
  Replicas,    \* instances of the service
  Phones,      \* phone numbers, standing for their hashes too
  Codes,       \* verification codes
  Events,      \* names of SocialEvents, which are the activation codes
  Claims,      \* identity claims of tokens; the e-mail stands for all of them
  Absent,      \* the state of a UserSignup that does not exist
  None,        \* a label, annotation or field that is not set
  FreshReads,  \* TRUE: the caches never lag (an idealisation some runs compare with)
  MaxTime,     \* bound: the clock stops here
  MaxVersions, \* bound: versions of a UserSignup after which no more conditions are reported
  External     \* which of the environment's actions take place

VARIABLES
  log,     \* log[u]: every version of u's UserSignup; its index is the resourceVersion
  seen,    \* seen[p][u]: the version of log[u] in the cache of replica p
  banned,  \* phones and e-mails of BannedUser resources; a user stands for the e-mail
  now      \* the clock

storeVars == <<log, seen, banned, now>>

-----------------------------------------------------------------------------
(* UserSignups. Spec.States is a set; labels and annotations are fields.   *)

States == {"approved", "verification-required", "deactivated", "rejected"}

Opt(S) == S \cup {None}

Signup == [states     : SUBSET States,
           approval   : {"pending", "approved", "deactivated"},  \* the state label, set by the operator
           status     : {"none", "pending", "incomplete", "complete",
                         "deactivated", "banned", "rejected"},  \* conditions, set by the operator
           claims     : Opt(Claims),     \* Spec.IdentityClaims
           emailHash  : Opt(Claims),     \* email-hash label
           phone      : Opt(Phones),     \* phone-hash label
           initAt     : Opt(Nat),        \* verification-init-timestamp
           counter    : Opt(Nat),        \* verification-counter
           attempts   : Opt(Nat),        \* verification-attempts
           code       : Opt(Codes),      \* verification-code
           expiry     : Opt(Nat),        \* verification-expiry
           risk       : Opt({"low", "high"}),   \* phone-lookup annotations
           event      : Opt(Events),     \* social-event label
           score      : Opt({"low", "ok"}),     \* captcha-score, against the required score
           activated  : Opt(Nat)]        \* activation-counter, set by the operator

ASSUME HostStoreAssumption ==
  /\ Absent \notin Signup
  /\ None \notin Phones \cup Codes \cup Events \cup Nat
  /\ FreshReads \in BOOLEAN
  /\ MaxTime \in Nat /\ MaxVersions \in Nat
  /\ External \subseteq {"ban", "banUser", "approve", "deactivate", "report", "admin", "delete"}

\* The fields the service assigns through a map of labels and annotations.
Numbers == {"initAt", "counter", "attempts", "expiry"}

Annotations == Numbers \cup {"phone", "code", "risk", "event"}

\* The assignments of the fields of g to f (for k, v := range g { f[k] = v }).
With(f, g) == [k \in DOMAIN f \cup DOMAIN g |-> IF k \in DOMAIN g THEN g[k] ELSE f[k]]

NoFields == [k \in {} |-> None]

\* What one update of a UserSignup assigns: labels and annotations (a deleted
\* one is assigned None), the states it sets and those it clears.
NoChange == [set |-> NoFields, add |-> {}, del |-> {}]

Apply(s, w) == [With(s, w.set) EXCEPT !.states = (@ \cup w.add) \ w.del]

IsUpdate(w) ==
  /\ w = [set |-> w.set, add |-> w.add, del |-> w.del]
  /\ DOMAIN w.set \subseteq Annotations
  /\ "phone" \in DOMAIN w.set => w.set.phone \in Opt(Phones)
  /\ "code" \in DOMAIN w.set => w.set.code \in Opt(Codes)
  /\ "risk" \in DOMAIN w.set => w.set.risk \in Opt({"low", "high"})
  /\ "event" \in DOMAIN w.set => w.set.event \in Opt(Events)
  /\ \A k \in DOMAIN w.set \cap Numbers : w.set[k] \in Opt(Nat)
  /\ w.add \subseteq States
  /\ w.del \subseteq States

\* The setters of toolchain-common's package states.
SetApprovedManually == [add |-> {"approved"}, del |-> {"verification-required", "deactivated"}]

-----------------------------------------------------------------------------
(* The API server and the caches.                                          *)

Latest(u) == log[u][Len(log[u])]

Cached(p, u) == log[u][seen[p][u]]

IsCurrent(u, v) == v = Len(log[u]) /\ Latest(u) # Absent

NewVersion(u, s) ==
  /\ log' = [log EXCEPT ![u] = Append(@, s)]
  /\ seen' = IF FreshReads
             THEN [p \in Replicas |-> [seen[p] EXCEPT ![u] = Len(log[u]) + 1]]
             ELSE seen

\* A watch event reaches the informer cache of a replica, in version order.
InformerSync(p, u) ==
  /\ seen[p][u] < Len(log[u])
  /\ seen' = [seen EXCEPT ![p][u] = @ + 1]
  /\ UNCHANGED <<log, banned, now>>

-----------------------------------------------------------------------------
(* The environment.                                                        *)

Tick ==
  /\ now < MaxTime
  /\ now' = now + 1
  /\ UNCHANGED <<log, seen, banned>>

\* An administrator bans the owner of a phone.
BanPhone(ph) ==
  /\ "ban" \in External
  /\ ph \notin banned
  /\ banned' = banned \cup {ph}
  /\ UNCHANGED <<log, seen, now>>

\* An administrator bans a user by e-mail.
BanUser(u) ==
  /\ "banUser" \in External
  /\ u \notin banned
  /\ banned' = banned \cup {u}
  /\ UNCHANGED <<log, seen, now>>

OperatorWrites(u, s) == NewVersion(u, s) /\ UNCHANGED <<banned, now>>

Approved(s) == [s EXCEPT !.approval = "approved",
                         !.activated = IF @ = None THEN 1 ELSE @ + 1]

\* The host operator approves a UserSignup that needs no verification.
OperatorApproves(u) ==
  LET s == Latest(u) IN
    /\ "approve" \in External
    /\ s # Absent
    /\ s.approval # "approved"
    /\ s.states \cap {"verification-required", "deactivated", "rejected"} = {}
    /\ OperatorWrites(u, Approved(s))

Deactivated(s) == [s EXCEPT !.approval = "deactivated",
                            !.states = (@ \cup {"deactivated"}) \ {"approved"}]

\* The host operator deactivates an approved UserSignup.
OperatorDeactivates(u) ==
  LET s == Latest(u) IN
    /\ "deactivate" \in External
    /\ s # Absent
    /\ s.approval = "approved"
    /\ OperatorWrites(u, Deactivated(s))

\* The conditions that tell of s.
Conditions(u, s) ==
  IF u \in banned THEN {"banned"}
  ELSE IF "deactivated" \in s.states THEN {"deactivated"}
  ELSE IF "rejected" \in s.states THEN {"rejected"}
  ELSE IF s.approval = "approved" THEN {"incomplete", "complete"}
  ELSE {"pending"}

Reported(s, c) == [s EXCEPT !.status = c]

\* The host operator brings the conditions up to date, some time after the change
\* they tell of.
OperatorReports(u) ==
  LET s == Latest(u) IN
    /\ "report" \in External
    /\ Len(log[u]) < MaxVersions
    /\ s # Absent
    /\ \E c \in Conditions(u, s) \ {s.status} : OperatorWrites(u, Reported(s, c))

ApprovedManually(s) ==
  [s EXCEPT !.states = (@ \cup SetApprovedManually.add) \ SetApprovedManually.del]

\* An administrator approves a UserSignup by hand, skipping the verification.
AdminApproves(u) ==
  LET s == Latest(u) IN
    /\ "admin" \in External
    /\ s # Absent
    /\ "verification-required" \in s.states
    /\ OperatorWrites(u, ApprovedManually(s))

\* The host operator deletes a UserSignup that was never verified.
OperatorDeletes(u) ==
  /\ "delete" \in External
  /\ Latest(u) # Absent
  /\ "verification-required" \in Latest(u).states
  /\ OperatorWrites(u, Absent)

StoreNext ==
  \/ \E p \in Replicas, u \in Users : InformerSync(p, u)
  \/ Tick
  \/ \E ph \in Phones : BanPhone(ph)
  \/ \E u \in Users : \/ BanUser(u)
                      \/ OperatorApproves(u)
                      \/ OperatorDeactivates(u)
                      \/ OperatorReports(u)
                      \/ AdminApproves(u)
                      \/ OperatorDeletes(u)

StoreTypeOK ==
  /\ log \in [Users -> Seq(Signup \cup {Absent})]
  /\ seen \in [Replicas -> [Users -> Nat]]
  /\ \A u \in Users : /\ Len(log[u]) > 0
                      /\ \A p \in Replicas : seen[p][u] \in 1 .. Len(log[u])
  /\ banned \subseteq Phones \cup Users
  /\ now \in Nat
=============================================================================
