---------------------------- MODULE NamespacesReset ----------------------------
(***************************************************************************)
(* POST /reset-namespaces: ResetNamespaces of pkg/namespaces and of its    *)
(* controller.  The namespaces of a user are listed in the status of an    *)
(* NSTemplateSet on the member cluster that the user's Space targets; the  *)
(* service deletes them one by one, and the operator of the member cluster *)
(* creates them again.                                                     *)
(*                                                                         *)
(* Two resets of one user may overlap, the operators of the host and of    *)
(* the member clusters go on meanwhile, and any call may fail.             *)
(***************************************************************************)
EXTENDS Naturals

CONSTANTS
  Users,
  Members,       \* the member clusters
  Kinds,         \* a user has a namespace of each kind, such as dev and stage
  MaxRequests,   \* bound: resets
  MaxInstances,  \* bound: how often a namespace is created
  None           \* no Space, no NSTemplateSet, no answer yet

ASSUME NamespacesResetAssumption ==
  /\ MaxRequests \in Nat /\ MaxInstances \in Nat
  /\ None \notin Members \cup {"accepted", "notFound", "noNamespaces", "internal", "error"}
  /\ \A ns \in SUBSET (Users \X Kinds) : None # ns

VARIABLES
  signup,   \* signup[u]: the user's signup: "named" once provisioned
  space,    \* space[u]: the target cluster of the user's Space
  cluster,  \* cluster[m]: whether m is in the cache of member clusters, with a client
  status,   \* status[m][u]: provisionedNamespaces of the user's NSTemplateSet on m
  ns,       \* ns[m][n]: the namespace n on m
  req,      \* req[r]: reset r
  quiet     \* quiet[r]: nothing has stood in the way of reset r: history only

external == <<signup, space, cluster, status>>

vars == <<signup, space, cluster, status, ns, req, quiet>>

-----------------------------------------------------------------------------

Requests == 1 .. MaxRequests

Namespaces == Users \X Kinds

Of(u) == {u} \X Kinds

\* Instance number and phase of a namespace.  Each creation makes an instance of its own.
Namespace == [instance : 0 .. MaxInstances, phase : {"absent", "live", "terminating"}]

Request == [pc      : {"idle", "signup", "space", "members", "status", "delete", "done"},
            user    : Users \cup {None},
            members : SUBSET Members,              \* still to be gone through
            member  : Members \cup {None},         \* the one being gone through
            listed  : SUBSET Namespaces,           \* what its NSTemplateSet lists
            left    : SUBSET Namespaces,           \* what of this is still to be deleted
            seen    : [Namespaces -> 0 .. MaxInstances],  \* the instances then: history only
            answer  : {"accepted", "notFound", "noNamespaces", "internal", None}]

Idle == [pc |-> "idle", user |-> None, members |-> {}, member |-> None, listed |-> {},
         left |-> {}, seen |-> [n \in Namespaces |-> 0], answer |-> None]

InFlight(r) == req[r].pc \notin {"idle", "done"}

Becomes(r, q) == req' = [req EXCEPT ![r] = q]

\* A reset that does not succeed forgets what it was doing.
Failed(u, a) == [Idle EXCEPT !.pc = "done", !.user = u, !.answer = a]

Fail(r, a) == Becomes(r, Failed(req[r].user, a))

Step(r, pc) == Becomes(r, [req[r] EXCEPT !.pc = pc])

\* Everything that a reset of user u needs is there.
InOrder(u) ==
  /\ signup[u] = "named"
  /\ space[u] # None
  /\ cluster[space[u]] = "ready"
  /\ status[space[u]][u] # None

\* History: reset r has met no error, and what it needs has been there and in one place.
\* "failed" are the resets that an error hits in this step.
Observe(failed) ==
  quiet' = [r \in Requests |->
              IF req[r].pc = "done" THEN quiet[r]
              ELSE /\ quiet[r] /\ r \notin failed
                   /\ \A u \in Users :
                        u = req'[r].user => InOrder(u)' /\ space'[u] = space[u]]

-----------------------------------------------------------------------------
(* The handler.                                                            *)

Start(r, u) ==
  /\ req[r].pc = "idle"
  /\ \A q \in Requests : q < r => req[q].pc # "idle"
  /\ Becomes(r, [req[r] EXCEPT !.pc = "signup", !.user = u])
  /\ UNCHANGED <<external, ns>>
  /\ Observe({})

\* A call to the host or to a member cluster fails.
CallFails(r) ==
  /\ req[r].pc \in {"signup", "space", "status"}
  /\ Fail(r, "internal")
  /\ UNCHANGED <<external, ns>>
  /\ Observe({r})

\* GetSignup finds nothing, a deactivated user, or one without a compliant username.
GetSignup(r) ==
  /\ req[r].pc = "signup"
  /\ IF signup[req[r].user] = "named" THEN Step(r, "space") ELSE Fail(r, "notFound")
  /\ UNCHANGED <<external, ns>>
  /\ Observe({})

\* Mutated: every member cluster is gone through.
AllMembers(target) == {m \in Members : cluster[m] # "unknown"}

\* getMemberClustersFunc with its filter.
TargetMembers(target) == {m \in Members : cluster[m] # "unknown" /\ m = target}

GetSpace(r) ==
  /\ req[r].pc = "space"
  /\ IF space[req[r].user] = None
       THEN Fail(r, "internal")
       ELSE LET members == TargetMembers(space[req[r].user]) IN
              IF members = {}
                THEN Fail(r, "internal")
                ELSE Becomes(r, [req[r] EXCEPT !.pc = "members", !.members = members])
  /\ UNCHANGED <<external, ns>>
  /\ Observe({})

\* The next member cluster, unless there is none left.
NextMember(r) ==
  /\ req[r].pc = "members"
  /\ IF req[r].members = {}
       THEN Becomes(r, [req[r] EXCEPT !.pc = "done", !.answer = "accepted"])
       ELSE \E m \in req[r].members :
              IF cluster[m] # "ready"
                THEN Fail(r, "internal")
                ELSE Becomes(r, [req[r] EXCEPT !.pc = "status", !.member = m,
                                               !.members = req[r].members \ {m}])
  /\ UNCHANGED <<external, ns>>
  /\ Observe({})

Instances(m, listed) == [n \in Namespaces |-> IF n \in listed THEN ns[m][n].instance ELSE 0]

GetNSTemplateSet(r) ==
  LET m == req[r].member  listed == status[m][req[r].user] IN
    /\ req[r].pc = "status"
    /\ \/ listed = None /\ Fail(r, "internal")
       \/ listed = {} /\ Fail(r, "noNamespaces")
       \/ /\ listed \notin {None, {}}
          /\ Becomes(r, [req[r] EXCEPT !.pc = "delete", !.listed = listed, !.left = listed,
                                       !.seen = Instances(m, listed)])
    /\ UNCHANGED <<external, ns>>
    /\ Observe({})

\* Mutated: no error of a deletion is fatal.
TolerateAll(error) == TRUE

\* Mutated: any error of a deletion is fatal.
TolerateNone(error) == FALSE

\* Which errors of a deletion are passed over.
Tolerated(error) == error = "notFound"

\* What follows the deletion of n, which has met this error, or None.
AfterDelete(r, n, error) ==
  IF error = None \/ Tolerated(error)
    THEN Becomes(r, [req[r] EXCEPT !.left = req[r].left \ {n},
                                   !.pc = IF req[r].left = {n} THEN "members" ELSE "delete"])
    ELSE Fail(r, "internal")

\* Deletion of a namespace marks it; one that is marked already is left as it is.
Terminated(m, n) == [ns EXCEPT ![m][n].phase = "terminating"]

Delete(r) ==
  LET m == req[r].member IN
    /\ req[r].pc = "delete"
    /\ \E n \in req[r].left :
         IF ns[m][n].phase = "absent"
           THEN AfterDelete(r, n, "notFound") /\ UNCHANGED ns
           ELSE AfterDelete(r, n, None) /\ ns' = Terminated(m, n)
    /\ UNCHANGED external
    /\ Observe({})

\* The deletion fails, or it is done and only its answer is lost.
DeleteFails(r) ==
  LET m == req[r].member IN
    /\ req[r].pc = "delete"
    /\ \E n \in req[r].left :
         /\ AfterDelete(r, n, "error")
         /\ \/ UNCHANGED ns
            \/ ns[m][n].phase # "absent" /\ ns' = Terminated(m, n)
    /\ UNCHANGED external
    /\ Observe({r})

-----------------------------------------------------------------------------
(* The operators of the host and of the member clusters.                   *)

Deactivate(u) ==
  /\ signup[u] = "named"
  /\ signup' = [signup EXCEPT ![u] = "none"]
  /\ UNCHANGED <<space, cluster, status, ns, req>>
  /\ Observe({})

\* The Space of a deactivated user goes, and with it the NSTemplateSet and the namespaces.
RemoveSpace(u) ==
  /\ signup[u] = "none" /\ space[u] # None
  /\ space' = [space EXCEPT ![u] = None]
  /\ status' = [m \in Members |-> [status[m] EXCEPT ![u] = None]]
  /\ ns' = [m \in Members |-> [n \in Namespaces |->
              IF n \in Of(u) /\ ns[m][n].phase = "live"
                THEN [ns[m][n] EXCEPT !.phase = "terminating"] ELSE ns[m][n]]]
  /\ UNCHANGED <<signup, cluster, req>>
  /\ Observe({})

\* The user is moved to another member cluster, where an NSTemplateSet is created; the old one
\* stays for a while.
Retarget(u, m) ==
  /\ space[u] \notin {None, m} /\ status[m][u] = None
  /\ space' = [space EXCEPT ![u] = m]
  /\ status' = [status EXCEPT ![m][u] = {}]
  /\ UNCHANGED <<signup, cluster, ns, req>>
  /\ Observe({})

\* The cache of member clusters changes: a cluster is lost from it or is there without a client.
ClusterChanges(m) ==
  /\ \E state \in {"ready", "noClient", "unknown"} \ {cluster[m]} :
       cluster' = [cluster EXCEPT ![m] = state]
  /\ UNCHANGED <<signup, space, status, ns, req>>
  /\ Observe({})

\* The member operator reports which namespaces are there.
Report(m, u) ==
  /\ status[m][u] # None
  /\ status' = [status EXCEPT ![m][u] = {n \in Of(u) : ns[m][n].phase = "live"}]
  /\ UNCHANGED <<signup, space, cluster, ns, req>>
  /\ Observe({})

\* A namespace is created as long as there is an NSTemplateSet.
Create(m, n) ==
  /\ status[m][n[1]] # None
  /\ ns[m][n].phase = "absent" /\ ns[m][n].instance < MaxInstances
  /\ ns' = [ns EXCEPT ![m][n] = [instance |-> ns[m][n].instance + 1, phase |-> "live"]]
  /\ UNCHANGED <<external, req>>
  /\ Observe({})

\* The last of a namespace that is being terminated is gone.
Gone(m, n) ==
  /\ ns[m][n].phase = "terminating"
  /\ ns' = [ns EXCEPT ![m][n].phase = "absent"]
  /\ UNCHANGED <<external, req>>
  /\ Observe({})

-----------------------------------------------------------------------------

\* Every user has a signup, a Space and an NSTemplateSet; some namespaces may still be missing.
Init ==
  /\ signup \in [Users -> {"unnamed", "named"}]
  /\ \E target \in [Users -> Members] :
       /\ space = target
       /\ status = [m \in Members |-> [u \in Users |-> IF target[u] = m THEN {} ELSE None]]
  /\ cluster = [m \in Members |-> "ready"]
  /\ ns = [m \in Members |-> [n \in Namespaces |-> [instance |-> 0, phase |-> "absent"]]]
  /\ req = [r \in Requests |-> Idle]
  /\ quiet = [r \in Requests |-> TRUE]

Handle(r) ==
  \/ GetSignup(r)
  \/ GetSpace(r)
  \/ NextMember(r)
  \/ GetNSTemplateSet(r)
  \/ Delete(r)
  \/ DeleteFails(r)
  \/ CallFails(r)

Operate ==
  \/ \E u \in Users : Deactivate(u) \/ RemoveSpace(u)
  \/ \E u \in Users, m \in Members : Retarget(u, m) \/ Report(m, u)
  \/ \E m \in Members : ClusterChanges(m)
  \/ \E m \in Members, n \in Namespaces : Create(m, n) \/ Gone(m, n)

Next ==
  \/ \E r \in Requests, u \in Users : Start(r, u)
  \/ \E r \in Requests : Handle(r)
  \/ Operate

Spec == Init /\ [][Next]_vars

-----------------------------------------------------------------------------
(* What a reset promises.                                                  *)

TypeOK ==
  /\ signup \in [Users -> {"none", "unnamed", "named"}]
  /\ space \in [Users -> Members \cup {None}]
  /\ cluster \in [Members -> {"ready", "noClient", "unknown"}]
  /\ status \in [Members -> [Users -> (SUBSET Namespaces) \cup {None}]]
  /\ ns \in [Members -> [Namespaces -> Namespace]]
  /\ req \in [Requests -> Request]
  /\ quiet \in [Requests -> BOOLEAN]

\* The instance of namespace n that reset r has found on its member cluster is not live.
IsReset(r, n) ==
  LET there == ns[req[r].member][n] IN
    there.phase # "live" \/ there.instance > req[r].seen[n]

\* An accepted reset has reset every namespace that the NSTemplateSet listed, whatever other
\* resets and the operators have done to them meanwhile: none was passed over for an error.
AcceptedMeansReset ==
  \A r \in Requests : req[r].answer = "accepted" => \A n \in req[r].listed : IsReset(r, n)

\* A quiet reset, one that meets no error and whose user, Space, cluster and NSTemplateSet stay
\* in order, is accepted once it has read from the NSTemplateSet which namespaces there are,
\* though another reset should delete them under its hands.  Before that the other one can make
\* it fail: when the NSTemplateSet lists no namespace any more (or none yet), the reset is
\* refused for having none (400, namespaces_manager.go:112-114).
QuietResetSucceeds ==
  [][\A r \in Requests :
       req[r].pc # "done" /\ req'[r].pc = "done" /\ quiet'[r] =>
         req'[r].answer = IF req[r].pc = "status" /\ status[req[r].member][req[r].user] = {}
                          THEN "noNamespaces" ELSE "accepted"]_vars

\* A reset deletes namespaces on no other member cluster than the one that the user's Space
\* targets: an NSTemplateSet that is still there on the cluster the user was on before is left
\* alone.  Nothing is said of a reset that is not quiet any more, because the Space has been
\* moved since it began, or the user deactivated, or the cluster or NSTemplateSet lost, or a
\* call has failed.
OnlyTheTargetIsReset ==
  [][\A r \in Requests, m \in Members, n \in Namespaces :
       req'[r] # req[r] /\ ns'[m][n] # ns[m][n] /\ quiet[r] => m = space[req[r].user]]_vars

===============================================================================
