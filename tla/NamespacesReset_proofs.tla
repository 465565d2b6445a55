------------------------- MODULE NamespacesReset_proofs -------------------------
(***************************************************************************)
(* Proofs about NamespacesReset, for any number of users, clusters,        *)
(* namespaces and overlapping resets.                                      *)
(***************************************************************************)
EXTENDS NamespacesReset, TLAPS

-----------------------------------------------------------------------------
(* Requests and the changes that handlers make to them.                    *)

LEMMA IdleType == Idle \in Request /\ Idle.pc = "idle" /\ Idle.listed = {} /\ Idle.answer = None
<1>1. [n \in Namespaces |-> 0] \in [Namespaces -> 0 .. MaxInstances]
  BY NamespacesResetAssumption
<1> QED
  BY <1>1 DEF Idle, Request

LEMMA FailedType ==
  ASSUME NEW u \in Users \cup {None}, NEW a \in {"notFound", "noNamespaces", "internal"}
  PROVE  /\ Failed(u, a) \in Request
         /\ Failed(u, a).pc = "done" /\ Failed(u, a).user = u
         /\ Failed(u, a).listed = {} /\ Failed(u, a).answer = a
<1>1. [n \in Namespaces |-> 0] \in [Namespaces -> 0 .. MaxInstances]
  BY NamespacesResetAssumption
<1> QED
  BY <1>1 DEF Failed, Idle, Request

LEMMA PcType ==
  ASSUME NEW q \in Request,
         NEW pc \in {"signup", "space", "members", "status", "delete", "done"}
  PROVE  [q EXCEPT !.pc = pc] \in Request
BY DEF Request

LEMMA StartedType ==
  ASSUME NEW q \in Request, NEW u \in Users
  PROVE  [q EXCEPT !.pc = "signup", !.user = u] \in Request
BY DEF Request

LEMMA MembersType ==
  ASSUME NEW q \in Request, NEW M \in SUBSET Members
  PROVE  [q EXCEPT !.pc = "members", !.members = M] \in Request
BY DEF Request

LEMMA AcceptedType ==
  ASSUME NEW q \in Request
  PROVE  [q EXCEPT !.pc = "done", !.answer = "accepted"] \in Request
BY DEF Request

LEMMA MemberType ==
  ASSUME NEW q \in Request, NEW m \in Members, NEW M \in SUBSET Members
  PROVE  [q EXCEPT !.pc = "status", !.member = m, !.members = M] \in Request
BY DEF Request

LEMMA ListedType ==
  ASSUME NEW q \in Request, NEW L \in SUBSET Namespaces,
         NEW s \in [Namespaces -> 0 .. MaxInstances]
  PROVE  [q EXCEPT !.pc = "delete", !.listed = L, !.left = L, !.seen = s] \in Request
BY DEF Request

LEMMA LeftType ==
  ASSUME NEW q \in Request, NEW L \in SUBSET Namespaces, NEW pc \in {"members", "delete"}
  PROVE  [q EXCEPT !.left = L, !.pc = pc] \in Request
BY DEF Request

LEMMA BecomesType ==
  ASSUME TypeOK, NEW r \in Requests, NEW q \in Request, Becomes(r, q)
  PROVE  /\ req' \in [Requests -> Request] /\ req'[r] = q
         /\ \A s \in Requests \ {r} : req'[s] = req[s]
BY DEF Becomes, TypeOK

-----------------------------------------------------------------------------
(* What the handlers and the operators may do, as one of three kinds of    *)
(* step: the handler of a request moves and touches no namespace, it       *)
(* terminates a namespace, or no request moves.                            *)

\* Of the namespaces: an instance never comes back, and a live one was live or is a new one.
Advance(before, after) ==
  /\ before.instance <= after.instance
  /\ after.phase = "live" => before.phase = "live" \/ before.instance < after.instance

NamespacesAdvance ==
  \A m \in Members, n \in Namespaces : Advance(ns[m][n], ns'[m][n])

LEMMA TerminatedAdvances ==
  ASSUME TypeOK, NEW m \in Members, NEW n \in Namespaces, ns' = Terminated(m, n)
  PROVE  /\ ns' \in [Members -> [Namespaces -> Namespace]]
         /\ NamespacesAdvance
         /\ ns'[m][n].phase = "terminating"
         /\ \A o \in Members : o # m => ns'[o] = ns[o]
<1>1. /\ ns' = [ns EXCEPT ![m] = [ns[m] EXCEPT ![n] = [ns[m][n] EXCEPT !.phase = "terminating"]]]
      /\ ns \in [Members -> [Namespaces -> Namespace]]
  BY DEF Terminated, TypeOK
<1>2. /\ [ns[m][n] EXCEPT !.phase = "terminating"] \in Namespace
      /\ [ns[m][n] EXCEPT !.phase = "terminating"].phase = "terminating"
      /\ [ns[m][n] EXCEPT !.phase = "terminating"].instance = ns[m][n].instance
  BY <1>1 DEF Namespace
<1>3. \A o \in Members, k \in Namespaces :
        /\ ns'[o][k] = IF o = m /\ k = n THEN [ns[m][n] EXCEPT !.phase = "terminating"]
                                         ELSE ns[o][k]
        /\ ns[o][k] \in Namespace /\ ns[o][k].instance \in Nat
  BY <1>1, NamespacesResetAssumption DEF Namespace
<1>4. ASSUME NEW o \in Members, NEW k \in Namespaces
      PROVE  Advance(ns[o][k], ns'[o][k])
  <2>1. CASE o = m /\ k = n
    <3>1. ns'[m][n] = [ns[m][n] EXCEPT !.phase = "terminating"]
      BY <1>3
    <3>2. ns'[m][n].instance = ns[m][n].instance /\ ns'[m][n].phase = "terminating"
      BY <1>2, <3>1
    <3> QED
      BY <1>3, <2>1, <3>2 DEF Advance
  <2>2. CASE ~(o = m /\ k = n)
    <3>1. ns'[o][k] = ns[o][k]
      BY <1>3, <2>2
    <3> QED
      BY <1>3, <3>1 DEF Advance
  <2> QED
    BY <2>1, <2>2
<1>5. ns' \in [Members -> [Namespaces -> Namespace]]
  BY <1>1, <1>2
<1>6. ns'[m][n].phase = "terminating" /\ \A o \in Members : o # m => ns'[o] = ns[o]
  BY <1>1, <1>2
<1>7. NamespacesAdvance
  BY <1>4 DEF NamespacesAdvance
<1> QED
  BY <1>5, <1>6, <1>7

LEMMA NamespacesStay ==
  ASSUME TypeOK, UNCHANGED ns
  PROVE  ns' \in [Members -> [Namespaces -> Namespace]] /\ NamespacesAdvance
<1>1. ns' = ns /\ ns \in [Members -> [Namespaces -> Namespace]]
  BY DEF TypeOK
<1>2. \A m \in Members, n \in Namespaces : ns[m][n].instance \in Nat
  BY <1>1, NamespacesResetAssumption DEF Namespace
<1>3. ASSUME NEW m \in Members, NEW n \in Namespaces
      PROVE  Advance(ns[m][n], ns'[m][n])
  BY <1>1, <1>2 DEF Advance
<1> QED
  BY <1>1, <1>3 DEF NamespacesAdvance

\* A new instance of a namespace.
LEMMA CreateAdvances ==
  ASSUME TypeOK, NEW m \in Members, NEW n \in Namespaces, Create(m, n)
  PROVE  ns' \in [Members -> [Namespaces -> Namespace]] /\ NamespacesAdvance
<1> DEFINE new == [instance |-> ns[m][n].instance + 1, phase |-> "live"]
<1>1. /\ ns' = [ns EXCEPT ![m] = [ns[m] EXCEPT ![n] = new]]
      /\ ns \in [Members -> [Namespaces -> Namespace]]
      /\ ns[m][n].instance < MaxInstances
  BY DEF Create, TypeOK
<1>2. \A o \in Members, k \in Namespaces :
        ns[o][k] \in Namespace /\ ns[o][k].instance \in Nat
  BY <1>1, NamespacesResetAssumption DEF Namespace
<1>3. /\ new \in Namespace /\ new.phase = "live" /\ new.instance = ns[m][n].instance + 1
  BY <1>1, <1>2, NamespacesResetAssumption DEF Namespace
<1> HIDE DEF new
<1>4. \A o \in Members, k \in Namespaces :
        ns'[o][k] = IF o = m /\ k = n THEN new ELSE ns[o][k]
  BY <1>1
<1>5. ASSUME NEW o \in Members, NEW k \in Namespaces
      PROVE  Advance(ns[o][k], ns'[o][k])
  <2>1. CASE o = m /\ k = n
    BY <1>2, <1>3, <1>4, <2>1 DEF Advance
  <2>2. CASE ~(o = m /\ k = n)
    <3>1. ns'[o][k] = ns[o][k]
      BY <1>4, <2>2
    <3> QED
      BY <1>2, <3>1 DEF Advance
  <2> QED
    BY <2>1, <2>2
<1> QED
  BY <1>1, <1>3, <1>5 DEF NamespacesAdvance

LEMMA GoneAdvances ==
  ASSUME TypeOK, NEW m \in Members, NEW n \in Namespaces, Gone(m, n)
  PROVE  ns' \in [Members -> [Namespaces -> Namespace]] /\ NamespacesAdvance
<1> DEFINE new == [ns[m][n] EXCEPT !.phase = "absent"]
<1>1. /\ ns' = [ns EXCEPT ![m] = [ns[m] EXCEPT ![n] = new]]
      /\ ns \in [Members -> [Namespaces -> Namespace]]
  BY DEF Gone, TypeOK
<1>2. \A o \in Members, k \in Namespaces :
        ns[o][k] \in Namespace /\ ns[o][k].instance \in Nat
  BY <1>1, NamespacesResetAssumption DEF Namespace
<1>3. /\ new \in Namespace /\ new.phase = "absent" /\ new.instance = ns[m][n].instance
  BY <1>1, <1>2 DEF Namespace
<1> HIDE DEF new
<1>4. \A o \in Members, k \in Namespaces :
        ns'[o][k] = IF o = m /\ k = n THEN new ELSE ns[o][k]
  BY <1>1
<1>5. ASSUME NEW o \in Members, NEW k \in Namespaces
      PROVE  Advance(ns[o][k], ns'[o][k])
  <2>1. CASE o = m /\ k = n
    BY <1>2, <1>3, <1>4, <2>1 DEF Advance
  <2>2. CASE ~(o = m /\ k = n)
    <3>1. ns'[o][k] = ns[o][k]
      BY <1>4, <2>2
    <3> QED
      BY <1>2, <3>1 DEF Advance
  <2> QED
    BY <2>1, <2>2
<1> QED
  BY <1>1, <1>3, <1>5 DEF NamespacesAdvance

\* With a Space go the namespaces of its user.
LEMMA RemoveSpaceAdvances ==
  ASSUME TypeOK, NEW u \in Users, RemoveSpace(u)
  PROVE  ns' \in [Members -> [Namespaces -> Namespace]] /\ NamespacesAdvance
<1>1. \A m \in Members, n \in Namespaces :
        ns[m][n] \in Namespace /\ ns[m][n].instance \in Nat
  BY NamespacesResetAssumption DEF TypeOK, Namespace
<1> DEFINE new(m, n) == IF n \in Of(u) /\ ns[m][n].phase = "live"
                          THEN [ns[m][n] EXCEPT !.phase = "terminating"] ELSE ns[m][n]
<1>2. ns' = [m \in Members |-> [n \in Namespaces |-> new(m, n)]]
  BY DEF RemoveSpace
<1>3. ASSUME NEW m \in Members, NEW n \in Namespaces
      PROVE  new(m, n) \in Namespace /\ Advance(ns[m][n], new(m, n))
  <2>1. [ns[m][n] EXCEPT !.phase = "terminating"] \in Namespace
    BY <1>1 DEF Namespace
  <2>2. Advance(ns[m][n], [ns[m][n] EXCEPT !.phase = "terminating"])
    BY <1>1, <2>1 DEF Advance, Namespace
  <2>3. Advance(ns[m][n], ns[m][n])
    BY <1>1 DEF Advance
  <2> QED
    BY <1>1, <2>1, <2>2, <2>3
<1> HIDE DEF new
<1> QED
  BY <1>2, <1>3 DEF NamespacesAdvance

LEMMA InstancesType ==
  ASSUME TypeOK, NEW m \in Members, NEW L \in SUBSET Namespaces
  PROVE  /\ Instances(m, L) \in [Namespaces -> 0 .. MaxInstances]
         /\ \A n \in L : Instances(m, L)[n] = ns[m][n].instance /\ ns[m][n].instance \in Nat
<1>1. \A n \in Namespaces : ns[m][n].instance \in 0 .. MaxInstances
  BY DEF TypeOK, Namespace
<1>2. 0 \in 0 .. MaxInstances
  BY NamespacesResetAssumption
<1> QED
  BY <1>1, <1>2, NamespacesResetAssumption DEF Instances

-----------------------------------------------------------------------------
(* The types, and what the handler's steps come to.                        *)

\* What is outside the service keeps its type.
ExternalOK ==
  /\ signup \in [Users -> {"none", "unnamed", "named"}]
  /\ space \in [Users -> Members \cup {None}]
  /\ cluster \in [Members -> {"ready", "noClient", "unknown"}]
  /\ status \in [Members -> [Users -> (SUBSET Namespaces) \cup {None}]]

LEMMA OperateStep ==
  ASSUME TypeOK, Operate
  PROVE  /\ ExternalOK' /\ req' = req /\ Observe({})
         /\ ns' \in [Members -> [Namespaces -> Namespace]] /\ NamespacesAdvance
<1>1. ExternalOK
  BY DEF TypeOK, ExternalOK
<1>2. ASSUME NEW u \in Users, Deactivate(u)
      PROVE  ExternalOK' /\ req' = req /\ Observe({}) /\ UNCHANGED ns
  BY <1>1, <1>2 DEF Deactivate, ExternalOK
<1>3. ASSUME NEW u \in Users, RemoveSpace(u)
      PROVE  ExternalOK' /\ req' = req /\ Observe({})
  <2>1. ASSUME NEW m \in Members
        PROVE  [status[m] EXCEPT ![u] = None] \in [Users -> (SUBSET Namespaces) \cup {None}]
    <3>1. status[m] \in [Users -> (SUBSET Namespaces) \cup {None}]
      BY <1>1 DEF ExternalOK
    <3> QED
      BY <3>1
  <2> QED
    BY <1>1, <1>3, <2>1 DEF RemoveSpace, ExternalOK
<1>4. ASSUME NEW u \in Users, NEW m \in Members, Retarget(u, m)
      PROVE  ExternalOK' /\ req' = req /\ Observe({}) /\ UNCHANGED ns
  <2>1. status' = [status EXCEPT ![m] = [status[m] EXCEPT ![u] = {}]]
    BY <1>4 DEF Retarget
  <2>2. [status[m] EXCEPT ![u] = {}] \in [Users -> (SUBSET Namespaces) \cup {None}]
    BY <1>1 DEF ExternalOK
  <2> QED
    BY <1>1, <1>4, <2>1, <2>2 DEF Retarget, ExternalOK
<1>5. ASSUME NEW u \in Users, NEW m \in Members, Report(m, u)
      PROVE  ExternalOK' /\ req' = req /\ Observe({}) /\ UNCHANGED ns
  <2> DEFINE live == {n \in Of(u) : ns[m][n].phase = "live"}
  <2>1. status' = [status EXCEPT ![m] = [status[m] EXCEPT ![u] = live]]
    BY <1>5 DEF Report
  <2>2. live \in SUBSET Namespaces
    BY DEF Of, Namespaces
  <2> HIDE DEF live
  <2>3. [status[m] EXCEPT ![u] = live] \in [Users -> (SUBSET Namespaces) \cup {None}]
    BY <1>1, <2>2 DEF ExternalOK
  <2> QED
    BY <1>1, <1>5, <2>1, <2>3 DEF Report, ExternalOK
<1>6. ASSUME NEW m \in Members, ClusterChanges(m)
      PROVE  ExternalOK' /\ req' = req /\ Observe({}) /\ UNCHANGED ns
  BY <1>1, <1>6 DEF ClusterChanges, ExternalOK
<1>7. ASSUME NEW m \in Members, NEW n \in Namespaces, Create(m, n) \/ Gone(m, n)
      PROVE  ExternalOK' /\ req' = req /\ Observe({})
  BY <1>1, <1>7 DEF Create, Gone, ExternalOK, external
<1>8. ASSUME UNCHANGED ns
      PROVE  ns' \in [Members -> [Namespaces -> Namespace]] /\ NamespacesAdvance
  BY <1>8, NamespacesStay
<1> QED
  BY <1>2, <1>3, <1>4, <1>5, <1>6, <1>7, <1>8, RemoveSpaceAdvances, CreateAdvances, GoneAdvances
     DEF Operate

\* What a handler's step does to the other requests and to the world.
LEMMA HandlerStep ==
  ASSUME TypeOK, NEW r \in Requests, Handle(r) \/ \E u \in Users : Start(r, u),
         req[r].user \in Users \/ req[r].pc = "idle",
         req[r].member \in Members \/ req[r].pc \notin {"status", "delete"}
  PROVE  /\ req' \in [Requests -> Request] /\ UNCHANGED external
         /\ req[r].pc # "done"
         /\ \A s \in Requests \ {r} : req'[s] = req[s]
         /\ ns' \in [Members -> [Namespaces -> Namespace]] /\ NamespacesAdvance
         /\ \E F \in SUBSET Requests : Observe(F)
<1> DEFINE Goal == /\ req' \in [Requests -> Request] /\ UNCHANGED external
                   /\ req[r].pc # "done"
                   /\ \A s \in Requests \ {r} : req'[s] = req[s]
                   /\ \E F \in SUBSET Requests : Observe(F)
<1>0. /\ req[r] \in Request /\ req[r].user \in Users \cup {None}
      /\ {} \in SUBSET Requests /\ {r} \in SUBSET Requests
      /\ cluster \in [Members -> {"ready", "noClient", "unknown"}]
  BY DEF TypeOK, Request
<1>1. ASSUME NEW q \in Request, Becomes(r, q), req[r].pc # "done", UNCHANGED external,
             Observe({}) \/ Observe({r})
      PROVE  Goal
  BY <1>0, <1>1, BecomesType
<1>2. ASSUME NEW a \in {"notFound", "noNamespaces", "internal"}, Fail(r, a)
      PROVE  \E q \in Request : Becomes(r, q)
  BY <1>0, <1>2, FailedType DEF Fail
<1>3. ASSUME NEW u \in Users, Start(r, u)
      PROVE  Goal /\ UNCHANGED ns
  BY <1>0, <1>1, <1>3, StartedType DEF Start
<1>4. CASE CallFails(r)
  BY <1>1, <1>2, <1>4, NamespacesStay DEF CallFails
<1>5. CASE GetSignup(r)
  <2>1. \E q \in Request : Becomes(r, q)
    BY <1>0, <1>2, <1>5, PcType DEF GetSignup, Step
  <2> QED
    BY <1>1, <1>5, <2>1, NamespacesStay DEF GetSignup
<1>6. CASE GetSpace(r)
  <2> DEFINE M == TargetMembers(space[req[r].user])
  <2>1. M \in SUBSET Members
    BY DEF TargetMembers
  <2>2. Fail(r, "internal") \/ Becomes(r, [req[r] EXCEPT !.pc = "members", !.members = M])
    BY <1>6 DEF GetSpace
  <2> HIDE DEF M
  <2>3. \E q \in Request : Becomes(r, q)
    BY <1>0, <1>2, <2>1, <2>2, MembersType
  <2> QED
    BY <1>1, <1>6, <2>3, NamespacesStay DEF GetSpace
<1>7. CASE NextMember(r)
  <2>1. req[r].members \in SUBSET Members
    BY <1>0 DEF Request
  <2>2. \E q \in Request : Becomes(r, q)
    <3>1. CASE req[r].members = {}
      BY <1>0, <1>7, <3>1, AcceptedType DEF NextMember
    <3>2. CASE req[r].members # {}
      <4>1. PICK m \in req[r].members :
              \/ Fail(r, "internal")
              \/ Becomes(r, [req[r] EXCEPT !.pc = "status", !.member = m,
                                           !.members = req[r].members \ {m}])
        BY <1>7, <3>2 DEF NextMember
      <4>2. m \in Members /\ req[r].members \ {m} \in SUBSET Members
        BY <2>1
      <4>3. [req[r] EXCEPT !.pc = "status", !.member = m, !.members = req[r].members \ {m}] \in Request
        BY <1>0, <4>2, MemberType
      <4> QED
        BY <1>2, <4>1, <4>3
    <3> QED
      BY <3>1, <3>2
  <2> QED
    BY <1>1, <1>7, <2>2, NamespacesStay DEF NextMember
<1>8. CASE GetNSTemplateSet(r)
  <2> DEFINE L == status[req[r].member][req[r].user]
             s == Instances(req[r].member, L)
  <2>1. /\ req[r].pc = "status" /\ UNCHANGED ns
        /\ \/ Fail(r, "internal") \/ Fail(r, "noNamespaces")
           \/ /\ L \notin {None, {}}
              /\ Becomes(r, [req[r] EXCEPT !.pc = "delete", !.listed = L, !.left = L, !.seen = s])
    BY <1>8 DEF GetNSTemplateSet
  <2>2. req[r].member \in Members /\ req[r].user \in Users
    BY <2>1
  <2>3. L = None \/ L \in SUBSET Namespaces
    BY <2>2 DEF TypeOK
  <2>4. ASSUME L \in SUBSET Namespaces
        PROVE  s \in [Namespaces -> 0 .. MaxInstances]
    BY <2>2, <2>4, InstancesType
  <2> HIDE DEF L, s
  <2>5. \E q \in Request : Becomes(r, q)
    BY <1>0, <1>2, <2>1, <2>3, <2>4, ListedType
  <2> QED
    BY <1>1, <1>8, <2>1, <2>5, NamespacesStay DEF GetNSTemplateSet
<1>9. ASSUME NEW n \in req[r].left, NEW error, AfterDelete(r, n, error)
      PROVE  \E q \in Request : Becomes(r, q)
  <2> DEFINE pc == IF req[r].left = {n} THEN "members" ELSE "delete"
  <2>1. req[r].left \ {n} \in SUBSET Namespaces /\ pc \in {"members", "delete"}
    BY <1>0 DEF Request
  <2>2. \/ Fail(r, "internal")
        \/ Becomes(r, [req[r] EXCEPT !.left = req[r].left \ {n}, !.pc = pc])
    BY <1>9 DEF AfterDelete
  <2> HIDE DEF pc
  <2> QED
    BY <1>0, <1>2, <2>1, <2>2, LeftType
<1>10. CASE Delete(r) \/ DeleteFails(r)
  <2>1. PICK n \in req[r].left :
          /\ \E error \in {None, "notFound", "error"} : AfterDelete(r, n, error)
          /\ UNCHANGED ns \/ ns' = Terminated(req[r].member, n)
    BY <1>10 DEF Delete, DeleteFails
  <2>2. /\ req[r].pc = "delete" /\ UNCHANGED external
        /\ Observe({}) \/ Observe({r})
    BY <1>10 DEF Delete, DeleteFails
  <2>3. \E q \in Request : Becomes(r, q)
    BY <1>9, <2>1
  <2>4. n \in Namespaces /\ req[r].member \in Members
    BY <1>0, <2>2 DEF Request
  <2> QED
    BY <1>1, <2>1, <2>2, <2>3, <2>4, NamespacesStay, TerminatedAdvances
<1> QED
  BY <1>3, <1>4, <1>5, <1>6, <1>7, <1>8, <1>10, NamespacesStay DEF Handle

-----------------------------------------------------------------------------
(* The inductive invariant.                                                *)

\* One reset goes through one member cluster at most, and what it has deleted of the namespaces
\* found there stays reset.
ResetOK(r) ==
  /\ req[r].pc # "done" => req[r].answer = None
  /\ InFlight(r) => req[r].user \in Users
  /\ req[r].pc \in {"idle", "signup", "space", "status"} => req[r].listed = {}
  /\ req[r].pc \in {"status", "delete"} => req[r].member \in Members /\ req[r].members = {}
  /\ req[r].pc = "members" =>
       \/ req[r].listed = {} /\ \E m \in Members : req[r].members \subseteq {m}
       \/ req[r].members = {}
  /\ req[r].listed # {} => req[r].member \in Members
  /\ \A n \in req[r].listed :
       /\ req[r].seen[n] <= ns[req[r].member][n].instance
       /\ IsReset(r, n) \/ (req[r].pc = "delete" /\ n \in req[r].left)

\* A reset in whose way nothing stands is about the cluster that the user's Space targets.
QuietOK(r) ==
  quiet[r] =>
    /\ InFlight(r) => InOrder(req[r].user)
    /\ req[r].pc = "members" => req[r].members \subseteq {space[req[r].user]}
    /\ req[r].pc \in {"status", "delete"} => req[r].member = space[req[r].user]
    /\ req[r].answer \in {"accepted", "noNamespaces", None}

IInv ==
  /\ TypeOK
  /\ \A r \in Requests : ResetOK(r) /\ QuietOK(r)

LEMMA InitInvariant == Init => IInv
<1> SUFFICES ASSUME Init PROVE IInv
  OBVIOUS
<1>1. TypeOK
  <2>1. PICK target \in [Users -> Members] :
          /\ space = target
          /\ status = [m \in Members |-> [u \in Users |-> IF target[u] = m THEN {} ELSE None]]
    BY DEF Init
  <2>2. ASSUME NEW m \in Members
        PROVE  [u \in Users |-> IF target[u] = m THEN {} ELSE None]
                 \in [Users -> (SUBSET Namespaces) \cup {None}]
    OBVIOUS
  <2>3. status \in [Members -> [Users -> (SUBSET Namespaces) \cup {None}]]
    BY <2>1, <2>2
  <2>4. [instance |-> 0, phase |-> "absent"] \in Namespace
    BY NamespacesResetAssumption DEF Namespace
  <2> QED
    BY <2>1, <2>3, <2>4, IdleType DEF Init, TypeOK
<1>2. ASSUME NEW r \in Requests
      PROVE  ResetOK(r) /\ QuietOK(r)
  <2>1. req[r] = Idle
    BY DEF Init
  <2> QED
    BY <2>1, IdleType DEF ResetOK, QuietOK, InFlight
<1> QED
  BY <1>1, <1>2 DEF IInv

\* A namespace that was reset stays reset.
LEMMA ResetStays ==
  ASSUME TypeOK, NamespacesAdvance, ns' \in [Members -> [Namespaces -> Namespace]],
         NEW r \in Requests, ResetOK(r), req'[r] = req[r]
  PROVE  ResetOK(r)'
<1>1. req[r] \in Request /\ \A n \in Namespaces : req[r].seen[n] \in Nat
  BY NamespacesResetAssumption DEF TypeOK, Request
<1>2. ASSUME NEW n \in req[r].listed
      PROVE  /\ req[r].seen[n] <= ns'[req[r].member][n].instance
             /\ \/ ns'[req[r].member][n].phase # "live"
                \/ ns'[req[r].member][n].instance > req[r].seen[n]
                \/ req[r].pc = "delete" /\ n \in req[r].left
  <2>1. n \in Namespaces /\ req[r].member \in Members
    BY <1>1 DEF ResetOK, Request
  <2> DEFINE old == ns[req[r].member][n]
             new == ns'[req[r].member][n]
  <2>2. /\ req[r].seen[n] <= old.instance
        /\ \/ old.phase # "live" \/ old.instance > req[r].seen[n]
           \/ req[r].pc = "delete" /\ n \in req[r].left
    BY DEF ResetOK, IsReset
  <2>3. /\ old.instance <= new.instance
        /\ new.phase = "live" => old.phase = "live" \/ old.instance < new.instance
    BY <2>1 DEF NamespacesAdvance, Advance
  <2>4. old.instance \in Nat /\ new.instance \in Nat /\ req[r].seen[n] \in Nat
    BY <1>1, <2>1, NamespacesResetAssumption DEF TypeOK, Namespace
  <2>5. /\ req[r].seen[n] <= new.instance
        /\ \/ new.phase # "live" \/ new.instance > req[r].seen[n]
           \/ req[r].pc = "delete" /\ n \in req[r].left
    <3> HIDE DEF old, new
    <3> QED
      BY <2>2, <2>3, <2>4
  <2> QED
    BY <2>5
<1> QED
  BY <1>2 DEF ResetOK, IsReset, InFlight

\* What Observe tells of a reset that is not done.
LEMMA QuietMeans ==
  ASSUME NEW F, Observe(F), NEW r \in Requests
  PROVE  /\ req[r].pc = "done" => quiet'[r] = quiet[r]
         /\ req[r].pc # "done" /\ quiet'[r] =>
              /\ quiet[r] /\ r \notin F
              /\ \A u \in Users : u = req'[r].user => InOrder(u)' /\ space'[u] = space[u]
<1>1. quiet'[r] = IF req[r].pc = "done" THEN quiet[r]
                  ELSE /\ quiet[r] /\ r \notin F
                       /\ \A u \in Users :
                            u = req'[r].user => InOrder(u)' /\ space'[u] = space[u]
  BY DEF Observe
<1> QED
  BY <1>1, Zenon

LEMMA QuietType ==
  ASSUME TypeOK, NEW F, Observe(F)
  PROVE  quiet' \in [Requests -> BOOLEAN]
BY DEF Observe, TypeOK

\* A step that leaves a reset where it is keeps both of its invariants.
LEMMA OthersStay ==
  ASSUME TypeOK, NamespacesAdvance, ns' \in [Members -> [Namespaces -> Namespace]],
         NEW r \in Requests, ResetOK(r), QuietOK(r), req'[r] = req[r], NEW F, Observe(F)
  PROVE  ResetOK(r)' /\ QuietOK(r)'
<1>1. ResetOK(r)'
  BY ResetStays
<1>2. PICK u : u = req[r].user
  OBVIOUS
<1>3. InFlight(r) => u \in Users
  BY <1>2 DEF ResetOK
<1>4. ASSUME quiet'[r]
      PROVE  quiet[r] /\ (InFlight(r) => InOrder(u)' /\ space'[u] = space[u])
  <2>1. CASE req[r].pc = "done"
    BY <1>4, <2>1, QuietMeans DEF InFlight
  <2>2. CASE req[r].pc # "done"
    BY <1>2, <1>3, <1>4, <2>2, QuietMeans
  <2> QED
    BY <2>1, <2>2
<1>5. InFlight(r) <=> req[r].pc \notin {"idle", "done"}
  BY DEF InFlight
<1>6. QuietOK(r)'
  <2> SUFFICES ASSUME quiet'[r]
               PROVE  /\ InFlight(r) => InOrder(u)'
                      /\ req[r].pc = "members" => req[r].members \subseteq {space'[u]}
                      /\ req[r].pc \in {"status", "delete"} => req[r].member = space'[u]
                      /\ req[r].answer \in {"accepted", "noNamespaces", None}
    BY <1>2 DEF QuietOK, InFlight
  <2> QED
    BY <1>2, <1>4, <1>5 DEF QuietOK
<1> QED
  BY <1>1, <1>6

-----------------------------------------------------------------------------
(* The reset that moves.                                                   *)

LEMMA FailKeeps ==
  ASSUME TypeOK, NEW r \in Requests, NEW a \in {"notFound", "noNamespaces", "internal"},
         Fail(r, a)
  PROVE  /\ req'[r].pc = "done" /\ req'[r].answer = a
         /\ ResetOK(r)'
         /\ a = "noNamespaces" => QuietOK(r)'
<1>1. req[r].user \in Users \cup {None}
  BY DEF TypeOK, Request
<1>2. /\ req'[r].pc = "done" /\ req'[r].listed = {} /\ req'[r].answer = a
  BY <1>1, FailedType, BecomesType DEF Fail
<1> QED
  BY <1>2 DEF ResetOK, QuietOK, InFlight

\* A reset that goes on before it has listed anything.
LEMMA NothingListed ==
  ASSUME NEW r \in Requests, req'[r].listed = {}, req'[r].pc # "done", req'[r].answer = None,
         req'[r].user \in Users,
         req'[r].pc \in {"status", "delete"} => req'[r].member \in Members /\ req'[r].members = {},
         req'[r].pc = "members" => \E m \in Members : req'[r].members \subseteq {m}
  PROVE  ResetOK(r)'
BY DEF ResetOK

LEMMA StartKeeps ==
  ASSUME TypeOK, NEW r \in Requests, NEW u \in Users, ResetOK(r), QuietOK(r), Start(r, u)
  PROVE  ResetOK(r)' /\ QuietOK(r)'
<1>1. req[r] \in Request /\ req[r].pc = "idle" /\ req[r].listed = {} /\ req[r].answer = None
  BY DEF TypeOK, ResetOK, Start
<1>2. /\ req'[r].pc = "signup" /\ req'[r].user = u
      /\ req'[r].listed = {} /\ req'[r].answer = None
  <2>1. req'[r] = [req[r] EXCEPT !.pc = "signup", !.user = u]
    BY <1>1, StartedType, BecomesType DEF Start
  <2> QED
    BY <1>1, <2>1 DEF Request
<1>3. quiet'[r] => InOrder(u)'
  BY <1>1, <1>2, QuietMeans DEF Start
<1> QED
  BY <1>2, <1>3, NothingListed DEF QuietOK

\* What Observe and the state before tell a handler: its user is in order, unless it is not quiet.
LEMMA HandlerIsQuiet ==
  ASSUME NEW r \in Requests, QuietOK(r), InFlight(r), UNCHANGED external, NEW F, Observe(F)
  PROVE  /\ quiet'[r] => quiet[r] /\ r \notin F /\ InOrder(req[r].user)
         /\ \A u \in Users : InOrder(u)' <=> InOrder(u)
<1>1. req[r].pc # "done"
  BY DEF InFlight
<1>2. quiet'[r] => quiet[r] /\ r \notin F
  BY <1>1, QuietMeans
<1> QED
  BY <1>2 DEF QuietOK, InOrder, external

LEMMA GetSignupKeeps ==
  ASSUME TypeOK, NEW r \in Requests, ResetOK(r), QuietOK(r), GetSignup(r)
  PROVE  ResetOK(r)' /\ QuietOK(r)'
<1>1. /\ req[r] \in Request /\ req[r].pc = "signup" /\ req[r].listed = {}
      /\ req[r].answer = None /\ req[r].user \in Users /\ InFlight(r)
  BY DEF TypeOK, ResetOK, GetSignup, InFlight
<1>2. PICK u \in Users : u = req[r].user
  BY <1>1
<1>3. /\ quiet'[r] => quiet[r] /\ InOrder(u)
      /\ InOrder(u)' <=> InOrder(u)
  BY <1>1, <1>2, HandlerIsQuiet DEF GetSignup
<1>4. CASE signup[u] = "named"
  <2>1. Becomes(r, [req[r] EXCEPT !.pc = "space"])
    BY <1>2, <1>4 DEF GetSignup, Step
  <2>2. req'[r] = [req[r] EXCEPT !.pc = "space"]
    BY <1>1, <2>1, PcType, BecomesType
  <2>3. /\ req'[r].pc = "space" /\ req'[r].user = u
        /\ req'[r].listed = {} /\ req'[r].answer = None
    BY <1>1, <1>2, <2>2 DEF Request
  <2> QED
    BY <1>3, <2>3, NothingListed DEF QuietOK
<1>5. CASE signup[u] # "named"
  <2>1. Fail(r, "notFound")
    BY <1>2, <1>5 DEF GetSignup
  <2>2. ~ quiet'[r]
    BY <1>3, <1>5 DEF InOrder
  <2> QED
    BY <2>1, <2>2, FailKeeps DEF QuietOK
<1> QED
  BY <1>4, <1>5

LEMMA GetSpaceKeeps ==
  ASSUME TypeOK, NEW r \in Requests, ResetOK(r), QuietOK(r), GetSpace(r)
  PROVE  ResetOK(r)' /\ QuietOK(r)'
<1>1. /\ req[r] \in Request /\ req[r].pc = "space" /\ req[r].listed = {}
      /\ req[r].answer = None /\ req[r].user \in Users /\ InFlight(r)
  BY DEF TypeOK, ResetOK, GetSpace, InFlight
<1>2. PICK u \in Users : u = req[r].user
  BY <1>1
<1>3. /\ quiet'[r] => quiet[r] /\ InOrder(u)
      /\ InOrder(u)' <=> InOrder(u)
      /\ space' = space
  BY <1>1, <1>2, HandlerIsQuiet DEF GetSpace, external
<1> DEFINE M == TargetMembers(space[u])
<1>4. /\ M \in SUBSET Members /\ M \subseteq {space[u]}
      /\ InOrder(u) => M # {}
  <2>1. space[u] \in Members \cup {None}
    BY <1>2 DEF TypeOK
  <2> QED
    BY <2>1 DEF TargetMembers, InOrder
<1>5. \/ Fail(r, "internal") /\ (space[u] = None \/ M = {})
      \/ M # {} /\ Becomes(r, [req[r] EXCEPT !.pc = "members", !.members = M])
  BY <1>2 DEF GetSpace
<1> HIDE DEF M
<1>6. CASE Fail(r, "internal") /\ (space[u] = None \/ M = {})
  <2>1. ~ quiet'[r]
    BY <1>3, <1>4, <1>6 DEF InOrder
  <2> QED
    BY <1>6, <2>1, FailKeeps DEF QuietOK
<1>7. CASE M # {} /\ Becomes(r, [req[r] EXCEPT !.pc = "members", !.members = M])
  <2>1. req'[r] = [req[r] EXCEPT !.pc = "members", !.members = M]
    BY <1>1, <1>4, <1>7, MembersType, BecomesType
  <2>2. /\ req'[r].pc = "members" /\ req'[r].user = u /\ req'[r].members = M
        /\ req'[r].listed = {} /\ req'[r].answer = None
    BY <1>1, <1>2, <2>1 DEF Request
  <2>3. \E m \in Members : M \subseteq {m}
    BY <1>4, <1>7
  <2>4. ResetOK(r)'
    BY <2>2, <2>3, NothingListed
  <2>5. space'[req'[r].user] = space[u]
    BY <1>3, <2>2
  <2> QED
    BY <1>3, <1>4, <2>2, <2>4, <2>5 DEF QuietOK
<1> QED
  BY <1>5, <1>6, <1>7

LEMMA NextMemberKeeps ==
  ASSUME TypeOK, NEW r \in Requests, ResetOK(r), QuietOK(r), NextMember(r)
  PROVE  ResetOK(r)' /\ QuietOK(r)'
<1>1. /\ req[r] \in Request /\ req[r].pc = "members" /\ req[r].members \in SUBSET Members
      /\ req[r].answer = None /\ req[r].user \in Users /\ InFlight(r)
      /\ ns' = ns
  BY DEF TypeOK, ResetOK, NextMember, InFlight, Request
<1>2. PICK u \in Users : u = req[r].user
  BY <1>1
<1>3. /\ quiet'[r] => quiet[r] /\ InOrder(u)
      /\ InOrder(u)' <=> InOrder(u)
      /\ space' = space
  BY <1>1, <1>2, HandlerIsQuiet DEF NextMember, external
<1>4. CASE req[r].members = {}
  <2>1. Becomes(r, [req[r] EXCEPT !.pc = "done", !.answer = "accepted"])
    BY <1>4 DEF NextMember
  <2>2. req'[r] = [req[r] EXCEPT !.pc = "done", !.answer = "accepted"]
    BY <1>1, <2>1, AcceptedType, BecomesType
  <2>3. /\ req'[r].pc = "done" /\ req'[r].answer = "accepted"
        /\ req'[r].listed = req[r].listed /\ req'[r].seen = req[r].seen
        /\ req'[r].member = req[r].member
    BY <1>1, <2>2 DEF Request
  <2>4. /\ req[r].listed # {} => req[r].member \in Members
        /\ \A n \in req[r].listed :
             req[r].seen[n] <= ns[req[r].member][n].instance /\ IsReset(r, n)
    BY <1>1 DEF ResetOK
  <2>5. ResetOK(r)'
    BY <1>1, <2>3, <2>4 DEF ResetOK, IsReset, InFlight
  <2> QED
    BY <2>3, <2>5 DEF QuietOK, InFlight
<1>5. CASE req[r].members # {}
  <2>1. PICK m \in req[r].members :
          \/ cluster[m] # "ready" /\ Fail(r, "internal")
          \/ Becomes(r, [req[r] EXCEPT !.pc = "status", !.member = m,
                                       !.members = req[r].members \ {m}])
    BY <1>5 DEF NextMember
  <2>2. /\ m \in Members /\ req[r].members \ {m} = {} /\ req[r].listed = {}
        /\ quiet[r] => m = space[u]
    BY <1>1, <1>2, <1>5 DEF ResetOK, QuietOK
  <2>3. CASE cluster[m] # "ready" /\ Fail(r, "internal")
    <3>1. ~ quiet'[r]
      BY <1>3, <2>2, <2>3 DEF InOrder
    <3> QED
      BY <2>3, <3>1, FailKeeps DEF QuietOK
  <2>4. CASE Becomes(r, [req[r] EXCEPT !.pc = "status", !.member = m,
                                       !.members = req[r].members \ {m}])
    <3>1. req'[r] = [req[r] EXCEPT !.pc = "status", !.member = m, !.members = {}]
      BY <1>1, <2>2, <2>4, MemberType, BecomesType
    <3>2. /\ req'[r].pc = "status" /\ req'[r].user = u /\ req'[r].member = m
          /\ req'[r].members = {} /\ req'[r].listed = {} /\ req'[r].answer = None
      BY <1>1, <1>2, <2>2, <3>1 DEF Request
    <3>3. ResetOK(r)'
      BY <2>2, <3>2, NothingListed
    <3> QED
      BY <1>3, <2>2, <3>2, <3>3 DEF QuietOK
  <2> QED
    BY <2>1, <2>3, <2>4
<1> QED
  BY <1>4, <1>5

LEMMA GetNSTemplateSetKeeps ==
  ASSUME TypeOK, NEW r \in Requests, ResetOK(r), QuietOK(r), GetNSTemplateSet(r)
  PROVE  ResetOK(r)' /\ QuietOK(r)'
<1>1. /\ req[r] \in Request /\ req[r].pc = "status" /\ req[r].member \in Members
      /\ req[r].members = {} /\ req[r].answer = None /\ req[r].user \in Users /\ InFlight(r)
      /\ ns' = ns
  BY DEF TypeOK, ResetOK, GetNSTemplateSet, InFlight
<1>2. PICK u \in Users, m \in Members : u = req[r].user /\ m = req[r].member
  BY <1>1
<1>3. /\ quiet'[r] => quiet[r] /\ InOrder(u)
      /\ InOrder(u)' <=> InOrder(u)
      /\ space' = space
  BY <1>1, <1>2, HandlerIsQuiet DEF GetNSTemplateSet, external
<1>4. quiet[r] => m = space[u]
  BY <1>1, <1>2 DEF QuietOK
<1> DEFINE L == status[m][u]
           s == Instances(m, L)
<1>5. \/ L = None /\ Fail(r, "internal")
      \/ Fail(r, "noNamespaces")
      \/ /\ L # None
         /\ Becomes(r, [req[r] EXCEPT !.pc = "delete", !.listed = L, !.left = L, !.seen = s])
  BY <1>2 DEF GetNSTemplateSet
<1>6. CASE L = None /\ Fail(r, "internal")
  <2>1. ~ quiet'[r]
    BY <1>3, <1>4, <1>6 DEF InOrder
  <2> QED
    BY <1>6, <2>1, FailKeeps DEF QuietOK
<1>7. CASE Fail(r, "noNamespaces")
  BY <1>7, FailKeeps
<1>8. CASE /\ L # None
           /\ Becomes(r, [req[r] EXCEPT !.pc = "delete", !.listed = L, !.left = L, !.seen = s])
  <2>1. L \in SUBSET Namespaces
    BY <1>8 DEF TypeOK
  <2>2. /\ s \in [Namespaces -> 0 .. MaxInstances]
        /\ \A n \in L : s[n] = ns[m][n].instance /\ ns[m][n].instance \in Nat
    BY <2>1, InstancesType
  <2> HIDE DEF L, s
  <2>3. req'[r] = [req[r] EXCEPT !.pc = "delete", !.listed = L, !.left = L, !.seen = s]
    BY <1>1, <1>8, <2>1, <2>2, ListedType, BecomesType
  <2>4. /\ req'[r].pc = "delete" /\ req'[r].user = u /\ req'[r].member = m
        /\ req'[r].members = {} /\ req'[r].listed = L /\ req'[r].left = L
        /\ req'[r].seen = s /\ req'[r].answer = None
    BY <1>1, <1>2, <2>3 DEF Request
  <2>5. \A n \in L : s[n] <= ns[m][n].instance
    BY <2>2
  <2>6. ResetOK(r)'
    BY <1>1, <2>4, <2>5 DEF ResetOK
  <2> QED
    BY <1>3, <1>4, <2>4, <2>6 DEF QuietOK
<1> QED
  BY <1>5, <1>6, <1>7, <1>8

\* A namespace has been deleted, or it was not there any more: it is reset.
LEMMA DeletedKeeps ==
  ASSUME TypeOK, NEW r \in Requests, ResetOK(r), QuietOK(r), req[r].pc = "delete",
         NEW n \in req[r].left, UNCHANGED external, Observe({}),
         Becomes(r, [req[r] EXCEPT !.left = req[r].left \ {n},
                                   !.pc = IF req[r].left = {n} THEN "members" ELSE "delete"]),
         NamespacesAdvance, ns' \in [Members -> [Namespaces -> Namespace]],
         ns'[req[r].member][n].phase # "live"
  PROVE  ResetOK(r)' /\ QuietOK(r)'
<1>1. /\ req[r] \in Request /\ req[r].member \in Members /\ req[r].members = {}
      /\ req[r].answer = None /\ req[r].user \in Users /\ InFlight(r)
      /\ req[r].left \in SUBSET Namespaces /\ req[r].listed \in SUBSET Namespaces
      /\ \A k \in Namespaces : req[r].seen[k] \in Nat
  BY NamespacesResetAssumption DEF TypeOK, ResetOK, InFlight, Request
<1>2. PICK u \in Users, m \in Members : u = req[r].user /\ m = req[r].member
  BY <1>1
<1>3. /\ quiet'[r] => quiet[r] /\ InOrder(u)
      /\ InOrder(u)' <=> InOrder(u)
      /\ space' = space
  BY <1>1, <1>2, HandlerIsQuiet DEF external
<1>4. quiet[r] => m = space[u]
  BY <1>2 DEF QuietOK
<1> DEFINE left == req[r].left \ {n}
           pc == IF req[r].left = {n} THEN "members" ELSE "delete"
<1>5. left \in SUBSET Namespaces /\ pc \in {"members", "delete"} /\ (pc = "members" => left = {})
  BY <1>1
<1>6. req'[r] = [req[r] EXCEPT !.left = left, !.pc = pc]
  <2>1. Becomes(r, [req[r] EXCEPT !.left = left, !.pc = pc])
    OBVIOUS
  <2> HIDE DEF left, pc
  <2> QED
    BY <1>1, <1>5, <2>1, LeftType, BecomesType
<1>7. /\ req'[r].pc = pc /\ req'[r].left = left /\ req'[r].user = u /\ req'[r].member = m
      /\ req'[r].members = {} /\ req'[r].listed = req[r].listed /\ req'[r].seen = req[r].seen
      /\ req'[r].answer = None
  <2> HIDE DEF left, pc
  <2> QED
    BY <1>1, <1>2, <1>6 DEF Request
<1>8. ASSUME NEW k \in req[r].listed
      PROVE  /\ req[r].seen[k] <= ns'[m][k].instance
             /\ \/ ns'[m][k].phase # "live" \/ ns'[m][k].instance > req[r].seen[k]
                \/ pc = "delete" /\ k \in left
  <2>1. k \in Namespaces
    BY <1>1
  <2>2. /\ ns[m][k].instance \in Nat /\ ns'[m][k].instance \in Nat /\ req[r].seen[k] \in Nat
    BY <1>1, <2>1, NamespacesResetAssumption DEF TypeOK, Namespace
  <2>3. /\ req[r].seen[k] <= ns[m][k].instance
        /\ \/ ns[m][k].phase # "live" \/ ns[m][k].instance > req[r].seen[k]
           \/ k \in req[r].left
    BY <1>2 DEF ResetOK, IsReset
  <2>4. /\ ns[m][k].instance <= ns'[m][k].instance
        /\ ns'[m][k].phase = "live" => ns[m][k].phase = "live" \/ ns[m][k].instance < ns'[m][k].instance
    BY <2>1 DEF NamespacesAdvance, Advance
  <2>5. k \in req[r].left => ns'[m][k].phase # "live" \/ (pc = "delete" /\ k \in left)
    BY <1>2
  <2> HIDE DEF left, pc
  <2> QED
    BY <2>2, <2>3, <2>4, <2>5
<1> HIDE DEF left, pc
<1>9. ResetOK(r)'
  BY <1>1, <1>2, <1>5, <1>7, <1>8 DEF ResetOK, IsReset
<1> QED
  BY <1>3, <1>4, <1>5, <1>7, <1>9 DEF QuietOK

LEMMA DeleteKeeps ==
  ASSUME TypeOK, NEW r \in Requests, ResetOK(r), QuietOK(r), Delete(r) \/ DeleteFails(r),
         NamespacesAdvance, ns' \in [Members -> [Namespaces -> Namespace]]
  PROVE  ResetOK(r)' /\ QuietOK(r)'
<1>1. /\ req[r].pc = "delete" /\ req[r].member \in Members /\ UNCHANGED external /\ InFlight(r)
      /\ req[r].left \in SUBSET Namespaces
  BY DEF Delete, DeleteFails, ResetOK, InFlight, TypeOK, Request
<1>2. CASE Delete(r)
  <2>1. PICK n \in req[r].left :
          \/ ns[req[r].member][n].phase = "absent" /\ AfterDelete(r, n, "notFound") /\ UNCHANGED ns
          \/ AfterDelete(r, n, None) /\ ns' = Terminated(req[r].member, n)
    BY <1>2 DEF Delete
  <2>2. ns'[req[r].member][n].phase # "live"
    <3>1. CASE ns[req[r].member][n].phase = "absent" /\ UNCHANGED ns
      BY <3>1
    <3>2. CASE ns' = Terminated(req[r].member, n)
      <4>1. n \in Namespaces
        BY <1>1
      <4>2. ns'[req[r].member][n].phase = "terminating"
        BY <1>1, <3>2, <4>1, TerminatedAdvances
      <4> QED
        BY <4>2
    <3> QED
      BY <2>1, <3>1, <3>2
  <2>3. Becomes(r, [req[r] EXCEPT !.left = req[r].left \ {n},
                                  !.pc = IF req[r].left = {n} THEN "members" ELSE "delete"])
    BY <2>1 DEF AfterDelete, Tolerated
  <2> QED
    BY <1>1, <1>2, <2>2, <2>3, DeletedKeeps DEF Delete
<1>3. CASE DeleteFails(r)
  <2>1. Fail(r, "internal") /\ Observe({r})
    BY <1>3, NamespacesResetAssumption DEF DeleteFails, AfterDelete, Tolerated
  <2>2. ~ quiet'[r]
    BY <1>1, <2>1, HandlerIsQuiet
  <2> QED
    BY <2>1, <2>2, FailKeeps DEF QuietOK
<1> QED
  BY <1>2, <1>3

LEMMA CallFailsKeeps ==
  ASSUME TypeOK, NEW r \in Requests, QuietOK(r), CallFails(r)
  PROVE  ResetOK(r)' /\ QuietOK(r)'
<1>1. InFlight(r) /\ Fail(r, "internal") /\ UNCHANGED external /\ Observe({r})
  BY DEF CallFails, InFlight
<1>2. ~ quiet'[r]
  BY <1>1, HandlerIsQuiet
<1> QED
  BY <1>1, <1>2, FailKeeps DEF QuietOK

LEMMA TypeParts ==
  ASSUME ExternalOK', req' \in [Requests -> Request],
         ns' \in [Members -> [Namespaces -> Namespace]], quiet' \in [Requests -> BOOLEAN]
  PROVE  TypeOK'
BY DEF TypeOK, ExternalOK

LEMMA StepInvariant == IInv /\ [Next]_vars => IInv'
<1> SUFFICES ASSUME IInv, [Next]_vars PROVE IInv'
  OBVIOUS
<1>1. TypeOK /\ ExternalOK
  BY DEF IInv, TypeOK, ExternalOK
<1>2. ASSUME NEW r \in Requests, Handle(r) \/ \E u \in Users : Start(r, u)
      PROVE  IInv'
  <2>1. ResetOK(r) /\ QuietOK(r)
    BY DEF IInv
  <2>2. /\ req[r].user \in Users \/ req[r].pc = "idle"
        /\ req[r].member \in Members \/ req[r].pc \notin {"status", "delete"}
    <3>1. req[r].pc # "done"
      BY <1>2 DEF Handle, Start, CallFails, GetSignup, GetSpace, NextMember, GetNSTemplateSet,
                  Delete, DeleteFails
    <3> QED
      BY <2>1, <3>1 DEF ResetOK, InFlight
  <2>3. /\ req' \in [Requests -> Request] /\ UNCHANGED external
        /\ \A s \in Requests \ {r} : req'[s] = req[s]
        /\ ns' \in [Members -> [Namespaces -> Namespace]] /\ NamespacesAdvance
        /\ \E F \in SUBSET Requests : Observe(F)
    BY <1>1, <1>2, <2>2, HandlerStep
  <2>4. TypeOK'
    <3>1. ExternalOK'
      BY <1>1, <2>3 DEF ExternalOK, external
    <3> QED
      BY <1>1, <2>3, <3>1, QuietType, TypeParts
  <2>5. ASSUME NEW s \in Requests \ {r}
        PROVE  ResetOK(s)' /\ QuietOK(s)'
    <3>1. ResetOK(s) /\ QuietOK(s)
      BY DEF IInv
    <3> QED
      BY <1>1, <2>3, <3>1, OthersStay
  <2>6. ResetOK(r)' /\ QuietOK(r)'
    <3>1. CASE \E u \in Users : Start(r, u)
      BY <1>1, <2>1, <3>1, StartKeeps
    <3>2. CASE GetSignup(r)
      BY <1>1, <2>1, <3>2, GetSignupKeeps
    <3>3. CASE GetSpace(r)
      BY <1>1, <2>1, <3>3, GetSpaceKeeps
    <3>4. CASE NextMember(r)
      BY <1>1, <2>1, <3>4, NextMemberKeeps
    <3>5. CASE GetNSTemplateSet(r)
      BY <1>1, <2>1, <3>5, GetNSTemplateSetKeeps
    <3>6. CASE Delete(r) \/ DeleteFails(r)
      BY <1>1, <2>1, <2>3, <3>6, DeleteKeeps
    <3>7. CASE CallFails(r)
      BY <1>1, <2>1, <3>7, CallFailsKeeps
    <3> QED
      BY <1>2, <3>1, <3>2, <3>3, <3>4, <3>5, <3>6, <3>7 DEF Handle
  <2> QED
    BY <2>4, <2>5, <2>6 DEF IInv
<1>3. CASE Operate
  <2>1. /\ ExternalOK' /\ req' = req /\ Observe({})
        /\ ns' \in [Members -> [Namespaces -> Namespace]] /\ NamespacesAdvance
    BY <1>1, <1>3, OperateStep
  <2>2. TypeOK'
    <3>1. req' \in [Requests -> Request]
      BY <1>1, <2>1 DEF TypeOK
    <3> QED
      BY <1>1, <2>1, <3>1, QuietType, TypeParts
  <2>3. ASSUME NEW s \in Requests
        PROVE  ResetOK(s)' /\ QuietOK(s)'
    <3>1. ResetOK(s) /\ QuietOK(s)
      BY DEF IInv
    <3> QED
      BY <1>1, <2>1, <3>1, OthersStay
  <2> QED
    BY <2>2, <2>3 DEF IInv
<1>4. CASE UNCHANGED vars
  BY <1>4 DEF IInv, TypeOK, ResetOK, QuietOK, IsReset, InFlight, InOrder, vars, external
<1> QED
  BY <1>2, <1>3, <1>4 DEF Next

THEOREM Invariance == Spec => []IInv
BY InitInvariant, StepInvariant, PTL DEF Spec

-----------------------------------------------------------------------------
(* What a reset promises.                                                  *)

\* An accepted reset has reset every namespace that was listed: none was passed over for an error
\* (ResetNamespaces), whatever overlapping resets and the operators have done to them meanwhile.
THEOREM AcceptedResets == Spec => []AcceptedMeansReset
<1>1. IInv => AcceptedMeansReset
  <2> SUFFICES ASSUME IInv, NEW r \in Requests, req[r].answer = "accepted", NEW n \in req[r].listed
               PROVE  IsReset(r, n)
    BY DEF AcceptedMeansReset
  <2>1. ResetOK(r)
    BY DEF IInv
  <2>2. req[r].pc = "done"
    BY <2>1, NamespacesResetAssumption DEF ResetOK
  <2> QED
    BY <2>1, <2>2 DEF ResetOK
<1> QED
  BY <1>1, Invariance, PTL

\* The reset that a step moves.
LEMMA MovedByHandler ==
  ASSUME IInv, [Next]_vars, NEW r \in Requests, req'[r] # req[r]
  PROVE  Handle(r) \/ \E u \in Users : Start(r, u)
<1>1. TypeOK
  BY DEF IInv
<1>2. ASSUME NEW s \in Requests, Handle(s) \/ \E u \in Users : Start(s, u)
      PROVE  s = r
  <2>1. ResetOK(s) /\ TypeOK
    BY DEF IInv
  <2>2. req[s].pc # "done"
    BY <1>2 DEF Handle, Start, CallFails, GetSignup, GetSpace, NextMember, GetNSTemplateSet,
                Delete, DeleteFails
  <2>3. /\ req[s].user \in Users \/ req[s].pc = "idle"
        /\ req[s].member \in Members \/ req[s].pc \notin {"status", "delete"}
    BY <2>1, <2>2 DEF ResetOK, InFlight
  <2>4. \A q \in Requests \ {s} : req'[q] = req[q]
    BY <1>2, <2>1, <2>3, HandlerStep
  <2> QED
    BY <2>4
<1>3. ~ Operate /\ ~ UNCHANGED vars
  BY <1>1, OperateStep DEF vars
<1> QED
  BY <1>2, <1>3 DEF Next

\* A quiet reset is accepted, unless it is just then told by the NSTemplateSet that there is no
\* namespace (ResetNamespaces): once it has listed some, no overlapping reset makes it fail.
THEOREM QuietResetsSucceed == Spec => QuietResetSucceeds
<1> DEFINE Success(r) ==
             req'[r].answer = IF req[r].pc = "status" /\ status[req[r].member][req[r].user] = {}
                              THEN "noNamespaces" ELSE "accepted"
           Ends == \A r \in Requests : req[r].pc # "done" /\ req'[r].pc = "done" /\ quiet'[r]
                                         => Success(r)
<1>1. ASSUME IInv, [Next]_vars, NEW r \in Requests,
             req[r].pc # "done", req'[r].pc = "done", quiet'[r]
      PROVE  Success(r)
  <2>1. TypeOK /\ ResetOK(r) /\ req[r] \in Request
    BY <1>1 DEF IInv, TypeOK
  <2>2. req'[r].answer \in {"accepted", "noNamespaces", None}
    BY <1>1, StepInvariant DEF IInv, QuietOK
  <2>3. ~ Fail(r, "internal") /\ ~ Fail(r, "notFound")
    BY <2>1, <2>2, FailKeeps, NamespacesResetAssumption
  <2>4. Handle(r) \/ \E u \in Users : Start(r, u)
    BY <1>1, MovedByHandler
  <2>5. \A q \in Request : Becomes(r, q) => q.pc = "done"
    BY <1>1, <2>1, BecomesType
  <2>6. ~ \E u \in Users : Start(r, u)
    <3>1. ASSUME NEW u \in Users
          PROVE  ~ Becomes(r, [req[r] EXCEPT !.pc = "signup", !.user = u])
      <4>1. [req[r] EXCEPT !.pc = "signup", !.user = u].pc = "signup"
        BY <2>1 DEF Request
      <4> QED
        BY <2>1, <2>5, <4>1, StartedType
    <3> QED
      BY <3>1 DEF Start
  <2>7. ~ CallFails(r) /\ ~ GetSignup(r)
    <3>1. [req[r] EXCEPT !.pc = "space"].pc = "space"
      BY <2>1 DEF Request
    <3>2. ~ Step(r, "space")
      BY <2>1, <2>5, <3>1, PcType DEF Step
    <3> QED
      BY <2>3, <3>2 DEF CallFails, GetSignup
  <2>8. ~ GetSpace(r)
    <3>1. ASSUME NEW M \in SUBSET Members
          PROVE  ~ Becomes(r, [req[r] EXCEPT !.pc = "members", !.members = M])
      <4>1. [req[r] EXCEPT !.pc = "members", !.members = M].pc = "members"
        BY <2>1 DEF Request
      <4> QED
        BY <2>1, <2>5, <4>1, MembersType
    <3> QED
      BY <2>3, <3>1 DEF GetSpace, TargetMembers
  <2>9. CASE NextMember(r)
    <3>1. ASSUME NEW m \in req[r].members
          PROVE  ~ Becomes(r, [req[r] EXCEPT !.pc = "status", !.member = m,
                                             !.members = req[r].members \ {m}])
      <4>1. /\ [req[r] EXCEPT !.pc = "status", !.member = m,
                               !.members = req[r].members \ {m}].pc = "status"
            /\ req[r].members \in SUBSET Members
        BY <2>1 DEF Request
      <4> QED
        BY <2>1, <2>5, <4>1, MemberType
    <3>2. req[r].pc = "members" /\ Becomes(r, [req[r] EXCEPT !.pc = "done", !.answer = "accepted"])
      BY <2>3, <2>9, <3>1 DEF NextMember
    <3>3. req'[r] = [req[r] EXCEPT !.pc = "done", !.answer = "accepted"]
      BY <2>1, <3>2, AcceptedType, BecomesType
    <3> QED
      BY <2>1, <3>2, <3>3 DEF Request
  <2>10. CASE GetNSTemplateSet(r)
    <3> DEFINE L == status[req[r].member][req[r].user]
               s == Instances(req[r].member, L)
    <3>1. req[r].pc = "status" /\ req[r].member \in Members /\ req[r].user \in Users
      BY <2>1, <2>10 DEF GetNSTemplateSet, ResetOK, InFlight
    <3>2. ASSUME L # None
          PROVE  ~ Becomes(r, [req[r] EXCEPT !.pc = "delete", !.listed = L, !.left = L, !.seen = s])
      <4>1. L \in SUBSET Namespaces
        BY <2>1, <3>1, <3>2 DEF TypeOK
      <4>2. s \in [Namespaces -> 0 .. MaxInstances]
        BY <2>1, <3>1, <4>1, InstancesType
      <4> HIDE DEF L, s
      <4> QED
        <5>1. [req[r] EXCEPT !.pc = "delete", !.listed = L, !.left = L, !.seen = s].pc = "delete"
          BY <2>1 DEF Request
        <5> QED
          BY <2>1, <2>5, <4>1, <4>2, <5>1, ListedType
    <3>3. L = {} /\ Fail(r, "noNamespaces")
      BY <2>3, <2>10, <3>2 DEF GetNSTemplateSet
    <3> QED
      BY <2>1, <3>1, <3>3, FailKeeps
  <2>11. ~ Delete(r) /\ ~ DeleteFails(r)
    <3>1. ASSUME NEW n \in req[r].left, NEW pc \in {"members", "delete"}
          PROVE  ~ Becomes(r, [req[r] EXCEPT !.left = req[r].left \ {n}, !.pc = pc])
      <4>1. /\ [req[r] EXCEPT !.left = req[r].left \ {n}, !.pc = pc].pc = pc
            /\ req[r].left \ {n} \in SUBSET Namespaces
        BY <2>1 DEF Request
      <4> QED
        BY <2>1, <2>5, <4>1, LeftType
    <3>2. ASSUME NEW n \in req[r].left, NEW error
          PROVE  ~ AfterDelete(r, n, error)
      BY <2>3, <3>1 DEF AfterDelete
    <3> QED
      BY <3>2 DEF Delete, DeleteFails
  <2> QED
    BY <2>4, <2>6, <2>7, <2>8, <2>9, <2>10, <2>11 DEF Handle
<1>2. IInv /\ [Next]_vars => [Ends]_vars
  BY <1>1
<1> QED
  BY <1>2, Invariance, PTL DEF Spec, QuietResetSucceeds

\* A quiet reset deletes namespaces on the member cluster that the user's Space targets and on
\* no other (getMemberClustersFunc and its filter).
THEOREM OnlyTargetIsReset == Spec => OnlyTheTargetIsReset
<1> DEFINE OnTarget == \A r \in Requests, m \in Members, n \in Namespaces :
                         req'[r] # req[r] /\ ns'[m][n] # ns[m][n] /\ quiet[r]
                           => m = space[req[r].user]
<1>1. IInv /\ [Next]_vars => [OnTarget]_vars
  <2> SUFFICES ASSUME IInv, [Next]_vars,
                      NEW r \in Requests, NEW m \in Members, NEW n \in Namespaces,
                      req'[r] # req[r], ns'[m][n] # ns[m][n], quiet[r]
               PROVE  m = space[req[r].user]
    OBVIOUS
  <2>1. TypeOK /\ ResetOK(r) /\ QuietOK(r)
    BY DEF IInv
  <2>2. Handle(r) \/ \E u \in Users : Start(r, u)
    BY MovedByHandler
  <2>3. Delete(r) \/ DeleteFails(r)
    BY <2>2 DEF Handle, Start, CallFails, GetSignup, GetSpace, NextMember, GetNSTemplateSet
  <2>4. /\ req[r].pc = "delete"
        /\ \E k \in req[r].left : UNCHANGED ns \/ ns' = Terminated(req[r].member, k)
    BY <2>3 DEF Delete, DeleteFails
  <2>5. PICK k \in req[r].left : ns' = Terminated(req[r].member, k)
    BY <2>4
  <2>6. req[r].member \in Members /\ k \in Namespaces
    BY <2>1, <2>4 DEF TypeOK, ResetOK, Request
  <2>7. m = req[r].member
    BY <2>1, <2>5, <2>6, TerminatedAdvances
  <2> QED
    BY <2>1, <2>4, <2>7 DEF QuietOK
<1> QED
  BY <1>1, Invariance, PTL DEF Spec, OnlyTheTargetIsReset
=============================================================================
