--------------------------- MODULE HostStore_proofs ---------------------------
(***************************************************************************)
(* What the steps of the store and of the environment do to the versions   *)
(* of the UserSignups, for the proofs about the modules that use it.       *)
(***************************************************************************)
EXTENDS HostStore, TLAPS

\* Versions are only added.
LogGrows ==
  \A u \in Users : /\ Len(log'[u]) >= Len(log[u])
                   /\ \A i \in 1 .. Len(log[u]) : log'[u][i] = log[u][i]

LEMMA LatestType ==
  ASSUME StoreTypeOK, NEW u \in Users
  PROVE  /\ Latest(u) \in Signup \cup {Absent}
         /\ \A i \in 1 .. Len(log[u]) : log[u][i] \in Signup \cup {Absent}
         /\ \A p \in Replicas : Cached(p, u) \in Signup \cup {Absent}
BY DEF StoreTypeOK, Latest, Cached

\* A write adds one version of one UserSignup.
LEMMA NewVersionType ==
  ASSUME StoreTypeOK, NEW u \in Users, NEW s \in Signup \cup {Absent},
         NewVersion(u, s), UNCHANGED <<banned, now>>
  PROVE  /\ StoreTypeOK'
         /\ LogGrows
         /\ log'[u] = Append(log[u], s)
         /\ \A v \in Users \ {u} : log'[v] = log[v]
<1>1. /\ log' \in [Users -> Seq(Signup \cup {Absent})]
      /\ log'[u] = Append(log[u], s)
      /\ \A v \in Users \ {u} : log'[v] = log[v]
  BY DEF StoreTypeOK, NewVersion
<1>2. /\ Len(log'[u]) = Len(log[u]) + 1
      /\ \A i \in 1 .. Len(log[u]) : log'[u][i] = log[u][i]
      /\ \A v \in Users : Len(log[v]) \in Nat \ {0}
  BY <1>1 DEF StoreTypeOK
<1>3. LogGrows
  BY <1>1, <1>2 DEF LogGrows
<1>4. CASE FreshReads
  <2>1. seen' = [p \in Replicas |-> [seen[p] EXCEPT ![u] = Len(log[u]) + 1]]
    BY <1>4 DEF NewVersion
  <2>2. /\ seen' \in [Replicas -> [Users -> Nat]]
        /\ \A p \in Replicas : /\ seen'[p][u] = Len(log[u]) + 1
                               /\ \A v \in Users \ {u} : seen'[p][v] = seen[p][v]
    BY <1>2, <2>1 DEF StoreTypeOK
  <2>3. \A v \in Users : /\ Len(log'[v]) > 0
                         /\ \A p \in Replicas : seen'[p][v] \in 1 .. Len(log'[v])
    BY <1>1, <1>2, <2>2 DEF StoreTypeOK
  <2> QED
    BY <1>1, <1>3, <2>2, <2>3 DEF StoreTypeOK
<1>5. CASE ~FreshReads
  <2>1. seen' = seen
    BY <1>5 DEF NewVersion
  <2>2. \A v \in Users : /\ Len(log'[v]) > 0
                         /\ \A p \in Replicas : seen'[p][v] \in 1 .. Len(log'[v])
    BY <1>1, <1>2, <2>1 DEF StoreTypeOK
  <2> QED
    BY <1>1, <1>3, <2>1, <2>2 DEF StoreTypeOK
<1> QED
  BY <1>4, <1>5

LEMMA OperatorType ==
  ASSUME NEW s \in Signup
  PROVE  /\ Approved(s) \in Signup /\ Deactivated(s) \in Signup /\ ApprovedManually(s) \in Signup
         /\ \A u, c : c \in Conditions(u, s) => Reported(s, c) \in Signup
<1> DEFINE n == IF s.activated = None THEN 1 ELSE s.activated + 1
<1>1. n \in Opt(Nat)
  BY DEF Signup, Opt
<1>2. Approved(s) = [[s EXCEPT !.approval = "approved"] EXCEPT !.activated = n]
  BY DEF Approved, Signup
<1> HIDE DEF n
<1>5. Approved(s) \in Signup
  BY <1>1, <1>2 DEF Signup
<1>3. Deactivated(s) \in Signup
  BY DEF Deactivated, Signup, States
<1>4. ApprovedManually(s) \in Signup
  BY DEF ApprovedManually, SetApprovedManually, Signup, States
<1>6. \A u, c : c \in Conditions(u, s) => Reported(s, c) \in Signup
  BY DEF Conditions, Reported, Signup
<1> QED
  BY <1>3, <1>4, <1>5, <1>6

\* The environment's actions keep the store's types.
LEMMA StoreStepType ==
  ASSUME StoreTypeOK, StoreNext
  PROVE  StoreTypeOK' /\ LogGrows
<1> USE HostStoreAssumption
<1>1. CASE UNCHANGED log
  <2>1. LogGrows
    BY <1>1 DEF LogGrows, StoreTypeOK
  <2>2. ASSUME NEW p \in Replicas, NEW u \in Users, InformerSync(p, u)
        PROVE  StoreTypeOK'
    <3>1. /\ seen' \in [Replicas -> [Users -> Nat]]
          /\ seen'[p][u] = seen[p][u] + 1
          /\ \A q \in Replicas, v \in Users : <<q, v>> # <<p, u>> => seen'[q][v] = seen[q][v]
      BY <2>2 DEF InformerSync, StoreTypeOK
    <3>2. \A q \in Replicas, v \in Users : seen'[q][v] \in 1 .. Len(log[v])
      BY <2>2, <3>1 DEF InformerSync, StoreTypeOK
    <3> QED
      BY <1>1, <2>2, <3>1, <3>2 DEF InformerSync, StoreTypeOK
  <2>3. CASE Tick
    BY <2>1, <2>3 DEF Tick, StoreTypeOK
  <2>4. ASSUME NEW ph \in Phones, BanPhone(ph)
        PROVE  StoreTypeOK'
    BY <2>4 DEF BanPhone, StoreTypeOK
  <2>5. ASSUME NEW u \in Users, NEW s, OperatorWrites(u, s)
        PROVE  FALSE
    BY <1>1, <2>5 DEF OperatorWrites, NewVersion, StoreTypeOK
  <2>6. ASSUME NEW u \in Users, BanUser(u)
        PROVE  StoreTypeOK'
    BY <2>6 DEF BanUser, StoreTypeOK
  <2> QED
    BY <2>1, <2>2, <2>3, <2>4, <2>5, <2>6
       DEF StoreNext, OperatorApproves, OperatorDeactivates, OperatorReports, AdminApproves,
           OperatorDeletes
<1>2. ASSUME NEW u \in Users, NEW s \in Signup \cup {Absent}, OperatorWrites(u, s)
      PROVE  StoreTypeOK' /\ LogGrows
  BY <1>2, NewVersionType DEF OperatorWrites
<1>3. ASSUME NEW u \in Users, OperatorApproves(u)
      PROVE  StoreTypeOK' /\ LogGrows
  BY <1>2, <1>3, LatestType, OperatorType DEF OperatorApproves
<1>4. ASSUME NEW u \in Users, OperatorDeactivates(u)
      PROVE  StoreTypeOK' /\ LogGrows
  BY <1>2, <1>4, LatestType, OperatorType DEF OperatorDeactivates
<1>5. ASSUME NEW u \in Users, AdminApproves(u)
      PROVE  StoreTypeOK' /\ LogGrows
  BY <1>2, <1>5, LatestType, OperatorType DEF AdminApproves
<1>6. ASSUME NEW u \in Users, OperatorDeletes(u)
      PROVE  StoreTypeOK' /\ LogGrows
  BY <1>2, <1>6 DEF OperatorDeletes
<1>7. ASSUME NEW u \in Users, OperatorReports(u)
      PROVE  StoreTypeOK' /\ LogGrows
  BY <1>2, <1>7, LatestType, OperatorType DEF OperatorReports
<1>8. CASE ~UNCHANGED log
  BY <1>1, <1>3, <1>4, <1>5, <1>6, <1>7 DEF StoreNext, InformerSync, Tick, BanPhone, BanUser
<1> QED
  BY <1>1, <1>8

LEMMA StoreUnchanged ==
  ASSUME StoreTypeOK, UNCHANGED storeVars
  PROVE  StoreTypeOK' /\ LogGrows
BY DEF StoreTypeOK, storeVars, LogGrows

\* Caches that do not lag.
CachesFresh == \A p \in Replicas, u \in Users : seen[p][u] = Len(log[u])

\* A write reaches every cache at once.
LEMMA FreshWrite ==
  ASSUME StoreTypeOK, FreshReads, CachesFresh, NEW v \in Users, NEW s \in Signup \cup {Absent},
         NewVersion(v, s), UNCHANGED <<banned, now>>
  PROVE  CachesFresh'
<1>1. /\ log'[v] = Append(log[v], s) /\ log[v] \in Seq(Signup \cup {Absent})
      /\ \A u \in Users \ {v} : log'[u] = log[u]
  BY NewVersionType DEF StoreTypeOK
<1>2. Len(log'[v]) = Len(log[v]) + 1
  BY <1>1
<1>3. seen' = [p \in Replicas |-> [seen[p] EXCEPT ![v] = Len(log[v]) + 1]]
  BY DEF NewVersion
<1>4. ASSUME NEW p \in Replicas, NEW u \in Users
      PROVE  seen'[p][u] = IF u = v THEN Len(log[v]) + 1 ELSE seen[p][u]
  BY <1>3 DEF StoreTypeOK
<1> QED
  BY <1>1, <1>2, <1>4 DEF CachesFresh

\* The environment leaves such caches fresh: there is nothing left to catch up with.
LEMMA FreshEnvironment ==
  ASSUME StoreTypeOK, FreshReads, CachesFresh, StoreNext
  PROVE  CachesFresh'
<1>1. CASE UNCHANGED <<log, seen>>
  BY <1>1 DEF CachesFresh
<1>2. ASSUME NEW p \in Replicas, NEW u \in Users, InformerSync(p, u)
      PROVE  FALSE
  BY <1>2 DEF InformerSync, CachesFresh, StoreTypeOK
<1>3. \A u \in Users : Latest(u) # Absent => Latest(u) \in Signup
  BY LatestType
<1>4. ASSUME NEW v \in Users, NEW s \in Signup \cup {Absent}, OperatorWrites(v, s)
      PROVE  CachesFresh'
  BY <1>4, FreshWrite DEF OperatorWrites
<1> QED
  BY <1>1, <1>2, <1>3, <1>4, OperatorType
     DEF StoreNext, Tick, BanPhone, BanUser, OperatorApproves, OperatorDeactivates,
         OperatorReports, AdminApproves, OperatorDeletes
=============================================================================
