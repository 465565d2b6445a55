------------------------ MODULE ProxyRequest_proofs ------------------------
(***************************************************************************)
(* Proofs about ProxyRequest for any users, spaces and members.            *)
(*                                                                         *)
(* ForwardedWithinRights is not inductive: what a request has found out    *)
(* about its rights is spread over the steps of the handler.  Earned says  *)
(* what the handler knows at each of them.  All of it is of the form "this *)
(* was so in some world during the request", which no change of the caches *)
(* can take back.                                                          *)
(***************************************************************************)
EXTENDS ProxyRequest, TLAPS, WellFoundedInduction, FiniteSetTheorems

-----------------------------------------------------------------------------
(* What was so at some time, for a request r and the worlds D it has seen. *)

NotBanned(r, D) == \E w \in D : r.user \notin w.banned

WasActive(r, D) == \E w \in D : w.account[r.user] = "active"

WasAbsent(r, D) == \E w \in D : w.account[r.user] = "absent"

UserBound(r, D) == \E w \in D : r.user \in Bound(w, r.ws)

UserUnbound(r, D) == \A a \in Line[r.ws] : \E w \in D : <<a, r.user>> \notin w.bindings

ViewerBound(r, D) == \E w \in D : Viewer \in Bound(w, r.ws)

HasAsked(r, D) == \E w \in D : <<r.ws, r.user>> \in w.asked

Placed(r, D) == \E w \in D : w.place[r.ws] = r.cluster

OnMember(r, D) == \E w \in D : r.cluster \in w.members

HomeOrBound(r, D) == \E w \in D : r.ws = w.home[r.user] \/ <<r.ws, r.user>> \in w.bindings

ListNames(r) == {r.user} \cup (IF r.viewer THEN {Viewer} ELSE {})

WasListed(r, s, D) == \E w \in D : s \in DirectSpaces(w, ListNames(r))

Existed(s, D) == \E w \in D : Exists(w, s)

\* WorkspaceRights, for the user and for the viewer.
UserRights(r, D) == UserBound(r, D) \/ (ViewerBound(r, D) /\ HasAsked(r, D))

ViewerRights(r, D) ==
  /\ UserBound(r, D) \/ ViewerBound(r, D)
  /\ WasAbsent(r, D) \/ UserUnbound(r, D)

Rights(r, D) ==
  \/ r.name = r.user /\ WasActive(r, D) /\ UserRights(r, D)
  \/ r.name = Viewer /\ r.viewer /\ ViewerRights(r, D)

\* The bindings that were read support the access.
Supported(r, D) ==
  /\ UserBound(r, D) \/ (r.viewer /\ ViewerBound(r, D))
  /\ r.user \in r.bound => UserBound(r, D) \/ HasAsked(r, D)
  /\ r.user \notin r.bound => UserUnbound(r, D)

\* The parents of the space s, which are listed after s.
Beyond(s) == IF Parent[s] = None THEN {} ELSE Line[Parent[s]]

\* The spaces whose bindings the handler has still to list.
Rest(r) == IF r.pc = "parent" THEN Beyond(r.level) ELSE Line[r.level]

\* What names say, when all spaces of the line but those in R have been listed.
Gathered(r, D, names, R) ==
  /\ \A n \in names : \E w \in D : n \in Bound(w, r.ws)
  /\ r.user \notin names => \A a \in Line[r.ws] \ R : \E w \in D : <<a, r.user>> \notin w.bindings

\* Between two levels of the bindings.
Listing(r, D) ==
  /\ r.level \in Spaces /\ Line[r.level] \subseteq Line[r.ws]
  /\ r.pc = "parent" => Parent[r.level] # None
  /\ Gathered(r, D, r.bound, Rest(r))

HomeFound(r, D) ==
  /\ WasActive(r, D) /\ HomeOrBound(r, D) /\ Placed(r, D)

OwnListed(r, D) ==
  \E s \in Spaces : Owner[s] = r.user /\ WasListed(r, s, D) /\ Existed(s, D)

ListPcs == {"listSignup", "listBindings", "listSpaces"}

\* What the handler of r knows at each of its steps.
Earned(r, D) ==
  /\ r.pc \notin {"idle", "done"} => r.user \in Users
  /\ r.pc = "ban" /\ r.kind \in {"get", "workspace"} => r.ws \in Spaces
  /\ r.pc # "done" => r.answer # "forwarded"
  /\ r.pc \notin {"idle", "ban", "done"} => NotBanned(r, D)
  /\ r.pc \in {"homeSignup", "pick", "homeTarget"} => r.kind = "home"
  /\ r.pc \in {"pick", "homeTarget"} => WasActive(r, D)
  /\ r.pc = "homeTarget" => r.ws \in Spaces /\ HomeOrBound(r, D)
  /\ r.pc = "member" => r.kind \in {"home", "workspace"}
  /\ r.pc \in ListPcs => r.kind \in {"home", "list"}
  /\ r.pc \in ListPcs \cup {"member"} /\ r.kind = "home" => HomeFound(r, D)
  /\ r.pc \in ListPcs /\ r.kind = "home" => OnMember(r, D)
  /\ r.pc = "listSpaces" => /\ \A s \in r.todo \cup r.found : WasListed(r, s, D)
                            /\ \A s \in r.found : Existed(s, D)
  /\ r.pc \in {"user", "exists", "access", "name", "target"} => r.kind = "workspace"
  /\ r.pc \in {"user", "exists", "signup", "space", "bindings", "parent", "requests", "access", "name", "target"} =>
       r.ws \in Spaces /\ r.kind \in {"get", "workspace"}
  /\ r.pc \in {"ban", "user", "exists", "signup", "space"} => r.bound = {}
  /\ r.pc \in {"space", "bindings", "parent"} => r.name \in {r.user, None} \/ (r.name = Viewer /\ r.viewer)
  /\ r.pc \in {"bindings", "parent"} => r.name # None /\ Listing(r, D)
  /\ r.pc \in {"requests", "access"} => Supported(r, D)
  /\ r.pc = "name" => r.name = r.user /\ UserRights(r, D)
  /\ r.pc = "target" \/ (r.pc = "member" /\ r.kind = "workspace") => Rights(r, D)
  /\ r.pc = "member" => Placed(r, D)
  /\ r.answer = "forwarded" =>
       /\ r.user \in Users /\ NotBanned(r, D) /\ Placed(r, D) /\ OnMember(r, D)
       /\ r.kind = "workspace" => Rights(r, D)
       /\ r.kind = "home" => HomeFound(r, D) /\ OwnListed(r, D) /\ r.name = r.user

PInv ==
  /\ TypeOK
  /\ IF req.pc = "idle" THEN req.answer = None ELSE world \in during
  /\ Earned(req, during)

\* More worlds never take back what was so in one of them.
LEMMA EarnedStays ==
  ASSUME NEW r, NEW D, NEW E, D \subseteq E, Earned(r, D)
  PROVE  Earned(r, E)
<1>1. /\ NotBanned(r, D) => NotBanned(r, E)
      /\ WasActive(r, D) => WasActive(r, E)
      /\ WasAbsent(r, D) => WasAbsent(r, E)
      /\ UserBound(r, D) => UserBound(r, E)
      /\ UserUnbound(r, D) => UserUnbound(r, E)
      /\ ViewerBound(r, D) => ViewerBound(r, E)
      /\ HasAsked(r, D) => HasAsked(r, E)
  BY DEF NotBanned, WasActive, WasAbsent, UserBound, UserUnbound, ViewerBound, HasAsked
<1>2. /\ Placed(r, D) => Placed(r, E)
      /\ OnMember(r, D) => OnMember(r, E)
      /\ HomeOrBound(r, D) => HomeOrBound(r, E)
      /\ \A s : WasListed(r, s, D) => WasListed(r, s, E)
      /\ \A s : Existed(s, D) => Existed(s, E)
  BY DEF Placed, OnMember, HomeOrBound, WasListed, Existed
<1>3. /\ Listing(r, D) => Listing(r, E)
      /\ UserRights(r, D) => UserRights(r, E)
      /\ Rights(r, D) => Rights(r, E)
      /\ Supported(r, D) => Supported(r, E)
      /\ HomeFound(r, D) => HomeFound(r, E)
      /\ OwnListed(r, D) => OwnListed(r, E)
  BY <1>1, <1>2 DEF Listing, Gathered, UserRights, ViewerRights, Rights, Supported, HomeFound, OwnListed
<1> QED
  BY <1>1, <1>2, <1>3 DEF Earned

-----------------------------------------------------------------------------
(* The initial state and the changes of the caches.                        *)

LEMMA InitEarns ==
  Init => PInv
<1> SUFFICES ASSUME Init PROVE PInv
  OBVIOUS
<1>1. world \in World
  BY DEF Init, World, Accounts, Places
<1>2. req \in Request
  BY DEF Init, NoRequest, Request, Opt, Kinds
<1>3. Earned(req, during)
  BY NoneAssumption DEF Init, NoRequest, Earned, ListPcs, Answers
<1> QED
  BY <1>1, <1>2, <1>3, ProxyAssumption DEF PInv, TypeOK, Init, NoRequest

LEMMA ChangeKeeps ==
  ASSUME PInv, NEW w \in World, Change(w)
  PROVE  PInv'
<1>1. TypeOK'
  <2>1. world' \in World /\ req' \in Request
    BY DEF PInv, TypeOK, Change
  <2>2. during' \subseteq World
    BY <2>1 DEF PInv, TypeOK, Change
  <2>3. changes' \in 0 .. MaxChanges
    BY ProxyAssumption DEF PInv, TypeOK, Change
  <2> QED
    BY <2>1, <2>2, <2>3 DEF TypeOK
<1>2. (IF req.pc = "idle" THEN req.answer = None ELSE world \in during)'
  BY DEF PInv, Change
<1>3. Earned(req, during)'
  <2>1. CASE req.pc = "idle"
    <3>1. req.answer # "forwarded"
      BY <2>1, NoneAssumption DEF PInv, Answers
    <3> QED
      BY <2>1, <3>1 DEF Change, Earned, ListPcs
  <2>2. CASE req.pc # "idle"
    <3>1. during \subseteq during' /\ req' = req
      BY <2>2 DEF Change
    <3>2. Earned(req, during')
      BY <3>1, EarnedStays DEF PInv
    <3> QED
      BY <3>1, <3>2
  <2> QED
    BY <2>1, <2>2
<1> QED
  BY <1>1, <1>2, <1>3 DEF PInv

-----------------------------------------------------------------------------
(* Steps of the handler.                                                   *)

\* What was so does not depend on where the handler is.
LEMMA SameFacts ==
  ASSUME NEW q, NEW r, NEW D, r.user = q.user, r.ws = q.ws, r.viewer = q.viewer
  PROVE  /\ NotBanned(r, D) = NotBanned(q, D)
         /\ WasActive(r, D) = WasActive(q, D)
         /\ WasAbsent(r, D) = WasAbsent(q, D)
         /\ UserBound(r, D) = UserBound(q, D)
         /\ UserUnbound(r, D) = UserUnbound(q, D)
         /\ ViewerBound(r, D) = ViewerBound(q, D)
         /\ HasAsked(r, D) = HasAsked(q, D)
         /\ HomeOrBound(r, D) = HomeOrBound(q, D)
         /\ \A s : WasListed(r, s, D) = WasListed(q, s, D)
         /\ UserRights(r, D) = UserRights(q, D)
         /\ ViewerRights(r, D) = ViewerRights(q, D)
         /\ OwnListed(r, D) = OwnListed(q, D)
         /\ r.cluster = q.cluster => /\ Placed(r, D) = Placed(q, D)
                                    /\ OnMember(r, D) = OnMember(q, D)
                                    /\ HomeFound(r, D) = HomeFound(q, D)
         /\ r.name = q.name => Rights(r, D) = Rights(q, D)
         /\ r.bound = q.bound => Supported(r, D) = Supported(q, D)
<1>1. /\ NotBanned(r, D) = NotBanned(q, D)
      /\ WasActive(r, D) = WasActive(q, D)
      /\ WasAbsent(r, D) = WasAbsent(q, D)
      /\ UserBound(r, D) = UserBound(q, D)
      /\ UserUnbound(r, D) = UserUnbound(q, D)
      /\ ViewerBound(r, D) = ViewerBound(q, D)
      /\ HasAsked(r, D) = HasAsked(q, D)
      /\ HomeOrBound(r, D) = HomeOrBound(q, D)
  BY DEF NotBanned, WasActive, WasAbsent, UserBound, UserUnbound, ViewerBound, HasAsked, HomeOrBound
<1>2. \A s : WasListed(r, s, D) = WasListed(q, s, D)
  BY DEF WasListed, ListNames
<1>3. r.cluster = q.cluster => Placed(r, D) = Placed(q, D) /\ OnMember(r, D) = OnMember(q, D)
  BY DEF Placed, OnMember
<1> QED
  BY <1>1, <1>2, <1>3 DEF UserRights, ViewerRights, OwnListed, HomeFound, Rights, Supported

\* A space is the first of its line, and the line of its parent the rest.
LEMMA LineStep ==
  ASSUME NEW s \in Spaces
  PROVE  s \in Line[s] /\ Line[s] \subseteq Spaces /\ Line[s] = {s} \cup Beyond(s)
<1>1. \A t \in Spaces : t \in Line[t] /\ Line[t] \subseteq Spaces
  BY DEF Line
<1>2. \A t \in Spaces : WithParents(Line[t])
  BY ProxyAssumption DEF Line, WithParents
<1>3. Beyond(s) \subseteq Spaces
  BY <1>1, ProxyAssumption DEF Beyond
<1>4. WithParents({s} \cup Beyond(s))
  BY <1>1, <1>2, ProxyAssumption DEF WithParents, Beyond
<1>5. Line[s] \subseteq {s} \cup Beyond(s)
  <2> DEFINE S == {s} \cup Beyond(s)
  <2>1. S \in SUBSET Spaces /\ s \in S /\ WithParents(S)
    BY <1>3, <1>4
  <2> HIDE DEF S
  <2>2. Line[s] \subseteq S
    BY <2>1 DEF Line
  <2> QED
    BY <2>2 DEF S
<1>6. ASSUME Parent[s] # None PROVE Line[Parent[s]] \subseteq Line[s]
  <2> DEFINE p == Parent[s]
  <2>1. p \in Spaces
    BY <1>6, ProxyAssumption DEF Opt
  <2>2. p \in Line[s]
    BY <1>1, <1>2, <1>6 DEF WithParents
  <2> HIDE DEF p
  <2>3. Line[p] \subseteq Line[s]
    BY <1>1, <1>2, <2>1, <2>2 DEF Line
  <2> QED
    BY <2>3 DEF p
<1> QED
  BY <1>1, <1>5, <1>6 DEF Beyond

\* One more level is listed.
LEMMA LevelGathers ==
  ASSUME NEW r, NEW D, NEW w \in D, NEW names, NEW s \in Spaces, Line[s] \subseteq Line[r.ws],
         Gathered(r, D, names, Line[s]), r.user \in Users
  PROVE  Gathered(r, D, names \cup DirectlyBound(w, s), Beyond(s))
<1>1. s \in Line[r.ws] /\ Line[s] = {s} \cup Beyond(s)
  BY LineStep
<1>2. \A n \in DirectlyBound(w, s) : n \in Bound(w, r.ws)
  BY <1>1 DEF DirectlyBound, Bound
<1>3. r.user \notin DirectlyBound(w, s) => <<s, r.user>> \notin w.bindings
  BY DEF DirectlyBound, Names
<1> QED
  BY <1>1, <1>2, <1>3 DEF Gathered

LEMMA StepKeeps ==
  ASSUME PInv, NEW r \in Request, Handle(r), req.pc # "idle", r.pc # "idle", Earned(r, during)
  PROVE  PInv'
<1>1. req' = r /\ world' = world /\ during' = during /\ changes' = changes
  BY DEF Handle
<1> QED
  BY <1>1 DEF PInv, TypeOK

\* A request that is turned away.
LEMMA RefusalKeeps ==
  ASSUME PInv, req.pc # "idle", NEW a \in Answers \ {"forwarded"}, NEW f \in BOOLEAN,
         Handle([req EXCEPT !.pc = "done", !.answer = a, !.fault = f])
  PROVE  PInv'
<1> DEFINE r == [req EXCEPT !.pc = "done", !.answer = a, !.fault = f]
<1>1. r \in Request /\ r.pc = "done" /\ r.answer = a
  <2>1. req \in Request /\ a \in Opt(Answers)
    BY DEF PInv, TypeOK, Opt
  <2> QED
    BY <2>1 DEF Request
<1>2. Earned(r, during)
  BY <1>1 DEF Earned, ListPcs
<1>3. Handle(r)
  OBVIOUS
<1> HIDE DEF r
<1> QED
  BY <1>1, <1>2, <1>3, StepKeeps

LEMMA AnswerKeeps ==
  ASSUME PInv, req.pc # "idle", NEW a \in Answers \ {"forwarded"}, Answer(a)
  PROVE  PInv'
<1>1. Handle([req EXCEPT !.pc = "done", !.answer = a, !.fault = req.fault])
  BY DEF Answer, Handle, PInv, TypeOK, Request
<1>2. req.fault \in BOOLEAN
  BY DEF PInv, TypeOK, Request
<1> QED
  BY <1>1, <1>2, RefusalKeeps

LEMMA FaultKeeps ==
  ASSUME PInv, req.pc # "idle", Fault
  PROVE  PInv'
<1>1. Handle([req EXCEPT !.pc = "done", !.answer = "internal", !.fault = TRUE])
  BY DEF Fault
<1> QED
  BY <1>1, RefusalKeeps DEF Answers

LEMMA ReceiveKeeps ==
  ASSUME PInv, NEW k \in Kinds, NEW u \in Opt(Users), NEW s \in Opt(Spaces), NEW v \in BOOLEAN,
         Receive(k, u, s, v)
  PROVE  PInv'
<1>1. req' \in Request
  BY DEF Receive, NoRequest, Request, Opt, Answers
<1>2. TypeOK' /\ req'.pc # "idle" /\ world' \in during'
  BY <1>1 DEF PInv, TypeOK, Receive, NoRequest
<1>3. req'.pc \in {"ban", "done"} /\ req'.answer # "forwarded"
  BY NoneAssumption DEF Receive, NoRequest, Answers
<1>4. req'.pc = "ban" => req'.user \in Users
  BY DEF Receive, NoRequest, Opt
<1>5. req'.kind \in {"get", "workspace"} => req'.ws \in Spaces
  BY DEF Receive, NoRequest, Opt
<1>6. req'.bound = {}
  BY DEF Receive, NoRequest
<1>7. Earned(req', during')
  BY <1>3, <1>4, <1>5, <1>6 DEF Earned, ListPcs
<1> QED
  BY <1>2, <1>7 DEF PInv

LEMMA BanKeeps ==
  ASSUME PInv, EnsureUserIsNotBanned
  PROVE  PInv'
<1> USE DEF EnsureUserIsNotBanned
<1>1. req.pc = "ban" /\ world \in during /\ req \in Request
  BY DEF PInv, TypeOK
<1>2. ASSUME NEW a \in {"banned", "badRequest"}, Answer(a) PROVE PInv'
  BY <1>1, <1>2, AnswerKeeps DEF Answers
<1>3. ASSUME Fault PROVE PInv'
  BY <1>1, <1>3, FaultKeeps
<1>4. ASSUME NEW pc \in {"homeSignup", "listSignup", "signup", "user"}, Goto(pc), ~IsBanned(world),
             \/ pc = "homeSignup" /\ req.kind = "home"
             \/ pc = "listSignup" /\ req.kind = "list"
             \/ pc = "signup" /\ req.kind = "get"
             \/ pc = "user" /\ req.kind = "workspace"
      PROVE  PInv'
  <2> DEFINE r == [req EXCEPT !.pc = pc]
  <2>1. /\ r \in Request /\ r.pc = pc /\ r.kind = req.kind /\ r.user = req.user
        /\ r.ws = req.ws /\ r.answer = req.answer /\ r.bound = req.bound
    BY <1>1, <1>4 DEF Request
  <2>2. Handle(r)
    BY <1>4 DEF Goto
  <2> HIDE DEF r
  <2>3. NotBanned(r, during) /\ req.user \in Users
    BY <1>1, <1>4, <2>1 DEF NotBanned, IsBanned, PInv, Earned
  <2>4. pc \in {"signup", "user"} => req.ws \in Spaces
    BY <1>1, <1>4 DEF PInv, Earned
  <2>5. req.answer # "forwarded" /\ req.bound = {}
    BY <1>1 DEF PInv, Earned
  <2>6. Earned(r, during)
    BY <1>4, <2>1, <2>3, <2>4, <2>5 DEF Earned, ListPcs
  <2> QED
    BY <1>1, <1>4, <2>1, <2>2, <2>6, StepKeeps
<1> QED
  BY <1>2, <1>3, <1>4

-----------------------------------------------------------------------------
(* The home workspace and the list.                                        *)

LEMMA HomeSignupKeeps ==
  ASSUME PInv, HomeSignup
  PROVE  PInv'
<1> USE DEF HomeSignup
<1>1. /\ req.pc = "homeSignup" /\ world \in during /\ world \in World /\ req \in Request
      /\ req.user \in Users /\ req.kind = "home" /\ NotBanned(req, during)
      /\ req.answer # "forwarded"
  BY DEF PInv, TypeOK, Earned
<1>2. CASE AccountOf(world) # "active"
  BY <1>1, <1>2, AnswerKeeps DEF Answers
<1>3. CASE AccountOf(world) = "active"
  <2> DEFINE h == world.home[req.user]
             r == [req EXCEPT !.pc = IF h = None THEN "pick" ELSE "homeTarget", !.ws = h]
  <2>1. h \in Opt(Spaces)
    BY <1>1 DEF World
  <2>2. Handle(r)
    BY <1>3
  <2>3. /\ r \in Request /\ r.kind = "home" /\ r.user = req.user /\ r.ws = h
        /\ r.answer = req.answer /\ r.pc = IF h = None THEN "pick" ELSE "homeTarget"
    BY <1>1, <2>1 DEF Request
  <2> HIDE DEF r
  <2>4. NotBanned(r, during) /\ WasActive(r, during) /\ HomeOrBound(r, during)
    BY <1>1, <1>3, <2>3 DEF NotBanned, WasActive, HomeOrBound, AccountOf
  <2>5. r.pc = "homeTarget" => r.ws \in Spaces
    BY <2>1, <2>3 DEF Opt
  <2>6. Earned(r, during)
    BY <1>1, <2>3, <2>4, <2>5 DEF Earned, ListPcs
  <2> QED
    BY <1>1, <2>2, <2>3, <2>6, StepKeeps
<1> QED
  BY <1>2, <1>3

\* The first of some spaces is one of them.
LEMMA FirstIsOne ==
  ASSUME NEW S \in SUBSET Spaces, S # {}
  PROVE  First(S) \in S
<1> DEFINE R == {Rank[s] : s \in S}
<1>1. R \subseteq Nat /\ R # {}
  BY ProxyAssumption
<1>2. PICK n \in R : \A m \in R : n <= m
  <2> HIDE DEF R
  <2>1. PICK n \in R : \A m \in R : <<m, n>> \notin OpToRel(<, Nat)
    BY <1>1, NatLessThanWellFounded, WFMin
  <2>2. \A m \in R : ~(m < n)
    BY <1>1, <2>1 DEF OpToRel
  <2> QED
    BY <1>1, <2>2
<1>3. PICK s \in S : Rank[s] = n
  OBVIOUS
<1>4. \A t \in S : Rank[s] <= Rank[t]
  BY <1>2, <1>3
<1> QED
  BY <1>4 DEF First

LEMMA PickSpaceKeeps ==
  ASSUME PInv, PickSpace
  PROVE  PInv'
<1> USE DEF PickSpace
<1> DEFINE S == DirectSpaces(world, {req.user})
<1>1. /\ req.pc = "pick" /\ world \in during /\ world \in World /\ req \in Request
      /\ req.user \in Users /\ req.kind = "home"
      /\ NotBanned(req, during) /\ WasActive(req, during) /\ req.answer # "forwarded"
  BY DEF PInv, TypeOK, Earned
<1>2. ASSUME Answer("internal") PROVE PInv'
  BY <1>1, <1>2, AnswerKeeps DEF Answers
<1>3. ASSUME Fault PROVE PInv'
  BY <1>1, <1>3, FaultKeeps
<1>4. ASSUME S # {}, Handle([req EXCEPT !.pc = "homeTarget", !.ws = First(S)])
      PROVE  PInv'
  <2> DEFINE r == [req EXCEPT !.pc = "homeTarget", !.ws = First(S)]
  <2>1. S \subseteq Spaces /\ \A s \in S : <<s, req.user>> \in world.bindings
    BY DEF DirectSpaces
  <2>2. First(S) \in S
    BY <1>4, <2>1, FirstIsOne
  <2>3. First(S) \in Spaces /\ <<First(S), req.user>> \in world.bindings
    BY <2>1, <2>2
  <2> HIDE DEF S
  <2>4. /\ r \in Request /\ r.kind = "home" /\ r.user = req.user /\ r.ws = First(S)
        /\ r.answer = req.answer /\ r.pc = "homeTarget"
    BY <1>1, <2>3 DEF Request, Opt
  <2>5. Handle(r)
    BY <1>4
  <2> HIDE DEF r
  <2>6. NotBanned(r, during) /\ WasActive(r, during) /\ HomeOrBound(r, during)
    BY <1>1, <2>3, <2>4 DEF NotBanned, WasActive, HomeOrBound
  <2>7. Earned(r, during)
    BY <1>1, <2>3, <2>4, <2>6 DEF Earned, ListPcs
  <2> QED
    BY <1>1, <2>4, <2>5, <2>7, StepKeeps
<1> QED
  BY <1>2, <1>3, <1>4

LEMMA HomeTargetKeeps ==
  ASSUME PInv, HomeTarget
  PROVE  PInv'
<1> USE DEF HomeTarget
<1>1. /\ req.pc = "homeTarget" /\ world \in during /\ world \in World /\ req \in Request
      /\ req.user \in Users /\ req.kind = "home" /\ req.ws \in Spaces /\ HomeOrBound(req, during)
      /\ NotBanned(req, during) /\ WasActive(req, during) /\ req.answer # "forwarded"
  BY DEF PInv, TypeOK, Earned
<1>2. ASSUME Fault PROVE PInv'
  BY <1>1, <1>2, FaultKeeps
<1>3. ASSUME Handle([req EXCEPT !.pc = "member", !.cluster = world.place[req.ws]]) PROVE PInv'
  <2> DEFINE r == [req EXCEPT !.pc = "member", !.cluster = world.place[req.ws]]
  <2>1. world.place[req.ws] \in Places
    BY <1>1 DEF World
  <2>2. /\ r \in Request /\ r.kind = "home" /\ r.user = req.user /\ r.ws = req.ws
        /\ r.viewer = req.viewer /\ r.answer = req.answer /\ r.pc = "member"
        /\ r.cluster = world.place[req.ws]
    BY <1>1, <2>1 DEF Request, Opt
  <2>3. Handle(r)
    BY <1>3
  <2> HIDE DEF r
  <2>4. NotBanned(r, during) /\ WasActive(r, during) /\ HomeOrBound(r, during)
    BY <1>1, <2>2, SameFacts
  <2>5. Placed(r, during)
    BY <1>1, <2>2 DEF Placed
  <2>6. Earned(r, during)
    BY <1>1, <2>2, <2>4, <2>5 DEF Earned, ListPcs, HomeFound
  <2> QED
    BY <1>1, <2>2, <2>3, <2>6, StepKeeps
<1> QED
  BY <1>2, <1>3

LEMMA FindMemberKeeps ==
  ASSUME PInv, FindMember
  PROVE  PInv'
<1> USE DEF FindMember
<1>1. /\ req.pc = "member" /\ world \in during /\ req \in Request
      /\ req.user \in Users /\ req.kind \in {"home", "workspace"}
      /\ NotBanned(req, during) /\ Placed(req, during) /\ req.answer # "forwarded"
      /\ req.kind = "home" => HomeFound(req, during)
      /\ req.kind = "workspace" => Rights(req, during)
  BY DEF PInv, TypeOK, Earned
<1>2. ASSUME Answer("internal") PROVE PInv'
  BY <1>1, <1>2, AnswerKeeps DEF Answers
<1>3. ASSUME Fault PROVE PInv'
  BY <1>1, <1>3, FaultKeeps
<1>4. ASSUME MemberFound(world) PROVE OnMember(req, during)
  BY <1>1, <1>4 DEF MemberFound, OnMember
<1>5. ASSUME MemberFound(world), req.kind = "home", Goto("listSignup") PROVE PInv'
  <2> DEFINE r == [req EXCEPT !.pc = "listSignup"]
  <2>1. /\ r \in Request /\ r.pc = "listSignup" /\ r.kind = "home" /\ r.user = req.user
        /\ r.ws = req.ws /\ r.viewer = req.viewer /\ r.cluster = req.cluster /\ r.answer = req.answer
    BY <1>1, <1>5 DEF Request
  <2>2. Handle(r)
    BY <1>5 DEF Goto
  <2> HIDE DEF r
  <2>3. NotBanned(r, during) /\ HomeFound(r, during) /\ OnMember(r, during)
    BY <1>1, <1>4, <1>5, <2>1, SameFacts
  <2>4. Earned(r, during)
    BY <1>1, <2>1, <2>3 DEF Earned, ListPcs
  <2> QED
    BY <1>1, <2>1, <2>2, <2>4, StepKeeps
<1>6. ASSUME MemberFound(world), req.kind = "workspace", Answer("forwarded") PROVE PInv'
  <2> DEFINE r == [req EXCEPT !.pc = "done", !.answer = "forwarded"]
  <2>1. /\ r \in Request /\ r.pc = "done" /\ r.kind = "workspace" /\ r.user = req.user
        /\ r.ws = req.ws /\ r.viewer = req.viewer /\ r.cluster = req.cluster /\ r.name = req.name
    BY <1>1, <1>6 DEF Request, Opt, Answers
  <2>2. Handle(r)
    BY <1>6 DEF Answer
  <2> HIDE DEF r
  <2>3. NotBanned(r, during) /\ Rights(r, during) /\ Placed(r, during) /\ OnMember(r, during)
    BY <1>1, <1>4, <1>6, <2>1, SameFacts
  <2>4. Earned(r, during)
    BY <1>1, <2>1, <2>3 DEF Earned, ListPcs
  <2> QED
    BY <1>1, <2>1, <2>2, <2>4, StepKeeps
<1> QED
  BY <1>2, <1>3, <1>5, <1>6

LEMMA ListSignupKeeps ==
  ASSUME PInv, ListSignup
  PROVE  PInv'
<1> USE DEF ListSignup
<1>1. /\ req.pc = "listSignup" /\ world \in during /\ req \in Request
      /\ req.user \in Users /\ req.kind \in {"home", "list"} /\ NotBanned(req, during)
      /\ req.kind = "home" => HomeFound(req, during) /\ OnMember(req, during)
      /\ req.answer # "forwarded"
  BY DEF PInv, TypeOK, Earned, ListPcs
<1>2. ASSUME NEW a \in {"internal", "forbidden", "listed"}, Answer(a) PROVE PInv'
  BY <1>1, <1>2, AnswerKeeps DEF Answers
<1>3. ASSUME Goto("listBindings") PROVE PInv'
  <2> DEFINE r == [req EXCEPT !.pc = "listBindings"]
  <2>1. /\ r \in Request /\ r.pc = "listBindings" /\ r.kind = req.kind /\ r.user = req.user
        /\ r.ws = req.ws /\ r.viewer = req.viewer /\ r.cluster = req.cluster /\ r.answer = req.answer
    BY <1>1 DEF Request
  <2>2. Handle(r)
    BY <1>3 DEF Goto
  <2> HIDE DEF r
  <2>3. NotBanned(r, during) /\ (r.kind = "home" => HomeFound(r, during) /\ OnMember(r, during))
    BY <1>1, <2>1, SameFacts
  <2>4. Earned(r, during)
    BY <1>1, <2>1, <2>3 DEF Earned, ListPcs
  <2> QED
    BY <1>1, <2>1, <2>2, <2>4, StepKeeps
<1> QED
  BY <1>2, <1>3

LEMMA ListBindingsKeeps ==
  ASSUME PInv, ListBindings
  PROVE  PInv'
<1> USE DEF ListBindings
<1> DEFINE S == DirectSpaces(world, ListedNames)
<1>1. /\ req.pc = "listBindings" /\ world \in during /\ req \in Request
      /\ req.user \in Users /\ req.kind \in {"home", "list"} /\ NotBanned(req, during)
      /\ req.kind = "home" => HomeFound(req, during) /\ OnMember(req, during)
      /\ req.answer # "forwarded"
  BY DEF PInv, TypeOK, Earned, ListPcs
<1>2. ASSUME Fault PROVE PInv'
  BY <1>1, <1>2, FaultKeeps
<1>3. ASSUME Handle([req EXCEPT !.pc = "listSpaces", !.todo = S, !.found = {}]) PROVE PInv'
  <2> DEFINE r == [req EXCEPT !.pc = "listSpaces", !.todo = S, !.found = {}]
  <2>1. S \subseteq Spaces
    BY DEF DirectSpaces
  <2>2. \A s \in S : WasListed(req, s, during)
    BY <1>1 DEF WasListed, ListNames, ListedNames
  <2>3. Handle(r)
    BY <1>3
  <2> HIDE DEF S
  <2>4. /\ r \in Request /\ r.pc = "listSpaces" /\ r.kind = req.kind /\ r.user = req.user
        /\ r.ws = req.ws /\ r.viewer = req.viewer /\ r.cluster = req.cluster /\ r.answer = req.answer
        /\ r.todo = S /\ r.found = {}
    BY <1>1, <2>1 DEF Request
  <2> HIDE DEF r
  <2>5. /\ NotBanned(r, during) /\ (r.kind = "home" => HomeFound(r, during) /\ OnMember(r, during))
        /\ \A s \in r.todo \cup r.found : WasListed(r, s, during)
    BY <1>1, <2>2, <2>4, SameFacts
  <2>6. Earned(r, during)
    BY <1>1, <2>4, <2>5 DEF Earned, ListPcs
  <2> QED
    BY <1>1, <2>3, <2>4, <2>6, StepKeeps
<1> QED
  BY <1>2, <1>3

LEMMA ListSpaceKeeps ==
  ASSUME PInv, NEW s \in Spaces, ListSpace(s)
  PROVE  PInv'
<1> DEFINE r == Listed(world, s)
<1>1. /\ req.pc = "listSpaces" /\ world \in during /\ req \in Request /\ s \in req.todo
      /\ req.user \in Users /\ req.kind \in {"home", "list"} /\ NotBanned(req, during)
      /\ req.kind = "home" => HomeFound(req, during) /\ OnMember(req, during)
      /\ \A t \in req.todo \cup req.found : WasListed(req, t, during)
      /\ \A t \in req.found : Existed(t, during)
      /\ req.answer # "forwarded"
  BY DEF ListSpace, PInv, TypeOK, Earned, ListPcs
<1>2. Handle(r)
  BY DEF ListSpace
<1>3. /\ r \in Request /\ r.pc = "listSpaces" /\ r.kind = req.kind /\ r.user = req.user
      /\ r.ws = req.ws /\ r.viewer = req.viewer /\ r.cluster = req.cluster /\ r.answer = req.answer
      /\ r.todo \subseteq req.todo
      /\ r.found = IF Exists(world, s) THEN req.found \cup {s} ELSE req.found
  BY <1>1 DEF Listed, Request
<1> HIDE DEF r
<1>4. NotBanned(r, during) /\ (r.kind = "home" => HomeFound(r, during) /\ OnMember(r, during))
  BY <1>1, <1>3, SameFacts
<1>5. \A t \in r.todo \cup r.found : WasListed(r, t, during)
  BY <1>1, <1>3, SameFacts
<1>6. \A t \in r.found : Existed(t, during)
  BY <1>1, <1>3 DEF Existed
<1>7. Earned(r, during)
  BY <1>1, <1>3, <1>4, <1>5, <1>6 DEF Earned, ListPcs
<1> QED
  BY <1>1, <1>2, <1>3, <1>7, StepKeeps

LEMMA ListDoneKeeps ==
  ASSUME PInv, ListDone
  PROVE  PInv'
<1> USE DEF ListDone
<1>1. /\ req.pc = "listSpaces" /\ req \in Request
      /\ req.user \in Users /\ NotBanned(req, during)
      /\ req.kind = "home" => HomeFound(req, during) /\ OnMember(req, during)
      /\ \A t \in req.found : WasListed(req, t, during) /\ Existed(t, during)
  BY DEF PInv, TypeOK, Earned, ListPcs
<1>2. ASSUME NEW a \in {"listed", "forbidden"}, Answer(a) PROVE PInv'
  BY <1>1, <1>2, AnswerKeeps DEF Answers
<1>3. ASSUME req.kind = "home", NEW s \in req.found, Owner[s] = req.user,
             Handle([req EXCEPT !.pc = "done", !.answer = "forwarded", !.name = req.user])
      PROVE  PInv'
  <2> DEFINE r == [req EXCEPT !.pc = "done", !.answer = "forwarded", !.name = req.user]
  <2>1. OwnListed(req, during)
    BY <1>1, <1>3 DEF OwnListed, Request
  <2>2. /\ r \in Request /\ r.pc = "done" /\ r.kind = "home" /\ r.user = req.user
        /\ r.ws = req.ws /\ r.viewer = req.viewer /\ r.cluster = req.cluster /\ r.name = r.user
    BY <1>1, <1>3 DEF Request, Opt, Names, Answers
  <2>3. Handle(r)
    BY <1>3
  <2> HIDE DEF r
  <2>4. /\ NotBanned(r, during) /\ HomeFound(r, during) /\ OnMember(r, during) /\ OwnListed(r, during)
    BY <1>1, <1>3, <2>1, <2>2, SameFacts
  <2>5. Placed(r, during)
    BY <2>4 DEF HomeFound
  <2>6. Earned(r, during)
    BY <1>1, <2>2, <2>4, <2>5 DEF Earned, ListPcs
  <2> QED
    BY <1>1, <2>2, <2>3, <2>6, StepKeeps
<1> QED
  BY <1>2, <1>3

-----------------------------------------------------------------------------
(* A workspace named in the path.                                          *)

LEMMA CheckUserKeeps ==
  ASSUME PInv, CheckUser
  PROVE  PInv'
<1> USE DEF CheckUser
<1>1. /\ req.pc = "user" /\ req \in Request /\ req.user \in Users /\ req.ws \in Spaces
      /\ req.kind = "workspace" /\ NotBanned(req, during) /\ req.answer # "forwarded" /\ req.bound = {}
  BY DEF PInv, TypeOK, Earned
<1>2. ASSUME Answer("internal") PROVE PInv'
  BY <1>1, <1>2, AnswerKeeps DEF Answers
<1>3. ASSUME Goto("exists") PROVE PInv'
  <2> DEFINE r == [req EXCEPT !.pc = "exists"]
  <2>1. /\ r \in Request /\ r.pc = "exists" /\ r.kind = "workspace" /\ r.user = req.user
        /\ r.ws = req.ws /\ r.viewer = req.viewer /\ r.answer = req.answer /\ r.bound = req.bound
    BY <1>1 DEF Request
  <2>2. Handle(r)
    BY <1>3 DEF Goto
  <2> HIDE DEF r
  <2>3. Earned(r, during)
    BY <1>1, <2>1, SameFacts DEF Earned, ListPcs
  <2> QED
    BY <1>1, <2>1, <2>2, <2>3, StepKeeps
<1> QED
  BY <1>2, <1>3

LEMMA CheckSpaceKeeps ==
  ASSUME PInv, CheckSpace
  PROVE  PInv'
<1> USE DEF CheckSpace
<1>1. /\ req.pc = "exists" /\ req \in Request /\ req.user \in Users /\ req.ws \in Spaces
      /\ req.kind = "workspace" /\ NotBanned(req, during) /\ req.answer # "forwarded" /\ req.bound = {}
  BY DEF PInv, TypeOK, Earned
<1>2. ASSUME Answer("internal") PROVE PInv'
  BY <1>1, <1>2, AnswerKeeps DEF Answers
<1>3. ASSUME Goto("signup") PROVE PInv'
  <2> DEFINE r == [req EXCEPT !.pc = "signup"]
  <2>1. /\ r \in Request /\ r.pc = "signup" /\ r.kind = "workspace" /\ r.user = req.user
        /\ r.ws = req.ws /\ r.viewer = req.viewer /\ r.answer = req.answer /\ r.bound = req.bound
    BY <1>1 DEF Request
  <2>2. Handle(r)
    BY <1>3 DEF Goto
  <2> HIDE DEF r
  <2>3. Earned(r, during)
    BY <1>1, <2>1, SameFacts DEF Earned, ListPcs
  <2> QED
    BY <1>1, <2>1, <2>2, <2>3, StepKeeps
<1> QED
  BY <1>2, <1>3

LEMMA WorkspaceSignupKeeps ==
  ASSUME PInv, WorkspaceSignup
  PROVE  PInv'
<1> USE DEF WorkspaceSignup
<1> DEFINE n == ProvisionedName(world)
<1>1. /\ req.pc = "signup" /\ req \in Request /\ req.user \in Users /\ req.ws \in Spaces
      /\ req.kind \in {"get", "workspace"} /\ NotBanned(req, during) /\ req.answer # "forwarded"
      /\ req.bound = {}
  BY DEF PInv, TypeOK, Earned
<1>2. ASSUME Answer("internal") PROVE PInv'
  BY <1>1, <1>2, AnswerKeeps DEF Answers
<1>3. ASSUME Handle([req EXCEPT !.pc = "space", !.name = n]) PROVE PInv'
  <2> DEFINE r == [req EXCEPT !.pc = "space", !.name = n]
  <2>1. n \in {req.user, None} \/ (n = Viewer /\ req.viewer)
    BY DEF ProvisionedName
  <2>2. Handle(r)
    BY <1>3
  <2> HIDE DEF n
  <2>3. /\ r \in Request /\ r.pc = "space" /\ r.kind = req.kind /\ r.user = req.user
        /\ r.ws = req.ws /\ r.viewer = req.viewer /\ r.answer = req.answer /\ r.name = n
        /\ r.bound = req.bound
    BY <1>1, <2>1 DEF Request, Opt, Names
  <2> HIDE DEF r
  <2>4. Earned(r, during)
    BY <1>1, <2>1, <2>3, SameFacts DEF Earned, ListPcs
  <2> QED
    BY <1>1, <2>2, <2>3, <2>4, StepKeeps
<1> QED
  BY <1>2, <1>3

\* The nil of the workspace lister.
LEMMA NotFoundKeeps ==
  ASSUME PInv, req.pc # "idle", NotFound
  PROVE  PInv'
<1> DEFINE a == IF req.kind = "get" THEN "notFound" ELSE "forbidden"
<1>1. a \in Answers \ {"forwarded"} /\ Answer(a)
  BY DEF NotFound, Answers
<1> HIDE DEF a
<1> QED
  BY <1>1, AnswerKeeps

LEMMA WorkspaceSpaceKeeps ==
  ASSUME PInv, WorkspaceSpace
  PROVE  PInv'
<1> USE DEF WorkspaceSpace
<1>1. /\ req.pc = "space" /\ req \in Request /\ req.user \in Users /\ req.ws \in Spaces
      /\ req.kind \in {"get", "workspace"} /\ NotBanned(req, during) /\ req.answer # "forwarded"
      /\ req.name \in {req.user, None} \/ (req.name = Viewer /\ req.viewer)
      /\ req.bound = {} /\ world \in World
  BY DEF PInv, TypeOK, Earned
<1>2. ASSUME NotFound PROVE PInv'
  BY <1>1, <1>2, NotFoundKeeps
<1>3. ASSUME req.name # None,
             Handle([req EXCEPT !.pc = "bindings", !.cluster = world.place[req.ws], !.level = req.ws])
      PROVE  PInv'
  <2> DEFINE r == [req EXCEPT !.pc = "bindings", !.cluster = world.place[req.ws], !.level = req.ws]
  <2>1. world.place[req.ws] \in Places
    BY <1>1 DEF World
  <2>2. /\ r \in Request /\ r.pc = "bindings" /\ r.kind = req.kind /\ r.user = req.user
        /\ r.ws = req.ws /\ r.viewer = req.viewer /\ r.answer = req.answer /\ r.name = req.name
        /\ r.level = req.ws /\ r.bound = req.bound
    BY <1>1, <2>1 DEF Request, Opt
  <2>3. Handle(r)
    BY <1>3
  <2> HIDE DEF r
  <2>4. Listing(r, during)
    BY <1>1, <2>2 DEF Listing, Gathered, Rest
  <2>5. Earned(r, during)
    BY <1>1, <1>3, <2>2, <2>4, SameFacts DEF Earned, ListPcs
  <2> QED
    BY <1>1, <2>2, <2>3, <2>5, StepKeeps
<1> QED
  BY <1>2, <1>3

LEMMA LevelBindingsKeeps ==
  ASSUME PInv, LevelBindings
  PROVE  PInv'
<1> USE DEF LevelBindings
<1> DEFINE names == req.bound \cup DirectlyBound(world, req.level)
<1>1. /\ req.pc = "bindings" /\ req \in Request /\ req.user \in Users /\ req.ws \in Spaces
      /\ req.kind \in {"get", "workspace"} /\ NotBanned(req, during) /\ req.answer # "forwarded"
      /\ req.name = req.user \/ (req.name = Viewer /\ req.viewer)
      /\ req.name # None /\ Listing(req, during) /\ world \in during
  BY DEF PInv, TypeOK, Earned
<1>2. names \subseteq Names
  BY <1>1 DEF DirectlyBound, Request
<1>3. /\ req.level \in Spaces /\ Line[req.level] \subseteq Line[req.ws]
      /\ Gathered(req, during, req.bound, Line[req.level])
  BY <1>1 DEF Listing, Rest
<1>4. Gathered(req, during, names, Beyond(req.level))
  BY <1>1, <1>3, LevelGathers
<1> HIDE DEF names
<1>5. ASSUME Parent[req.level] # None, Handle([req EXCEPT !.pc = "parent", !.bound = names])
      PROVE  PInv'
  <2> DEFINE r == [req EXCEPT !.pc = "parent", !.bound = names]
  <2>1. /\ r \in Request /\ r.pc = "parent" /\ r.kind = req.kind /\ r.user = req.user
        /\ r.ws = req.ws /\ r.viewer = req.viewer /\ r.answer = req.answer /\ r.name = req.name
        /\ r.level = req.level /\ r.bound = names
    BY <1>1, <1>2 DEF Request
  <2>2. Handle(r)
    BY <1>5
  <2> HIDE DEF r
  <2>3. Listing(r, during)
    BY <1>3, <1>4, <1>5, <2>1 DEF Listing, Gathered, Rest
  <2>4. Earned(r, during)
    BY <1>1, <2>1, <2>3, SameFacts DEF Earned, ListPcs
  <2> QED
    BY <1>1, <2>1, <2>2, <2>4, StepKeeps
<1>6. ASSUME Parent[req.level] = None, MayAccess(names),
             Handle([req EXCEPT !.pc = "requests", !.bound = names])
      PROVE  PInv'
  <2> DEFINE r == [req EXCEPT !.pc = "requests", !.bound = names]
  <2>1. Gathered(req, during, names, {})
    BY <1>4, <1>6 DEF Beyond
  <2>2. /\ req.user \in names => UserBound(req, during)
        /\ req.user \notin names => UserUnbound(req, during)
        /\ Viewer \in names => ViewerBound(req, during)
    BY <2>1 DEF Gathered, UserBound, UserUnbound, ViewerBound
  <2>3. UserBound(req, during) \/ (req.viewer /\ ViewerBound(req, during))
    BY <1>1, <1>6, <2>2 DEF MayAccess
  <2>4. Handle(r)
    BY <1>6
  <2>5. /\ r \in Request /\ r.pc = "requests" /\ r.kind = req.kind /\ r.user = req.user
        /\ r.ws = req.ws /\ r.viewer = req.viewer /\ r.answer = req.answer /\ r.bound = names
    BY <1>1, <1>2 DEF Request
  <2> HIDE DEF r
  <2>6. Supported(r, during)
    BY <2>2, <2>3, <2>5, SameFacts DEF Supported
  <2>7. Earned(r, during)
    BY <1>1, <2>5, <2>6, SameFacts DEF Earned, ListPcs
  <2> QED
    BY <1>1, <2>4, <2>5, <2>7, StepKeeps
<1>7. ASSUME NotFound PROVE PInv'
  BY <1>1, <1>7, NotFoundKeeps
<1>8. ASSUME Fault PROVE PInv'
  BY <1>1, <1>8, FaultKeeps
<1> QED
  BY <1>5, <1>6, <1>7, <1>8 DEF names

LEMMA ParentSpaceKeeps ==
  ASSUME PInv, ParentSpace
  PROVE  PInv'
<1> USE DEF ParentSpace
<1> DEFINE p == Parent[req.level]
<1>1. /\ req.pc = "parent" /\ req \in Request /\ req.user \in Users /\ req.ws \in Spaces
      /\ req.kind \in {"get", "workspace"} /\ NotBanned(req, during) /\ req.answer # "forwarded"
      /\ req.name = req.user \/ (req.name = Viewer /\ req.viewer)
      /\ req.name # None /\ Listing(req, during)
  BY DEF PInv, TypeOK, Earned
<1>2. ASSUME Answer("internal") PROVE PInv'
  BY <1>1, <1>2, AnswerKeeps DEF Answers
<1>3. ASSUME Fault PROVE PInv'
  BY <1>1, <1>3, FaultKeeps
<1>4. ASSUME Handle([req EXCEPT !.pc = "bindings", !.level = p]) PROVE PInv'
  <2> DEFINE r == [req EXCEPT !.pc = "bindings", !.level = p]
  <2>1. /\ req.level \in Spaces /\ Line[req.level] \subseteq Line[req.ws] /\ p # None
        /\ Gathered(req, during, req.bound, Beyond(req.level))
    BY <1>1 DEF Listing, Rest
  <2>2. p \in Spaces /\ Beyond(req.level) = Line[p] /\ Line[p] \subseteq Line[req.ws]
    BY <2>1, LineStep, ProxyAssumption DEF Beyond, Opt
  <2>3. Handle(r)
    BY <1>4
  <2> HIDE DEF p
  <2>4. /\ r \in Request /\ r.pc = "bindings" /\ r.kind = req.kind /\ r.user = req.user
        /\ r.ws = req.ws /\ r.viewer = req.viewer /\ r.answer = req.answer /\ r.name = req.name
        /\ r.level = p /\ r.bound = req.bound
    BY <1>1, <2>2 DEF Request, Opt
  <2> HIDE DEF r
  <2>5. Listing(r, during)
    BY <2>1, <2>2, <2>4 DEF Listing, Gathered, Rest
  <2>6. Earned(r, during)
    BY <1>1, <2>4, <2>5, SameFacts DEF Earned, ListPcs
  <2> QED
    BY <1>1, <2>3, <2>4, <2>6, StepKeeps
<1> QED
  BY <1>2, <1>3, <1>4

LEMMA WorkspaceRequestsKeeps ==
  ASSUME PInv, WorkspaceRequests
  PROVE  PInv'
<1> USE DEF WorkspaceRequests
<1> DEFINE b == req.bound \cup Requested(world)
           r == [req EXCEPT !.bound = b,
                            !.pc = IF req.kind = "get" THEN "done" ELSE "access",
                            !.answer = IF req.kind = "get" THEN "found" ELSE None]
<1>1. /\ req.pc = "requests" /\ req \in Request /\ req.user \in Users /\ req.ws \in Spaces
      /\ req.kind \in {"get", "workspace"} /\ NotBanned(req, during)
      /\ Supported(req, during) /\ world \in during
  BY DEF PInv, TypeOK, Earned
<1>2. ASSUME Answer("internal") PROVE PInv'
  BY <1>1, <1>2, AnswerKeeps DEF Answers
<1>3. ASSUME Fault PROVE PInv'
  BY <1>1, <1>3, FaultKeeps
<1>4. ASSUME Handle(r) PROVE PInv'
  <2>1. b \subseteq Names
    BY <1>1 DEF Requested, Names, Request
  <2>2. /\ req.user \in b => UserBound(req, during) \/ HasAsked(req, during)
        /\ req.user \notin b => UserUnbound(req, during)
    BY <1>1 DEF Supported, Requested, HasAsked
  <2>3. UserBound(req, during) \/ (req.viewer /\ ViewerBound(req, during))
    BY <1>1 DEF Supported
  <2> HIDE DEF b
  <2>4. /\ r \in Request /\ r.pc = (IF req.kind = "get" THEN "done" ELSE "access")
        /\ r.kind = req.kind /\ r.user = req.user /\ r.ws = req.ws /\ r.viewer = req.viewer
        /\ r.bound = b /\ r.answer \in {"found", None}
    <3> DEFINE pc == IF req.kind = "get" THEN "done" ELSE "access"
               an == IF req.kind = "get" THEN "found" ELSE None
    <3>1. pc \in {"done", "access"} /\ an \in {"found", None} /\ an \in Opt(Answers)
      BY DEF Opt, Answers
    <3>2. r = [req EXCEPT !.bound = b, !.pc = pc, !.answer = an]
      OBVIOUS
    <3> HIDE DEF pc, an, r
    <3>3. r.pc = pc /\ r.answer = an /\ r.bound = b /\ r.kind = req.kind /\ r.user = req.user
          /\ r.ws = req.ws /\ r.viewer = req.viewer
      BY <1>1, <3>2 DEF Request
    <3>4. r \in Request
      BY <1>1, <2>1, <3>1, <3>2 DEF Request
    <3> QED
      BY <3>1, <3>3, <3>4 DEF pc
  <2> HIDE DEF r
  <2>5. Supported(r, during)
    BY <2>2, <2>3, <2>4, SameFacts DEF Supported
  <2>6. r.answer # "forwarded"
    BY <2>4, NoneAssumption DEF Answers
  <2>7. Earned(r, during)
    BY <1>1, <2>4, <2>5, <2>6, SameFacts DEF Earned, ListPcs
  <2> QED
    BY <1>1, <1>4, <2>4, <2>7, StepKeeps
<1> QED
  BY <1>2, <1>3, <1>4

LEMMA ClusterAccessKeeps ==
  ASSUME PInv, ClusterAccess
  PROVE  PInv'
<1> USE DEF ClusterAccess
<1> DEFINE n == IF AsViewer(world) THEN Viewer ELSE req.user
           r == [req EXCEPT !.pc = IF AsViewer(world) THEN "target" ELSE "name", !.name = n]
<1>1. /\ req.pc = "access" /\ req \in Request /\ req.user \in Users /\ req.ws \in Spaces
      /\ req.kind = "workspace" /\ NotBanned(req, during) /\ req.answer # "forwarded"
      /\ Supported(req, during) /\ world \in during /\ world \in World
  BY DEF PInv, TypeOK, Earned
<1>2. ASSUME Answer("internal") PROVE PInv'
  BY <1>1, <1>2, AnswerKeeps DEF Answers
<1>3. ASSUME AccountOf(world) # "failing", Handle(r) PROVE PInv'
  <2>1. /\ r \in Request /\ r.pc = (IF AsViewer(world) THEN "target" ELSE "name")
        /\ r.kind = req.kind /\ r.user = req.user /\ r.ws = req.ws /\ r.viewer = req.viewer
        /\ r.answer = req.answer /\ r.name = n
    <3> DEFINE pc == IF AsViewer(world) THEN "target" ELSE "name"
    <3>1. n \in Opt(Names) /\ pc \in {"target", "name"}
      BY <1>1 DEF Opt, Names
    <3>2. r = [req EXCEPT !.pc = pc, !.name = n]
      OBVIOUS
    <3> HIDE DEF pc, n, r
    <3>3. r \in Request
      BY <1>1, <3>1, <3>2 DEF Request
    <3>4. /\ r.pc = pc /\ r.kind = req.kind /\ r.user = req.user /\ r.ws = req.ws
          /\ r.viewer = req.viewer /\ r.answer = req.answer /\ r.name = n
      BY <1>1, <3>2 DEF Request
    <3> QED
      BY <3>3, <3>4 DEF pc
  <2> HIDE DEF r
  <2>2. CASE AsViewer(world)
    <3>1. AccountOf(world) = "absent" \/ req.user \notin req.bound
      BY <1>1, <1>3, <2>2 DEF AsViewer, AccountOf, World, Accounts
    <3>2. WasAbsent(req, during) \/ UserUnbound(req, during)
      BY <1>1, <3>1 DEF WasAbsent, AccountOf, Supported
    <3>3. ViewerRights(req, during) /\ req.viewer
      BY <1>1, <2>2, <3>2 DEF ViewerRights, Supported, AsViewer
    <3>4. Rights(r, during)
      BY <2>1, <2>2, <3>3, SameFacts DEF Rights
    <3>5. Earned(r, during)
      BY <1>1, <2>1, <2>2, <3>4, SameFacts DEF Earned, ListPcs
    <3> QED
      BY <1>1, <1>3, <2>1, <2>2, <3>5, StepKeeps
  <2>3. CASE ~AsViewer(world)
    <3>1. UserRights(req, during)
      BY <1>1, <2>3 DEF AsViewer, Supported, UserRights
    <3>2. UserRights(r, during)
      BY <2>1, <3>1, SameFacts
    <3>3. Earned(r, during)
      BY <1>1, <2>1, <2>3, <3>2, SameFacts DEF Earned, ListPcs
    <3> QED
      BY <1>1, <1>3, <2>1, <2>3, <3>3, StepKeeps
  <2> QED
    BY <2>2, <2>3
<1> QED
  BY <1>2, <1>3

LEMMA CompliantNameKeeps ==
  ASSUME PInv, CompliantName
  PROVE  PInv'
<1> USE DEF CompliantName
<1>1. /\ req.pc = "name" /\ req \in Request /\ req.user \in Users /\ req.ws \in Spaces
      /\ req.kind = "workspace" /\ NotBanned(req, during) /\ req.answer # "forwarded"
      /\ req.name = req.user /\ UserRights(req, during) /\ world \in during
  BY DEF PInv, TypeOK, Earned
<1>2. ASSUME Answer("internal") PROVE PInv'
  BY <1>1, <1>2, AnswerKeeps DEF Answers
<1>3. ASSUME AccountOf(world) = "active", Goto("target") PROVE PInv'
  <2> DEFINE r == [req EXCEPT !.pc = "target"]
  <2>1. /\ r \in Request /\ r.pc = "target" /\ r.kind = "workspace" /\ r.user = req.user
        /\ r.ws = req.ws /\ r.viewer = req.viewer /\ r.answer = req.answer /\ r.name = req.name
    BY <1>1 DEF Request
  <2>2. Handle(r)
    BY <1>3 DEF Goto
  <2> HIDE DEF r
  <2>3. WasActive(req, during)
    BY <1>1, <1>3 DEF WasActive, AccountOf
  <2>4. Rights(r, during)
    BY <1>1, <2>1, <2>3, SameFacts DEF Rights
  <2>5. Earned(r, during)
    BY <1>1, <2>1, <2>4, SameFacts DEF Earned, ListPcs
  <2> QED
    BY <1>1, <2>1, <2>2, <2>5, StepKeeps
<1> QED
  BY <1>2, <1>3

LEMMA SpaceTargetKeeps ==
  ASSUME PInv, SpaceTarget
  PROVE  PInv'
<1> USE DEF SpaceTarget
<1>1. /\ req.pc = "target" /\ req \in Request /\ req.user \in Users /\ req.ws \in Spaces
      /\ req.kind = "workspace" /\ NotBanned(req, during) /\ req.answer # "forwarded"
      /\ Rights(req, during) /\ world \in during /\ world \in World
  BY DEF PInv, TypeOK, Earned
<1>2. ASSUME Answer("internal") PROVE PInv'
  BY <1>1, <1>2, AnswerKeeps DEF Answers
<1>3. ASSUME Handle([req EXCEPT !.pc = "member", !.cluster = world.place[req.ws]]) PROVE PInv'
  <2> DEFINE r == [req EXCEPT !.pc = "member", !.cluster = world.place[req.ws]]
  <2>1. world.place[req.ws] \in Places
    BY <1>1 DEF World
  <2>2. /\ r \in Request /\ r.pc = "member" /\ r.kind = "workspace" /\ r.user = req.user
        /\ r.ws = req.ws /\ r.viewer = req.viewer /\ r.answer = req.answer /\ r.name = req.name
        /\ r.cluster = world.place[req.ws]
    BY <1>1, <2>1 DEF Request, Opt
  <2>3. Handle(r)
    BY <1>3
  <2> HIDE DEF r
  <2>4. Rights(r, during) /\ NotBanned(r, during)
    BY <1>1, <2>2, SameFacts
  <2>5. Placed(r, during)
    BY <1>1, <2>2 DEF Placed
  <2>6. Earned(r, during)
    BY <1>1, <2>2, <2>4, <2>5 DEF Earned, ListPcs
  <2> QED
    BY <1>1, <2>2, <2>3, <2>6, StepKeeps
<1> QED
  BY <1>2, <1>3

-----------------------------------------------------------------------------
(* The theorems.                                                           *)

LEMMA HandlerKeeps ==
  ASSUME PInv, Handler
  PROVE  PInv'
BY BanKeeps, HomeSignupKeeps, PickSpaceKeeps, HomeTargetKeeps, FindMemberKeeps, ListSignupKeeps,
   ListBindingsKeeps, ListDoneKeeps, ListSpaceKeeps, CheckUserKeeps, CheckSpaceKeeps,
   WorkspaceSignupKeeps, WorkspaceSpaceKeeps, LevelBindingsKeeps, ParentSpaceKeeps, WorkspaceRequestsKeeps,
   ClusterAccessKeeps, CompliantNameKeeps, SpaceTargetKeeps DEF Handler

\* One field of the caches changes.
LEMMA CachesKeep ==
  ASSUME PInv, Caches
  PROVE  PInv'
<1>1. world \in World
  BY DEF PInv, TypeOK
<1>2. ASSUME NEW u \in Users, NEW a \in Accounts, AccountChanges(u, a) PROVE PInv'
  <2> DEFINE w == [world EXCEPT !.account[u] = a]
  <2>1. w \in World
    BY <1>1, <1>2 DEF World
  <2>2. Change(w)
    BY <1>2 DEF AccountChanges
  <2> HIDE DEF w
  <2> QED
    BY <2>1, <2>2, ChangeKeeps
<1>3. ASSUME NEW u \in Users, NEW s \in Opt(Spaces), HomeChanges(u, s) PROVE PInv'
  <2> DEFINE w == [world EXCEPT !.home[u] = s]
  <2>1. w \in World
    BY <1>1, <1>3 DEF World
  <2>2. Change(w)
    BY <1>3 DEF HomeChanges
  <2> HIDE DEF w
  <2> QED
    BY <2>1, <2>2, ChangeKeeps
<1>4. ASSUME NEW s \in Spaces, NEW p \in Places, SpaceChanges(s, p) PROVE PInv'
  <2> DEFINE w == [world EXCEPT !.place[s] = p]
  <2>1. w \in World
    BY <1>1, <1>4 DEF World
  <2>2. Change(w)
    BY <1>4 DEF SpaceChanges
  <2> HIDE DEF w
  <2> QED
    BY <2>1, <2>2, ChangeKeeps
<1>5. ASSUME NEW b \in Spaces \X Names, BindingChanges(b) PROVE PInv'
  <2> DEFINE w == [world EXCEPT !.bindings = IF b \in @ THEN @ \ {b} ELSE @ \cup {b}]
  <2>1. w \in World
    BY <1>1, <1>5 DEF World
  <2>2. Change(w)
    BY <1>5 DEF BindingChanges
  <2> HIDE DEF w
  <2> QED
    BY <2>1, <2>2, ChangeKeeps
<1>6. ASSUME NEW b \in Spaces \X Users, AskedChanges(b) PROVE PInv'
  <2> DEFINE w == [world EXCEPT !.asked = IF b \in @ THEN @ \ {b} ELSE @ \cup {b}]
  <2>1. w \in World
    BY <1>1, <1>6 DEF World
  <2>2. Change(w)
    BY <1>6 DEF AskedChanges
  <2> HIDE DEF w
  <2> QED
    BY <2>1, <2>2, ChangeKeeps
<1>7. ASSUME NEW u \in Users, BanChanges(u) PROVE PInv'
  <2> DEFINE w == [world EXCEPT !.banned = IF u \in @ THEN @ \ {u} ELSE @ \cup {u}]
  <2>1. w \in World
    BY <1>1, <1>7 DEF World
  <2>2. Change(w)
    BY <1>7 DEF BanChanges
  <2> HIDE DEF w
  <2> QED
    BY <2>1, <2>2, ChangeKeeps
<1>8. ASSUME NEW m \in Members, MembersChange(m) PROVE PInv'
  <2> DEFINE w == [world EXCEPT !.members = IF m \in @ THEN @ \ {m} ELSE @ \cup {m}]
  <2>1. w \in World
    BY <1>1, <1>8 DEF World
  <2>2. Change(w)
    BY <1>8 DEF MembersChange
  <2> HIDE DEF w
  <2> QED
    BY <2>1, <2>2, ChangeKeeps
<1> QED
  BY <1>2, <1>3, <1>4, <1>5, <1>6, <1>7, <1>8 DEF Caches

LEMMA NextKeeps ==
  PInv /\ [Next]_vars => PInv'
<1> SUFFICES ASSUME PInv, [Next]_vars PROVE PInv'
  OBVIOUS
<1>1. ASSUME Receives PROVE PInv'
  BY <1>1, ReceiveKeeps DEF Receives
<1>2. ASSUME UNCHANGED vars PROVE PInv'
  BY <1>2 DEF vars, PInv, TypeOK
<1> QED
  BY <1>1, <1>2, HandlerKeeps, CachesKeep DEF Next, Finished

LEMMA PInvHolds ==
  Spec => []PInv
BY InitEarns, NextKeeps, PTL DEF Spec

\* The variables keep their types, whatever the caches do (processRequest).
THEOREM TypeCorrect == Spec => []TypeOK
<1>1. PInv => TypeOK
  BY DEF PInv
<1> QED
  BY <1>1, PInvHolds, PTL

LEMMA EarnedRights ==
  PInv => ForwardedWithinRights
<1> SUFFICES ASSUME PInv, req.answer = "forwarded" PROVE ForwardedWithinRights
  BY DEF ForwardedWithinRights
<1>1. /\ req.user \in Users /\ NotBanned(req, during) /\ Placed(req, during) /\ OnMember(req, during)
      /\ req.kind = "workspace" => Rights(req, during)
      /\ req.kind = "home" => HomeFound(req, during) /\ OwnListed(req, during) /\ req.name = req.user
  BY DEF PInv, Earned
<1>2. /\ \E w \in during : req.user \notin w.banned
      /\ \E w \in during : w.place[req.ws] = req.cluster
      /\ \E w \in during : req.cluster \in w.members
  BY <1>1 DEF NotBanned, Placed, OnMember
<1>3. ASSUME Rights(req, during) PROVE WorkspaceRights
  <2>1. req.user # Viewer
    BY <1>1, ProxyAssumption
  <2>2. CASE req.name = req.user /\ WasActive(req, during) /\ UserRights(req, during)
    <3>1. \E w \in during : AccountOf(w) = "active"
      BY <2>2 DEF WasActive, AccountOf
    <3> QED
      BY <2>1, <2>2, <3>1 DEF WorkspaceRights, UserRights, UserBound, ViewerBound, HasAsked
  <2>3. CASE req.name = Viewer /\ req.viewer /\ ViewerRights(req, during)
    <3>1. \E w \in during : {req.user, Viewer} \cap Bound(w, req.ws) # {}
      BY <2>3 DEF ViewerRights, UserBound, ViewerBound
    <3>2. \/ \E w \in during : AccountOf(w) = "absent"
          \/ \A a \in Line[req.ws] : \E w \in during : <<a, req.user>> \notin w.bindings
      BY <2>3 DEF ViewerRights, WasAbsent, UserUnbound, AccountOf
    <3> QED
      BY <2>1, <2>3, <3>1, <3>2 DEF WorkspaceRights
  <2> QED
    BY <1>3, <2>2, <2>3 DEF Rights
<1>4. ASSUME req.kind = "home" PROVE HomeRights
  <2>1. \E w \in during : AccountOf(w) = "active"
    BY <1>1, <1>4 DEF HomeFound, WasActive, AccountOf
  <2>2. \E w \in during : req.ws = w.home[req.user] \/ <<req.ws, req.user>> \in w.bindings
    BY <1>1, <1>4 DEF HomeFound, HomeOrBound
  <2>3. \E s \in Spaces : /\ Owner[s] = req.user
                          /\ \E w \in during : s \in DirectSpaces(w, ListedNames)
                          /\ \E w \in during : Exists(w, s)
    BY <1>1, <1>4 DEF OwnListed, WasListed, Existed, ListNames, ListedNames
  <2> QED
    BY <2>1, <2>2, <2>3 DEF HomeRights
<1> QED
  BY <1>1, <1>2, <1>3, <1>4 DEF ForwardedWithinRights

\* A request that the proxy forwards had its rights while it was handled, whatever the
\* informer caches did between its reads (getClusterAccess).
THEOREM RightsWereHeld == Spec => []ForwardedWithinRights
BY PInvHolds, EarnedRights, PTL

-----------------------------------------------------------------------------
(* Access that stands, a list, and caches that stand still.                *)
(*                                                                         *)
(* These three properties say what must come of a request when something   *)
(* was so in all the worlds of the request.  A change of the caches only   *)
(* makes such a condition harder to meet, so the invariants say what the   *)
(* handler has come to while the condition still holds, and each step of   *)
(* the handler uses it for the one world that it reads.                    *)

PathKinds == {"get", "workspace"}

\* The steps of a request for a workspace named in its path.
PathPcs == {"ban", "user", "exists", "signup", "space", "bindings", "parent", "requests",
            "access", "name", "target", "member", "done"}

\* The user has access in all of the worlds D, by one and the same binding.
Stands(r, D) ==
  /\ r.kind = "workspace" /\ r.user \in Users /\ r.pc # "idle" /\ ~r.fault
  /\ \A w \in D : /\ r.user \notin w.banned
                  /\ w.account[r.user] = "active"
                  /\ \A a \in Line[r.ws] : Exists(w, a)
  /\ ~UserUnbound(r, D)
  /\ \E m \in Members : \A w \in D : w.place[r.ws] = m /\ m \in w.members

\* Then the handler is on the way to forward the request as the user.
LetThrough(r) ==
  /\ r.pc \in PathPcs
  /\ r.pc \in {"space", "bindings", "parent", "name", "target", "member", "done"} => r.name = r.user
  /\ r.pc \in {"requests", "access"} => r.user \in r.bound
  /\ r.pc = "done" => r.answer = "forwarded"

\* The user is bound to the space s, which exists, in all of the worlds D.
StandsIn(r, s, D) ==
  \A w \in D : w.account[r.user] = "active" /\ <<s, r.user>> \in w.bindings /\ Exists(w, s)

\* What a request for the list of workspaces has come to.
ListSoFar(r, D) ==
  /\ r.answer = "listed" => r.kind = "list" /\ r.pc = "done"
  /\ r.kind = "list" => ~r.viewer
  /\ r.pc \notin {"listSpaces", "done"} => r.found = {}
  /\ r.pc = "listSpaces" => \A s \in Spaces : StandsIn(r, s, D) => s \in r.todo \cup r.found
  /\ r.answer = "listed" =>
       /\ \A s \in r.found : WasListed(r, s, D) /\ Existed(s, D)
       /\ \A s \in Spaces : StandsIn(r, s, D) => s \in r.found

\* Direct, Community, Broken and WorkspaceVerdict, for a request r.
DirectOf(r, w) == w.account[r.user] = "active" /\ r.user \in Bound(w, r.ws)

CommunityOf(r, w) == r.viewer /\ Viewer \in Bound(w, r.ws)

MayUse(r, w) == DirectOf(r, w) \/ CommunityOf(r, w)

BrokenOf(r, w) ==
  \/ w.account[r.user] = "failing"
  \/ r.kind = "workspace" /\ (~Exists(w, r.ws) \/ (w.account[r.user] = "absent" /\ ~r.viewer))
  \/ /\ Exists(w, r.ws) /\ (w.account[r.user] = "active" \/ r.viewer)
     /\ \E a \in Line[r.ws] : ~Exists(w, a)

VerdictOf(r, w) ==
  IF r.user \in w.banned THEN "banned"
  ELSE IF BrokenOf(r, w) THEN "internal"
  ELSE IF ~Exists(w, r.ws) \/ ~MayUse(r, w)
       THEN IF r.kind = "get" THEN "notFound" ELSE "forbidden"
  ELSE IF w.members = {} \/ (r.kind = "workspace" /\ w.place[r.ws] \notin w.members)
       THEN "internal"
  ELSE IF r.kind = "get" THEN "found" ELSE "forwarded"

AskedFor(r, w) == w.place[r.ws] \in w.members /\ <<r.ws, r.user>> \in w.asked

\* The user goes by the own name.
OwnName(r, w) ==
  w.account[r.user] = "active" /\ (r.user \in Bound(w, r.ws) \/ AskedFor(r, w))

NameAt(r, w) ==
  IF w.account[r.user] = "active" THEN r.user ELSE IF r.viewer THEN Viewer ELSE None

\* What the handler has found out about a world w that it has seen nothing else than:
\* the checks it has passed, one after the other, and what it keeps of what it read.
UserChecked(r, w) == r.kind = "workspace" => r.viewer \/ w.account[r.user] = "active"

SpaceChecked(r, w) == UserChecked(r, w) /\ (r.kind = "workspace" => Exists(w, r.ws))

Identified(r, w) == SpaceChecked(r, w) /\ w.account[r.user] # "failing"

Located(r, w) == Identified(r, w) /\ NameAt(r, w) # None /\ Exists(w, r.ws)

Admitted(r, w) ==
  /\ Located(r, w) /\ MayUse(r, w)
  /\ \A a \in Line[r.ws] : Exists(w, a)

\* What names say in w, when all spaces of the line but those in R have been listed.
Read(r, w, names, R) ==
  /\ \A n \in Names : n \in Bound(w, r.ws) <=> n \in names \/ \E a \in R : <<a, n>> \in w.bindings
  /\ \A a \in Line[r.ws] : Exists(w, a) \/ a \in R

SoFar(r, w) ==
  /\ r.pc \in PathPcs
  /\ r.pc \notin {"ban", "done"} => r.user \notin w.banned
  /\ r.pc = "exists" => UserChecked(r, w)
  /\ r.pc = "signup" => SpaceChecked(r, w)
  /\ r.pc = "space" => Identified(r, w)
  /\ r.pc \in {"bindings", "parent"} => Located(r, w) /\ Read(r, w, r.bound, Rest(r))
  /\ r.pc = "bindings" => Exists(w, r.level)
  /\ r.pc \in {"space", "bindings", "parent"} => r.name = NameAt(r, w)
  /\ r.pc \in {"bindings", "parent", "requests", "member"} => r.cluster = w.place[r.ws]
  /\ r.pc \in {"requests", "access", "name", "target", "member"} => Admitted(r, w)
  /\ r.pc = "requests" => r.bound = Bound(w, r.ws)
  /\ r.pc \in {"access", "name", "target", "member"} => w.members # {}
  /\ r.pc = "access" => (r.user \in r.bound <=> r.user \in Bound(w, r.ws) \/ AskedFor(r, w))
  /\ r.pc = "name" => OwnName(r, w)
  /\ r.pc \in {"name", "target", "member"} => r.name = IF OwnName(r, w) THEN r.user ELSE Viewer
  /\ r.pc = "done" =>
       /\ r.answer = VerdictOf(r, w)
       /\ r.answer = "forwarded" => r.name = IF OwnName(r, w) THEN r.user ELSE Viewer

Quiet(r, D) ==
  /\ r.kind \in PathKinds /\ r.user \in Users /\ r.pc # "idle" /\ ~r.fault
  /\ \E w : D = {w}

CInv ==
  /\ PInv /\ IsFiniteSet(during)
  /\ Stands(req, during) => LetThrough(req)
  /\ ListSoFar(req, during)
  /\ Quiet(req, during) => SoFar(req, world)

\* What is said of a request does not depend on where its handler is.
LEMMA SameVerdict ==
  ASSUME NEW q, NEW r, NEW w,
         r.kind = q.kind, r.user = q.user, r.ws = q.ws, r.viewer = q.viewer
  PROVE  /\ VerdictOf(r, w) = VerdictOf(q, w)
         /\ OwnName(r, w) = OwnName(q, w)
         /\ AskedFor(r, w) = AskedFor(q, w)
         /\ NameAt(r, w) = NameAt(q, w)
         /\ UserChecked(r, w) = UserChecked(q, w)
         /\ SpaceChecked(r, w) = SpaceChecked(q, w)
         /\ Identified(r, w) = Identified(q, w)
         /\ Located(r, w) = Located(q, w)
         /\ Admitted(r, w) = Admitted(q, w)
<1>1. /\ DirectOf(r, w) = DirectOf(q, w) /\ CommunityOf(r, w) = CommunityOf(q, w)
      /\ BrokenOf(r, w) = BrokenOf(q, w) /\ AskedFor(r, w) = AskedFor(q, w)
      /\ NameAt(r, w) = NameAt(q, w)
  BY DEF DirectOf, CommunityOf, BrokenOf, AskedFor, NameAt
<1>2. MayUse(r, w) = MayUse(q, w)
  BY <1>1 DEF MayUse
<1>3. VerdictOf(r, w) = VerdictOf(q, w) /\ OwnName(r, w) = OwnName(q, w)
  BY <1>1, <1>2 DEF VerdictOf, OwnName
<1>4. UserChecked(r, w) = UserChecked(q, w)
  BY DEF UserChecked
<1>5. SpaceChecked(r, w) = SpaceChecked(q, w)
  BY <1>4 DEF SpaceChecked
<1>6. Identified(r, w) = Identified(q, w)
  BY <1>5 DEF Identified
<1>7. Located(r, w) = Located(q, w)
  BY <1>1, <1>6 DEF Located
<1>8. Admitted(r, w) = Admitted(q, w)
  BY <1>2, <1>7 DEF Admitted
<1> QED
  BY <1>1, <1>3, <1>4, <1>5, <1>6, <1>7, <1>8

\* The world at hand is one of the request's, and the only one of a quiet request.
LEMMA AtHand ==
  ASSUME CInv, req.pc # "idle"
  PROVE  /\ world \in during /\ world \in World /\ req \in Request
         /\ Quiet(req, during) => during = {world}
         /\ Stands(req, during) =>
              /\ req.user \notin world.banned /\ world.account[req.user] = "active"
              /\ \A a \in Line[req.ws] : Exists(world, a)
              /\ world.place[req.ws] \in world.members /\ Exists(world, req.ws)
<1>1. world \in during /\ world \in World /\ req \in Request
  BY DEF CInv, PInv, TypeOK
<1>2. ASSUME Quiet(req, during) PROVE during = {world}
  BY <1>1, <1>2 DEF Quiet
<1>3. ASSUME Stands(req, during)
      PROVE  /\ req.user \notin world.banned /\ world.account[req.user] = "active"
             /\ \A a \in Line[req.ws] : Exists(world, a)
             /\ world.place[req.ws] \in world.members /\ Exists(world, req.ws)
  <2>1. PICK m \in Members : \A w \in during : w.place[req.ws] = m /\ m \in w.members
    BY <1>3 DEF Stands
  <2>2. m # "missing"
    BY ProxyAssumption
  <2> QED
    BY <1>1, <1>3, <2>1, <2>2 DEF Stands, Exists
<1> QED
  BY <1>1, <1>2, <1>3

\* A step of the handler of a request for a workspace.
LEMMA PathStep ==
  ASSUME CInv, PInv', req.pc # "idle", req.kind \in PathKinds, req.user \in Users,
         NEW r, Handle(r), r.pc \in PathPcs, r.found = {} \/ r.pc = "done",
         r.kind = req.kind, r.user = req.user, r.ws = req.ws, r.viewer = req.viewer,
         r.answer # "listed",
         r.fault \/ r.fault = req.fault,
         ~r.fault /\ Stands(req, during) => LetThrough(r),
         ~r.fault /\ Quiet(req, during) => SoFar(r, world)
  PROVE  CInv'
<1>1. req' = r /\ world' = world /\ during' = during
  BY DEF Handle
<1>2. Stands(r, during) => ~r.fault /\ Stands(req, during)
  BY SameFacts DEF Stands
<1>3. Quiet(r, during) => ~r.fault /\ Quiet(req, during)
  BY DEF Quiet
<1>4. ListSoFar(r, during)
  BY DEF ListSoFar, PathKinds, PathPcs
<1>5. IsFiniteSet(during)
  BY DEF CInv
<1> QED
  BY <1>1, <1>2, <1>3, <1>4, <1>5 DEF CInv

\* An answer other than forwarding it.
LEMMA PathAnswer ==
  ASSUME CInv, PInv', req.pc # "idle", req.kind \in PathKinds, req.user \in Users,
         NEW a \in Answers \ {"listed", "forwarded"}, Answer(a),
         ~Stands(req, during),
         Quiet(req, during) => VerdictOf(req, world) = a
  PROVE  CInv'
<1> DEFINE r == [req EXCEPT !.pc = "done", !.answer = a]
<1>1. req \in Request
  BY DEF CInv, PInv, TypeOK
<1>2. /\ r.pc = "done" /\ r.answer = a /\ r.kind = req.kind /\ r.user = req.user
      /\ r.ws = req.ws /\ r.viewer = req.viewer /\ r.fault = req.fault
  BY <1>1 DEF Request
<1>3. Handle(r)
  BY DEF Answer
<1> HIDE DEF r
<1>4. Quiet(req, during) => SoFar(r, world)
  BY <1>2, SameVerdict DEF SoFar, PathPcs
<1> QED
  BY <1>2, <1>3, <1>4, PathStep DEF PathPcs

\* A read that fails says nothing.
LEMMA PathFault ==
  ASSUME CInv, PInv', req.pc # "idle", req.kind \in PathKinds, req.user \in Users, Fault
  PROVE  CInv'
<1> DEFINE r == [req EXCEPT !.pc = "done", !.answer = "internal", !.fault = TRUE]
<1>1. req \in Request
  BY DEF CInv, PInv, TypeOK
<1>2. /\ r.pc = "done" /\ r.answer = "internal" /\ r.kind = req.kind /\ r.user = req.user
      /\ r.ws = req.ws /\ r.viewer = req.viewer /\ r.fault
  BY <1>1 DEF Request
<1>3. Handle(r)
  BY DEF Fault
<1> HIDE DEF r
<1> QED
  BY <1>2, <1>3, PathStep DEF PathPcs

\* A step of any other request.
LEMMA OtherStep ==
  ASSUME CInv, PInv', req.pc # "idle", req.kind \notin PathKinds,
         NEW r, Handle(r), r.kind = req.kind, ListSoFar(r, during)
  PROVE  CInv'
<1>1. req' = r /\ world' = world /\ during' = during
  BY DEF Handle
<1>2. ~Stands(r, during) /\ ~Quiet(r, during)
  BY DEF Stands, Quiet, PathKinds
<1> QED
  BY <1>1, <1>2 DEF CInv

\* An answer to any other request, and a failing read.
LEMMA OtherAnswer ==
  ASSUME CInv, PInv', req.pc # "idle", req.kind \notin PathKinds,
         NEW a \in Answers \ {"listed"}, NEW f \in BOOLEAN,
         Handle([req EXCEPT !.pc = "done", !.answer = a, !.fault = f])
  PROVE  CInv'
<1> DEFINE r == [req EXCEPT !.pc = "done", !.answer = a, !.fault = f]
<1>1. req \in Request
  BY DEF CInv, PInv, TypeOK
<1>2. r.pc = "done" /\ r.answer = a /\ r.kind = req.kind /\ r.viewer = req.viewer
  BY <1>1 DEF Request
<1>3. Handle(r)
  OBVIOUS
<1> HIDE DEF r
<1>4. ListSoFar(r, during)
  BY <1>2 DEF CInv, ListSoFar
<1> QED
  BY <1>2, <1>3, <1>4, OtherStep

\* What is known at any step of the handler of a request for a workspace.
LEMMA PathFacts ==
  ASSUME CInv, req.pc \in PathPcs \ {"done"}, req.kind \in PathKinds
  PROVE  /\ req \in Request /\ req.pc # "idle" /\ req.user \in Users /\ req.answer # "listed"
         /\ req.found = {} /\ world \in World
         /\ Quiet(req, during) => SoFar(req, world)
         /\ Stands(req, during) => LetThrough(req)
<1>1. req \in Request /\ req.pc # "idle" /\ world \in World
  BY DEF CInv, PInv, TypeOK, PathPcs
<1>2. req.user \in Users
  BY <1>1 DEF CInv, PInv, Earned
<1>3. req.answer # "listed" /\ req.found = {}
  BY DEF CInv, ListSoFar, PathKinds, PathPcs
<1> QED
  BY <1>1, <1>2, <1>3 DEF CInv

\* The handler goes on to another step.
LEMMA PathGoto ==
  ASSUME CInv, PInv', req.pc \in PathPcs \ {"done"}, req.kind \in PathKinds,
         NEW pc \in PathPcs, pc # "done", Goto(pc),
         Stands(req, during) => LetThrough([req EXCEPT !.pc = pc]),
         Quiet(req, during) => SoFar([req EXCEPT !.pc = pc], world)
  PROVE  CInv'
<1> DEFINE r == [req EXCEPT !.pc = pc]
<1>1. req \in Request /\ req.pc # "idle" /\ req.user \in Users /\ req.answer # "listed" /\ req.found = {}
  BY PathFacts
<1>2. /\ r.pc = pc /\ r.answer = req.answer /\ r.kind = req.kind /\ r.user = req.user
      /\ r.ws = req.ws /\ r.viewer = req.viewer /\ r.fault = req.fault /\ r.found = req.found
  BY <1>1 DEF Request
<1>3. Handle(r)
  BY DEF Goto
<1>4. Stands(req, during) => LetThrough(r)
  OBVIOUS
<1>5. Quiet(req, during) => SoFar(r, world)
  OBVIOUS
<1> HIDE DEF r
<1> QED
  BY <1>1, <1>2, <1>3, <1>4, <1>5, PathStep

LEMMA BanCarries ==
  ASSUME CInv, PInv', EnsureUserIsNotBanned, req.kind \in PathKinds
  PROVE  CInv'
<1> USE DEF EnsureUserIsNotBanned
<1>1. req.pc = "ban" /\ req.pc \in PathPcs \ {"done"}
  BY DEF PathPcs
<1>2. req \in Request /\ req.user \in Users /\ req.pc # "idle"
  BY <1>1, PathFacts
<1>3. ASSUME IsBanned(world), Answer("banned") PROVE CInv'
  <2>1. ~Stands(req, during)
    BY <1>2, <1>3, AtHand DEF IsBanned
  <2>2. VerdictOf(req, world) = "banned"
    BY <1>3 DEF VerdictOf, IsBanned
  <2> QED
    BY <1>2, <1>3, <2>1, <2>2, PathAnswer DEF Answers
<1>4. ASSUME NEW pc \in {"signup", "user"}, Goto(pc), ~IsBanned(world),
             pc = "signup" <=> req.kind = "get"
      PROVE  CInv'
  <2> DEFINE r == [req EXCEPT !.pc = pc]
  <2>1. /\ r.pc = pc /\ r.kind = req.kind /\ r.user = req.user
    BY <1>2 DEF Request
  <2> HIDE DEF r
  <2>2. LetThrough(r)
    BY <2>1 DEF LetThrough, PathPcs
  <2>3. SoFar(r, world)
    BY <1>4, <2>1 DEF SoFar, PathPcs, IsBanned, SpaceChecked, UserChecked
  <2> QED
    BY <1>1, <1>4, <2>2, <2>3, PathGoto DEF r, PathPcs
<1>5. ASSUME Fault PROVE CInv'
  BY <1>2, <1>5, PathFault
<1> QED
  BY <1>3, <1>4, <1>5 DEF PathKinds

LEMMA CheckUserCarries ==
  ASSUME CInv, PInv', CheckUser
  PROVE  CInv'
<1> USE DEF CheckUser
<1>1. req.pc = "user" /\ req.pc \in PathPcs \ {"done"} /\ req.kind = "workspace" /\ req.kind \in PathKinds
  BY DEF PathPcs, PathKinds, CInv, PInv, Earned
<1>2. /\ req \in Request /\ req.user \in Users /\ req.pc # "idle" /\ world \in World
      /\ Quiet(req, during) => SoFar(req, world)
      /\ Stands(req, during) => LetThrough(req)
  BY <1>1, PathFacts
<1>3. CASE req.viewer \/ AccountOf(world) = "active"
  <2> DEFINE r == [req EXCEPT !.pc = "exists"]
  <2>1. /\ r.pc = "exists" /\ r.kind = req.kind /\ r.user = req.user /\ r.viewer = req.viewer
    BY <1>2 DEF Request
  <2> HIDE DEF r
  <2>2. LetThrough(r)
    BY <2>1 DEF LetThrough, PathPcs
  <2>3. Quiet(req, during) => SoFar(r, world)
    BY <1>1, <1>2, <1>3, <2>1 DEF SoFar, PathPcs, UserChecked, AccountOf
  <2> QED
    BY <1>1, <1>3, <2>2, <2>3, PathGoto DEF r, PathPcs
<1>4. CASE ~(req.viewer \/ AccountOf(world) = "active")
  <2>1. ~Stands(req, during)
    BY <1>2, <1>4, AtHand DEF AccountOf
  <2>2. world.account[req.user] \in {"absent", "failing"}
    BY <1>2, <1>4 DEF World, Accounts, AccountOf
  <2>3. Quiet(req, during) => VerdictOf(req, world) = "internal"
    BY <1>1, <1>2, <1>4, <2>2 DEF SoFar, VerdictOf, BrokenOf
  <2> QED
    BY <1>1, <1>2, <1>4, <2>1, <2>3, PathAnswer DEF Answers
<1> QED
  BY <1>3, <1>4

LEMMA CheckSpaceCarries ==
  ASSUME CInv, PInv', CheckSpace
  PROVE  CInv'
<1> USE DEF CheckSpace
<1>1. req.pc = "exists" /\ req.pc \in PathPcs \ {"done"} /\ req.kind = "workspace" /\ req.kind \in PathKinds
  BY DEF PathPcs, PathKinds, CInv, PInv, Earned
<1>2. /\ req \in Request /\ req.user \in Users /\ req.pc # "idle" /\ world \in World
      /\ Quiet(req, during) => SoFar(req, world)
      /\ Stands(req, during) => LetThrough(req)
  BY <1>1, PathFacts
<1>3. CASE Exists(world, req.ws)
  <2> DEFINE r == [req EXCEPT !.pc = "signup"]
  <2>1. /\ r.pc = "signup" /\ r.kind = req.kind /\ r.user = req.user /\ r.ws = req.ws /\ r.viewer = req.viewer
    BY <1>2 DEF Request
  <2> HIDE DEF r
  <2>2. LetThrough(r)
    BY <2>1 DEF LetThrough, PathPcs
  <2>3. Quiet(req, during) => UserChecked(r, world) /\ r.user \notin world.banned
    BY <1>1, <1>2, <2>1, SameVerdict DEF SoFar
  <2>4. Quiet(req, during) => SoFar(r, world)
    BY <1>3, <2>1, <2>3 DEF SoFar, PathPcs, SpaceChecked
  <2> QED
    BY <1>1, <1>3, <2>2, <2>4, PathGoto DEF r, PathPcs
<1>4. CASE ~Exists(world, req.ws)
  <2>1. ~Stands(req, during)
    BY <1>2, <1>4, AtHand
  <2>2. Quiet(req, during) => VerdictOf(req, world) = "internal"
    BY <1>1, <1>2, <1>4 DEF SoFar, VerdictOf, BrokenOf
  <2> QED
    BY <1>1, <1>2, <1>4, <2>1, <2>2, PathAnswer DEF Answers
<1> QED
  BY <1>3, <1>4

LEMMA WorkspaceSignupCarries ==
  ASSUME CInv, PInv', WorkspaceSignup
  PROVE  CInv'
<1> USE DEF WorkspaceSignup
<1>1. req.pc = "signup" /\ req.pc \in PathPcs \ {"done"} /\ req.kind \in PathKinds
  BY DEF PathPcs, PathKinds, CInv, PInv, Earned
<1>2. /\ req \in Request /\ req.user \in Users /\ req.pc # "idle" /\ world \in World
      /\ req.answer # "listed" /\ req.found = {}
      /\ Quiet(req, during) => SoFar(req, world)
      /\ Stands(req, during) => LetThrough(req)
  BY <1>1, PathFacts
<1>3. CASE AccountOf(world) = "failing"
  <2>1. ~Stands(req, during)
    BY <1>2, <1>3, AtHand DEF AccountOf
  <2>2. Quiet(req, during) => VerdictOf(req, world) = "internal"
    BY <1>1, <1>2, <1>3 DEF SoFar, VerdictOf, BrokenOf, AccountOf
  <2> QED
    BY <1>1, <1>2, <1>3, <2>1, <2>2, PathAnswer DEF Answers
<1>4. CASE AccountOf(world) # "failing"
  <2> DEFINE n == ProvisionedName(world)
             r == [req EXCEPT !.pc = "space", !.name = n]
  <2>1. Handle(r)
    BY <1>4
  <2>2. n = NameAt(req, world)
    BY DEF ProvisionedName, NameAt, AccountOf
  <2> HIDE DEF n
  <2>3. /\ r.pc = "space" /\ r.kind = req.kind /\ r.user = req.user /\ r.ws = req.ws
        /\ r.viewer = req.viewer /\ r.name = n /\ r.fault = req.fault /\ r.found = req.found
        /\ r.answer = req.answer
    BY <1>2 DEF Request
  <2> HIDE DEF r
  <2>4. Stands(req, during) => LetThrough(r)
    BY <1>2, <2>2, <2>3, AtHand DEF LetThrough, PathPcs, NameAt
  <2>5. Quiet(req, during) => SpaceChecked(r, world) /\ r.user \notin world.banned
    BY <1>1, <1>2, <2>3, SameVerdict DEF SoFar
  <2>6. r.name = NameAt(r, world)
    BY <2>2, <2>3, SameVerdict
  <2>7. Quiet(req, during) => SoFar(r, world)
    BY <1>4, <2>3, <2>5, <2>6 DEF SoFar, PathPcs, Identified, AccountOf
  <2> QED
    BY <1>1, <1>2, <2>1, <2>3, <2>4, <2>7, PathStep DEF PathPcs
<1> QED
  BY <1>3, <1>4

LEMMA WorkspaceSpaceCarries ==
  ASSUME CInv, PInv', WorkspaceSpace
  PROVE  CInv'
<1> USE DEF WorkspaceSpace
<1>1. req.pc = "space" /\ req.pc \in PathPcs \ {"done"} /\ req.kind \in PathKinds
  BY DEF PathPcs, PathKinds, CInv, PInv, Earned
<1>2. /\ req \in Request /\ req.user \in Users /\ req.pc # "idle" /\ world \in World
      /\ req.answer # "listed" /\ req.found = {}
      /\ Quiet(req, during) => SoFar(req, world)
      /\ Stands(req, during) => LetThrough(req)
  BY <1>1, PathFacts
<1>3. CASE Exists(world, req.ws) /\ req.name # None
  <2> DEFINE p == world.place[req.ws]
             r == [req EXCEPT !.pc = "bindings", !.cluster = p, !.level = req.ws]
  <2>1. Handle(r)
    BY <1>3
  <2>2. /\ r.pc = "bindings" /\ r.kind = req.kind /\ r.user = req.user /\ r.ws = req.ws
        /\ r.viewer = req.viewer /\ r.name = req.name /\ r.fault = req.fault /\ r.found = req.found
        /\ r.answer = req.answer /\ r.cluster = p /\ r.level = req.ws /\ r.bound = req.bound
    BY <1>2 DEF Request
  <2>3. p = world.place[r.ws]
    BY <2>2
  <2> HIDE DEF r, p
  <2>4. Stands(req, during) => LetThrough(r)
    BY <1>1, <1>2, <2>2 DEF LetThrough, PathPcs
  <2>5. Quiet(req, during) => /\ Identified(r, world) /\ r.user \notin world.banned
                              /\ r.name = NameAt(r, world)
    BY <1>1, <1>2, <2>2, SameVerdict DEF SoFar
  <2>6. Quiet(req, during) => Located(r, world)
    BY <1>3, <2>2, <2>5 DEF Located
  <2>7. Read(r, world, r.bound, Rest(r))
    <3>1. req.bound = {}
      BY <1>1 DEF CInv, PInv, Earned
    <3> QED
      BY <2>2, <3>1 DEF Read, Rest, Bound
  <2>8. Quiet(req, during) => SoFar(r, world)
    BY <1>3, <2>2, <2>3, <2>5, <2>6, <2>7 DEF SoFar, PathPcs
  <2> QED
    BY <1>1, <1>2, <2>1, <2>2, <2>4, <2>8, PathStep DEF PathPcs
<1>4. CASE ~(Exists(world, req.ws) /\ req.name # None)
  <2>1. ~Stands(req, during)
    <3>1. req.user # None
      BY <1>2, ProxyAssumption
    <3> QED
      BY <1>1, <1>2, <1>4, <3>1, AtHand DEF LetThrough
  <2>2. Quiet(req, during) => VerdictOf(req, world) = IF req.kind = "get" THEN "notFound" ELSE "forbidden"
    <3> SUFFICES ASSUME Quiet(req, during)
                 PROVE  VerdictOf(req, world) = IF req.kind = "get" THEN "notFound" ELSE "forbidden"
      OBVIOUS
    <3>1. /\ Identified(req, world) /\ req.name = NameAt(req, world) /\ req.user \notin world.banned
      BY <1>1, <1>2 DEF SoFar
    <3>2. req.kind = "workspace" => /\ Exists(world, req.ws) 
                                    /\ req.viewer \/ world.account[req.user] = "active"
      BY <3>1 DEF Identified, SpaceChecked, UserChecked
    <3>3. req.user # None /\ Viewer # None
      BY <1>2, ProxyAssumption
    <3>4. req.kind = "get"
      BY <1>1, <1>4, <3>1, <3>2, <3>3 DEF NameAt, PathKinds
    <3>5. world.account[req.user] # "failing"
      BY <3>1 DEF Identified
    <3>6. CASE ~Exists(world, req.ws)
      BY <3>1, <3>4, <3>5, <3>6 DEF VerdictOf, BrokenOf
    <3>7. CASE req.name = None
      <4>1. world.account[req.user] # "active" /\ ~req.viewer
        BY <3>1, <3>3, <3>7 DEF NameAt
      <4>2. ~MayUse(req, world) /\ ~BrokenOf(req, world)
        BY <3>4, <3>5, <4>1 DEF MayUse, DirectOf, CommunityOf, BrokenOf
      <4> QED
        BY <3>1, <3>4, <4>2 DEF VerdictOf
    <3> QED
      BY <1>4, <3>6, <3>7
  <2>3. NotFound
    BY <1>4
  <2>4. ASSUME NEW a \in {"notFound", "forbidden"}, a = (IF req.kind = "get" THEN "notFound" ELSE "forbidden"),
               Answer(a)
        PROVE  CInv'
    BY <1>1, <1>2, <2>1, <2>2, <2>4, PathAnswer DEF Answers
  <2> QED
    BY <2>3, <2>4 DEF NotFound
<1> QED
  BY <1>3, <1>4

\* One more level is read.
LEMMA LevelReads ==
  ASSUME NEW r, NEW w, NEW names, NEW s \in Spaces, Read(r, w, names, Line[s]), Exists(w, s)
  PROVE  Read(r, w, names \cup DirectlyBound(w, s), Beyond(s))
<1>1. Line[s] = {s} \cup Beyond(s)
  BY LineStep
<1>2. \A n \in Names : n \in DirectlyBound(w, s) <=> <<s, n>> \in w.bindings
  BY DEF DirectlyBound
<1> QED
  BY <1>1, <1>2 DEF Read

LEMMA LevelBindingsCarries ==
  ASSUME CInv, PInv', LevelBindings
  PROVE  CInv'
<1> USE DEF LevelBindings
<1> DEFINE names == req.bound \cup DirectlyBound(world, req.level)
<1>1. req.pc = "bindings" /\ req.pc \in PathPcs \ {"done"} /\ req.kind \in PathKinds
  BY DEF PathPcs, PathKinds, CInv, PInv, Earned
<1>2. /\ req \in Request /\ req.user \in Users /\ req.pc # "idle" /\ world \in World
      /\ req.answer # "listed" /\ req.found = {}
      /\ Quiet(req, during) => SoFar(req, world)
      /\ Stands(req, during) => LetThrough(req)
  BY <1>1, PathFacts
<1>3. /\ Quiet(req, during) => /\ Located(req, world) /\ req.user \notin world.banned
                               /\ req.name = NameAt(req, world)
                               /\ req.cluster = world.place[req.ws]
                               /\ Exists(world, req.level)
                               /\ Read(req, world, req.bound, Line[req.level])
      /\ Stands(req, during) => req.name = req.user
  BY <1>1, <1>2 DEF SoFar, LetThrough, Rest
<1>4. Quiet(req, during) => /\ world.account[req.user] # "failing" /\ Exists(world, req.ws)
                            /\ world.account[req.user] = "active" \/ req.viewer
                            /\ req.kind = "workspace" => req.viewer \/ world.account[req.user] = "active"
  BY <1>3 DEF Located, Identified, SpaceChecked, UserChecked, NameAt
<1>5. /\ req.level \in Spaces /\ world \in during
      /\ Gathered(req, during, names, Beyond(req.level))
  <2>1. /\ world \in during /\ req.level \in Spaces /\ Line[req.level] \subseteq Line[req.ws]
        /\ Gathered(req, during, req.bound, Line[req.level])
    BY <1>1 DEF CInv, PInv, Earned, Listing, Rest
  <2> QED
    BY <1>2, <2>1, LevelGathers
<1>6. Quiet(req, during) => Read(req, world, names, Beyond(req.level))
  BY <1>3, <1>5, LevelReads
<1>7. names \subseteq Names
  BY <1>2 DEF DirectlyBound, Request
<1> HIDE DEF names
<1>8. ASSUME Parent[req.level] # None, Handle([req EXCEPT !.pc = "parent", !.bound = names])
      PROVE  CInv'
  <2> DEFINE r == [req EXCEPT !.pc = "parent", !.bound = names]
  <2>1. /\ r.pc = "parent" /\ r.kind = req.kind /\ r.user = req.user /\ r.ws = req.ws
        /\ r.viewer = req.viewer /\ r.name = req.name /\ r.fault = req.fault /\ r.found = req.found
        /\ r.answer = req.answer /\ r.cluster = req.cluster /\ r.bound = names /\ r.level = req.level
    BY <1>2 DEF Request
  <2>2. Handle(r)
    BY <1>8
  <2> HIDE DEF r
  <2>3. Stands(req, during) => LetThrough(r)
    BY <1>3, <2>1 DEF LetThrough, PathPcs
  <2>4. Quiet(req, during) => Located(r, world) /\ r.name = NameAt(r, world)
    BY <1>3, <2>1, SameVerdict
  <2>5. Quiet(req, during) => Read(r, world, r.bound, Rest(r))
    BY <1>6, <2>1 DEF Read, Rest
  <2>6. Quiet(req, during) => SoFar(r, world)
    BY <1>3, <2>1, <2>4, <2>5 DEF SoFar, PathPcs
  <2> QED
    BY <1>1, <1>2, <2>1, <2>2, <2>3, <2>6, PathStep DEF PathPcs
<1>9. ASSUME Parent[req.level] = None, MayAccess(names) \/ NotFound,
             ~MayAccess(names) \/ Handle([req EXCEPT !.pc = "requests", !.bound = names])
      PROVE  CInv'
  <2>1. Gathered(req, during, names, {})
    BY <1>5, <1>9 DEF Beyond
  <2>2. Stands(req, during) => req.user \in names
    BY <2>1 DEF Gathered, Stands, UserUnbound
  <2>3. Quiet(req, during) => names = Bound(world, req.ws) /\ \A a \in Line[req.ws] : Exists(world, a)
    <3>1. Bound(world, req.ws) \subseteq Names
      BY DEF Bound
    <3> QED
      BY <1>6, <1>7, <1>9, <3>1 DEF Read, Beyond
  <2>4. Quiet(req, during) => (MayAccess(names) <=> MayUse(req, world))
    <3>1. req.user # Viewer
      BY <1>2, ProxyAssumption
    <3> QED
      BY <1>3, <1>4, <2>3, <3>1 DEF MayAccess, MayUse, DirectOf, CommunityOf, NameAt
  <2>5. CASE ~MayAccess(names)
    <3>1. ~Stands(req, during)
      BY <1>3, <2>2, <2>5 DEF MayAccess
    <3>2. ASSUME Quiet(req, during)
          PROVE  VerdictOf(req, world) = IF req.kind = "get" THEN "notFound" ELSE "forbidden"
      <4>1. ~MayUse(req, world) /\ ~BrokenOf(req, world)
        BY <1>4, <2>3, <2>4, <2>5, <3>2 DEF BrokenOf
      <4> QED
        BY <1>3, <3>2, <4>1 DEF VerdictOf
    <3>3. ASSUME NEW a \in {"notFound", "forbidden"},
                 a = (IF req.kind = "get" THEN "notFound" ELSE "forbidden"), Answer(a)
          PROVE  CInv'
      BY <1>1, <1>2, <3>1, <3>2, <3>3, PathAnswer DEF Answers
    <3> QED
      BY <1>9, <2>5, <3>3 DEF NotFound
  <2>6. CASE MayAccess(names)
    <3> DEFINE r == [req EXCEPT !.pc = "requests", !.bound = names]
    <3>1. /\ r.pc = "requests" /\ r.kind = req.kind /\ r.user = req.user /\ r.ws = req.ws
          /\ r.viewer = req.viewer /\ r.name = req.name /\ r.fault = req.fault /\ r.found = req.found
          /\ r.answer = req.answer /\ r.cluster = req.cluster /\ r.bound = names
      BY <1>2 DEF Request
    <3>2. Handle(r)
      BY <1>9, <2>6
    <3> HIDE DEF r
    <3>3. Stands(req, during) => LetThrough(r)
      BY <2>2, <3>1 DEF LetThrough, PathPcs
    <3>4. Quiet(req, during) => Admitted(req, world)
      BY <1>3, <2>3, <2>4, <2>6 DEF Admitted
    <3>5. Quiet(req, during) => Admitted(r, world)
      BY <3>1, <3>4, SameVerdict
    <3>6. Quiet(req, during) => SoFar(r, world)
      BY <1>3, <2>3, <3>1, <3>5 DEF SoFar, PathPcs
    <3> QED
      BY <1>1, <1>2, <3>1, <3>2, <3>3, <3>6, PathStep DEF PathPcs
  <2> QED
    BY <2>5, <2>6
<1>10. ASSUME Fault PROVE CInv'
  BY <1>1, <1>2, <1>10, PathFault
<1> QED
  BY <1>8, <1>9, <1>10 DEF names

LEMMA ParentSpaceCarries ==
  ASSUME CInv, PInv', ParentSpace
  PROVE  CInv'
<1> USE DEF ParentSpace
<1> DEFINE p == Parent[req.level]
<1>1. req.pc = "parent" /\ req.pc \in PathPcs \ {"done"} /\ req.kind \in PathKinds
  BY DEF PathPcs, PathKinds, CInv, PInv, Earned
<1>2. /\ req \in Request /\ req.user \in Users /\ req.pc # "idle" /\ world \in World
      /\ req.answer # "listed" /\ req.found = {}
      /\ Quiet(req, during) => SoFar(req, world)
      /\ Stands(req, during) => LetThrough(req)
  BY <1>1, PathFacts
<1>3. /\ Quiet(req, during) => /\ Located(req, world) /\ req.user \notin world.banned
                               /\ req.name = NameAt(req, world)
                               /\ req.cluster = world.place[req.ws]
                               /\ Read(req, world, req.bound, Beyond(req.level))
      /\ Stands(req, during) => req.name = req.user
  BY <1>1, <1>2 DEF SoFar, LetThrough, Rest
<1>4. /\ req.level \in Spaces /\ Line[req.level] \subseteq Line[req.ws] /\ p # None
  BY <1>1 DEF CInv, PInv, Earned, Listing
<1>5. /\ p \in Spaces /\ Beyond(req.level) = Line[p] /\ p \in Line[req.ws]
  <2>1. p \in Spaces /\ Beyond(req.level) = Line[p]
    BY <1>4, ProxyAssumption DEF Beyond
  <2>2. p \in Line[p] /\ Line[req.level] = {req.level} \cup Beyond(req.level)
    BY <1>4, <2>1, LineStep
  <2> QED
    BY <1>4, <2>1, <2>2
<1> HIDE DEF p
<1>6. ASSUME Exists(world, p), Handle([req EXCEPT !.pc = "bindings", !.level = p]) PROVE CInv'
  <2> DEFINE r == [req EXCEPT !.pc = "bindings", !.level = p]
  <2>1. /\ r.pc = "bindings" /\ r.kind = req.kind /\ r.user = req.user /\ r.ws = req.ws
        /\ r.viewer = req.viewer /\ r.name = req.name /\ r.fault = req.fault /\ r.found = req.found
        /\ r.answer = req.answer /\ r.cluster = req.cluster /\ r.bound = req.bound /\ r.level = p
    BY <1>2 DEF Request
  <2>2. Handle(r)
    BY <1>6
  <2> HIDE DEF r
  <2>3. Stands(req, during) => LetThrough(r)
    BY <1>3, <2>1 DEF LetThrough, PathPcs
  <2>4. Quiet(req, during) => Located(r, world) /\ r.name = NameAt(r, world)
    BY <1>3, <2>1, SameVerdict
  <2>5. Quiet(req, during) => Read(r, world, r.bound, Rest(r))
    BY <1>3, <1>5, <2>1 DEF Read, Rest
  <2>6. Quiet(req, during) => SoFar(r, world)
    BY <1>3, <1>6, <2>1, <2>4, <2>5 DEF SoFar, PathPcs
  <2> QED
    BY <1>1, <1>2, <2>1, <2>2, <2>3, <2>6, PathStep DEF PathPcs
<1>7. ASSUME ~Exists(world, p), Answer("internal") PROVE CInv'
  <2>1. ~Stands(req, during)
    BY <1>2, <1>5, <1>7, AtHand
  <2>2. ASSUME Quiet(req, during) PROVE VerdictOf(req, world) = "internal"
    <3>1. Exists(world, req.ws) /\ (world.account[req.user] = "active" \/ req.viewer)
      BY <1>3, <2>2 DEF Located, NameAt
    <3>2. BrokenOf(req, world)
      BY <1>5, <1>7, <3>1 DEF BrokenOf
    <3> QED
      BY <1>3, <2>2, <3>2 DEF VerdictOf
  <2> QED
    BY <1>1, <1>2, <1>7, <2>1, <2>2, PathAnswer DEF Answers
<1>8. ASSUME Fault PROVE CInv'
  BY <1>1, <1>2, <1>8, PathFault
<1> QED
  BY <1>6, <1>7, <1>8 DEF p

LEMMA WorkspaceRequestsCarries ==
  ASSUME CInv, PInv', WorkspaceRequests
  PROVE  CInv'
<1> USE DEF WorkspaceRequests
<1> DEFINE b == req.bound \cup Requested(world)
           pc == IF req.kind = "get" THEN "done" ELSE "access"
           an == IF req.kind = "get" THEN "found" ELSE None
           r == [req EXCEPT !.bound = b, !.pc = pc, !.answer = an]
<1>1. req.pc = "requests" /\ req.pc \in PathPcs \ {"done"} /\ req.kind \in PathKinds
  BY DEF PathPcs, PathKinds, CInv, PInv, Earned
<1>2. /\ req \in Request /\ req.user \in Users /\ req.pc # "idle" /\ world \in World
      /\ req.answer # "listed" /\ req.found = {}
      /\ Quiet(req, during) => SoFar(req, world)
      /\ Stands(req, during) => LetThrough(req)
  BY <1>1, PathFacts
<1>3. /\ Quiet(req, during) => /\ Admitted(req, world) /\ req.user \notin world.banned
                               /\ req.cluster = world.place[req.ws]
                               /\ req.bound = Bound(world, req.ws)
      /\ Stands(req, during) => req.user \in req.bound
  BY <1>1, <1>2 DEF SoFar, LetThrough
<1>4. Quiet(req, during) => /\ ~BrokenOf(req, world) /\ Exists(world, req.ws) /\ MayUse(req, world)
  BY <1>3 DEF Admitted, Located, Identified, SpaceChecked, UserChecked, BrokenOf
<1>5. ASSUME world.members = {}, Answer("internal") PROVE CInv'
  <2>1. ~Stands(req, during)
    BY <1>2, <1>5, AtHand
  <2>2. Quiet(req, during) => VerdictOf(req, world) = "internal"
    BY <1>3, <1>4, <1>5 DEF VerdictOf
  <2> QED
    BY <1>1, <1>2, <1>5, <2>1, <2>2, PathAnswer DEF Answers
<1>6. ASSUME world.members # {}, Handle(r) PROVE CInv'
  <2>1. Quiet(req, during) => (req.user \in b <=> req.user \in Bound(world, req.ws) \/ AskedFor(req, world))
    BY <1>2, <1>3 DEF Requested, AskedFor
  <2>2. Stands(req, during) => req.user \in b /\ req.kind = "workspace"
    BY <1>3 DEF Stands
  <2>3. an # "listed" /\ an # "forwarded"
    BY NoneAssumption DEF Answers
  <2>4. pc \in {"done", "access"} /\ (pc = "done" <=> req.kind = "get") /\ (pc = "done" => an = "found")
    OBVIOUS
  <2> HIDE DEF b, pc, an
  <2>5. /\ r.pc = pc /\ r.kind = req.kind /\ r.user = req.user /\ r.ws = req.ws
        /\ r.viewer = req.viewer /\ r.fault = req.fault /\ r.found = req.found
        /\ r.answer = an /\ r.bound = b
    BY <1>2 DEF Request
  <2>6. Handle(r)
    BY <1>6
  <2> HIDE DEF r
  <2>7. Stands(req, during) => LetThrough(r)
    BY <2>2, <2>4, <2>5 DEF LetThrough, PathPcs
  <2>8. Quiet(req, during) => Admitted(r, world) /\ (AskedFor(r, world) <=> AskedFor(req, world))
    BY <1>3, <2>5, SameVerdict
  <2>9. Quiet(req, during) /\ req.kind = "get" => VerdictOf(r, world) = "found"
    <3>1. Quiet(req, during) /\ req.kind = "get" => VerdictOf(req, world) = "found"
      BY <1>3, <1>4, <1>6 DEF VerdictOf
    <3> QED
      BY <2>5, <3>1, SameVerdict
  <2>10. Quiet(req, during) => SoFar(r, world)
    BY <1>3, <1>6, <2>1, <2>3, <2>4, <2>5, <2>8, <2>9 DEF SoFar, PathPcs
  <2>11. r.pc \in PathPcs /\ (r.found = {} \/ r.pc = "done") /\ r.answer # "listed"
    BY <1>2, <2>3, <2>4, <2>5 DEF PathPcs
  <2> QED
    BY <1>1, <1>2, <2>5, <2>6, <2>7, <2>10, <2>11, PathStep
<1>7. ASSUME Fault PROVE CInv'
  BY <1>1, <1>2, <1>7, PathFault
<1> QED
  BY <1>5, <1>6, <1>7

LEMMA ClusterAccessCarries ==
  ASSUME CInv, PInv', ClusterAccess
  PROVE  CInv'
<1> USE DEF ClusterAccess
<1> DEFINE n == IF AsViewer(world) THEN Viewer ELSE req.user
           pc == IF AsViewer(world) THEN "target" ELSE "name"
           r == [req EXCEPT !.pc = pc, !.name = n]
<1>1. req.pc = "access" /\ req.pc \in PathPcs \ {"done"} /\ req.kind = "workspace" /\ req.kind \in PathKinds
  BY DEF PathPcs, PathKinds, CInv, PInv, Earned
<1>2. /\ req \in Request /\ req.user \in Users /\ req.pc # "idle" /\ world \in World
      /\ req.answer # "listed" /\ req.found = {}
      /\ Quiet(req, during) => SoFar(req, world)
      /\ Stands(req, during) => LetThrough(req)
  BY <1>1, PathFacts
<1>3. /\ Quiet(req, during) => /\ Admitted(req, world) /\ req.user \notin world.banned
                               /\ world.members # {}
                               /\ req.user \in req.bound <=> req.user \in Bound(world, req.ws) \/ AskedFor(req, world)
      /\ Stands(req, during) => req.user \in req.bound
  BY <1>1, <1>2 DEF SoFar, LetThrough
<1>4. ASSUME AccountOf(world) = "failing", Answer("internal") PROVE CInv'
  <2>1. ~Stands(req, during)
    BY <1>2, <1>4, AtHand DEF AccountOf
  <2>2. ~Quiet(req, during)
    BY <1>3, <1>4 DEF Admitted, Located, Identified, AccountOf
  <2> QED
    BY <1>1, <1>2, <1>4, <2>1, <2>2, PathAnswer DEF Answers
<1>5. ASSUME AccountOf(world) # "failing", Handle(r) PROVE CInv'
  <2>1. Quiet(req, during) => (AsViewer(world) <=> ~OwnName(req, world))
    <3>1. Quiet(req, during) => req.viewer \/ DirectOf(req, world)
      BY <1>3 DEF Admitted, MayUse, CommunityOf
    <3> QED
      BY <1>3, <3>1 DEF AsViewer, OwnName, AccountOf, DirectOf
  <2>2. Stands(req, during) => ~AsViewer(world)
    BY <1>2, <1>3, AtHand DEF AsViewer, AccountOf
  <2>3. /\ pc = "name" <=> ~AsViewer(world)
        /\ pc \in {"name", "target"}
        /\ n = IF AsViewer(world) THEN Viewer ELSE req.user
    OBVIOUS
  <2> HIDE DEF n, pc
  <2>4. /\ r.pc = pc /\ r.kind = req.kind /\ r.user = req.user /\ r.ws = req.ws
        /\ r.viewer = req.viewer /\ r.fault = req.fault /\ r.found = req.found
        /\ r.answer = req.answer /\ r.name = n
    BY <1>2 DEF Request
  <2>5. Handle(r)
    BY <1>5
  <2> HIDE DEF r
  <2>6. Stands(req, during) => LetThrough(r)
    BY <2>2, <2>3, <2>4 DEF LetThrough, PathPcs
  <2>7. Quiet(req, during) => Admitted(r, world) /\ (OwnName(r, world) <=> OwnName(req, world))
    BY <1>3, <2>4, SameVerdict
  <2>8. Quiet(req, during) => SoFar(r, world)
    BY <1>3, <2>1, <2>3, <2>4, <2>7 DEF SoFar, PathPcs
  <2>9. r.pc \in PathPcs
    BY <2>3, <2>4 DEF PathPcs
  <2> QED
    BY <1>1, <1>2, <2>4, <2>5, <2>6, <2>8, <2>9, PathStep
<1> QED
  BY <1>4, <1>5

LEMMA CompliantNameCarries ==
  ASSUME CInv, PInv', CompliantName
  PROVE  CInv'
<1> USE DEF CompliantName
<1>1. req.pc = "name" /\ req.pc \in PathPcs \ {"done"} /\ req.kind = "workspace" /\ req.kind \in PathKinds
  BY DEF PathPcs, PathKinds, CInv, PInv, Earned
<1>2. /\ req \in Request /\ req.user \in Users /\ req.pc # "idle" /\ world \in World
      /\ Quiet(req, during) => SoFar(req, world)
      /\ Stands(req, during) => LetThrough(req)
  BY <1>1, PathFacts
<1>3. CASE AccountOf(world) = "active"
  <2> DEFINE r == [req EXCEPT !.pc = "target"]
  <2>1. /\ r.pc = "target" /\ r.kind = req.kind /\ r.user = req.user /\ r.ws = req.ws
        /\ r.viewer = req.viewer /\ r.name = req.name
    BY <1>2 DEF Request
  <2> HIDE DEF r
  <2>2. Stands(req, during) => LetThrough(r)
    BY <1>1, <1>2, <2>1 DEF LetThrough, PathPcs
  <2>3. Quiet(req, during) => /\ Admitted(r, world) /\ r.user \notin world.banned
                              /\ world.members # {}
                              /\ r.name = IF OwnName(r, world) THEN r.user ELSE Viewer
    BY <1>1, <1>2, <2>1, SameVerdict DEF SoFar
  <2>4. Quiet(req, during) => SoFar(r, world)
    BY <2>1, <2>3 DEF SoFar, PathPcs
  <2> QED
    BY <1>1, <1>3, <2>2, <2>4, PathGoto DEF r, PathPcs
<1>4. CASE AccountOf(world) # "active"
  <2>1. ~Stands(req, during)
    BY <1>2, <1>4, AtHand DEF AccountOf
  <2>2. ~Quiet(req, during)
    BY <1>1, <1>2, <1>4 DEF SoFar, OwnName, AccountOf
  <2> QED
    BY <1>1, <1>2, <1>4, <2>1, <2>2, PathAnswer DEF Answers
<1> QED
  BY <1>3, <1>4

LEMMA SpaceTargetCarries ==
  ASSUME CInv, PInv', SpaceTarget
  PROVE  CInv'
<1> USE DEF SpaceTarget
<1>1. req.pc = "target" /\ req.pc \in PathPcs \ {"done"} /\ req.kind = "workspace" /\ req.kind \in PathKinds
  BY DEF PathPcs, PathKinds, CInv, PInv, Earned
<1>2. /\ req \in Request /\ req.user \in Users /\ req.pc # "idle" /\ world \in World
      /\ req.answer # "listed" /\ req.found = {}
      /\ Quiet(req, during) => SoFar(req, world)
      /\ Stands(req, during) => LetThrough(req)
  BY <1>1, PathFacts
<1>3. CASE Exists(world, req.ws)
  <2> DEFINE p == world.place[req.ws]
             r == [req EXCEPT !.pc = "member", !.cluster = p]
  <2>1. Handle(r)
    BY <1>3
  <2>2. /\ r.pc = "member" /\ r.kind = req.kind /\ r.user = req.user /\ r.ws = req.ws
        /\ r.viewer = req.viewer /\ r.name = req.name /\ r.fault = req.fault /\ r.found = req.found
        /\ r.answer = req.answer /\ r.cluster = p
    BY <1>2 DEF Request
  <2>3. p = world.place[r.ws]
    BY <2>2
  <2> HIDE DEF r, p
  <2>4. Stands(req, during) => LetThrough(r)
    BY <1>1, <1>2, <2>2 DEF LetThrough, PathPcs
  <2>5. Quiet(req, during) => /\ Admitted(r, world) /\ r.user \notin world.banned
                              /\ world.members # {}
                              /\ r.name = IF OwnName(r, world) THEN r.user ELSE Viewer
    BY <1>1, <1>2, <2>2, SameVerdict DEF SoFar
  <2>6. Quiet(req, during) => SoFar(r, world)
    BY <2>2, <2>3, <2>5 DEF SoFar, PathPcs
  <2> QED
    BY <1>1, <1>2, <2>1, <2>2, <2>4, <2>6, PathStep DEF PathPcs
<1>4. CASE ~Exists(world, req.ws)
  <2>1. ~Stands(req, during)
    BY <1>2, <1>4, AtHand
  <2>2. ~Quiet(req, during)
    BY <1>1, <1>2, <1>4 DEF SoFar, Admitted, Located
  <2> QED
    BY <1>1, <1>2, <1>4, <2>1, <2>2, PathAnswer DEF Answers
<1> QED
  BY <1>3, <1>4

LEMMA FindMemberCarries ==
  ASSUME CInv, PInv', FindMember, req.kind \in PathKinds
  PROVE  CInv'
<1> USE DEF FindMember
<1>1. req.pc = "member" /\ req.pc \in PathPcs \ {"done"} /\ req.kind = "workspace"
  BY DEF PathPcs, PathKinds, CInv, PInv, Earned
<1>2. /\ req \in Request /\ req.user \in Users /\ req.pc # "idle" /\ world \in World
      /\ req.answer # "listed" /\ req.found = {}
      /\ Quiet(req, during) => SoFar(req, world)
      /\ Stands(req, during) => LetThrough(req)
  BY <1>1, PathFacts
<1>3. Quiet(req, during) => /\ Admitted(req, world) /\ req.user \notin world.banned
                            /\ world.members # {} /\ req.cluster = world.place[req.ws]
                            /\ req.name = IF OwnName(req, world) THEN req.user ELSE Viewer
  BY <1>1, <1>2 DEF SoFar
<1>4. Quiet(req, during) => /\ ~BrokenOf(req, world) /\ Exists(world, req.ws) /\ MayUse(req, world)
  BY <1>3 DEF Admitted, Located, Identified, SpaceChecked, UserChecked, BrokenOf
<1>5. ASSUME ~MemberFound(world), Answer("internal") PROVE CInv'
  <2>1. ~Stands(req, during)
    <3>1. PICK w \in during : w.place[req.ws] = req.cluster
      BY <1>1 DEF CInv, PInv, Earned, Placed
    <3>2. ASSUME Stands(req, during) PROVE req.cluster \in world.members
      BY <1>2, <3>1, <3>2, AtHand DEF Stands
    <3> QED
      BY <1>5, <3>2 DEF MemberFound
  <2>2. Quiet(req, during) => VerdictOf(req, world) = "internal"
    BY <1>1, <1>3, <1>4, <1>5 DEF VerdictOf, MemberFound
  <2> QED
    BY <1>1, <1>2, <1>5, <2>1, <2>2, PathAnswer DEF Answers
<1>6. ASSUME MemberFound(world), Answer("forwarded") PROVE CInv'
  <2> DEFINE r == [req EXCEPT !.pc = "done", !.answer = "forwarded"]
  <2>1. Handle(r)
    BY <1>6 DEF Answer
  <2>2. /\ r.pc = "done" /\ r.kind = req.kind /\ r.user = req.user /\ r.ws = req.ws
        /\ r.viewer = req.viewer /\ r.name = req.name /\ r.fault = req.fault /\ r.found = req.found
        /\ r.answer = "forwarded"
    BY <1>2 DEF Request
  <2> HIDE DEF r
  <2>3. Stands(req, during) => LetThrough(r)
    BY <1>1, <1>2, <2>2 DEF LetThrough, PathPcs
  <2>4. Quiet(req, during) => VerdictOf(req, world) = "forwarded"
    BY <1>1, <1>3, <1>4, <1>6 DEF VerdictOf, MemberFound
  <2>5. Quiet(req, during) => SoFar(r, world)
    BY <1>3, <2>2, <2>4, SameVerdict DEF SoFar, PathPcs
  <2> QED
    BY <1>1, <1>2, <2>1, <2>2, <2>3, <2>5, PathStep DEF PathPcs
<1>7. ASSUME Fault PROVE CInv'
  BY <1>1, <1>2, <1>7, PathFault
<1> QED
  BY <1>1, <1>5, <1>6, <1>7

LEMMA OtherRefusal ==
  ASSUME CInv, PInv', req.pc # "idle", req.kind \notin PathKinds,
         NEW a \in Answers \ {"listed"}, Answer(a)
  PROVE  CInv'
<1>1. Handle([req EXCEPT !.pc = "done", !.answer = a, !.fault = req.fault]) /\ req.fault \in BOOLEAN
  BY DEF Answer, Handle, CInv, PInv, TypeOK, Request
<1> QED
  BY <1>1, OtherAnswer

LEMMA OtherFault ==
  ASSUME CInv, PInv', req.pc # "idle", req.kind \notin PathKinds, Fault
  PROVE  CInv'
<1>1. Handle([req EXCEPT !.pc = "done", !.answer = "internal", !.fault = TRUE]) /\ "internal" \in Answers
  BY DEF Fault, Answers
<1> QED
  BY <1>1, OtherAnswer

\* A step before the list is begun.
LEMMA OtherMove ==
  ASSUME CInv, PInv', req.pc \notin {"idle", "listSpaces", "done"}, req.kind \notin PathKinds,
         NEW r, Handle(r), r.pc \notin {"listSpaces", "done"},
         r.kind = req.kind, r.viewer = req.viewer, r.answer = req.answer, r.found = req.found
  PROVE  CInv'
<1>1. ListSoFar(req, during)
  BY DEF CInv
<1>2. ListSoFar(r, during)
  BY <1>1 DEF ListSoFar
<1> QED
  BY <1>2, OtherStep

LEMMA HomeSignupCarries ==
  ASSUME CInv, PInv', HomeSignup
  PROVE  CInv'
<1> USE DEF HomeSignup
<1>1. /\ req.pc = "homeSignup" /\ req.kind = "home" /\ req.kind \notin PathKinds /\ req \in Request
  BY DEF CInv, PInv, TypeOK, Earned, PathKinds
<1>2. CASE AccountOf(world) # "active"
  BY <1>1, <1>2, OtherRefusal DEF Answers
<1>3. CASE AccountOf(world) = "active"
  <2> DEFINE h == world.home[req.user]
             pc == IF h = None THEN "pick" ELSE "homeTarget"
             r == [req EXCEPT !.pc = pc, !.ws = h]
  <2>1. Handle(r)
    BY <1>3
  <2>2. pc \notin {"listSpaces", "done"}
    OBVIOUS
  <2> HIDE DEF h, pc
  <2>3. r.pc = pc /\ r.kind = req.kind /\ r.viewer = req.viewer /\ r.answer = req.answer /\ r.found = req.found
    BY <1>1 DEF Request
  <2> HIDE DEF r
  <2> QED
    BY <1>1, <2>1, <2>2, <2>3, OtherMove
<1> QED
  BY <1>2, <1>3

LEMMA PickSpaceCarries ==
  ASSUME CInv, PInv', PickSpace
  PROVE  CInv'
<1> USE DEF PickSpace
<1>1. /\ req.pc = "pick" /\ req.kind = "home" /\ req.kind \notin PathKinds /\ req \in Request
  BY DEF CInv, PInv, TypeOK, Earned, PathKinds
<1>2. ASSUME Answer("internal") PROVE CInv'
  BY <1>1, <1>2, OtherRefusal DEF Answers
<1>3. ASSUME Fault PROVE CInv'
  BY <1>1, <1>3, OtherFault
<1>4. ASSUME Handle([req EXCEPT !.pc = "homeTarget", !.ws = First(DirectSpaces(world, {req.user}))])
      PROVE  CInv'
  <2> DEFINE s == First(DirectSpaces(world, {req.user}))
             r == [req EXCEPT !.pc = "homeTarget", !.ws = s]
  <2>1. Handle(r)
    BY <1>4
  <2> HIDE DEF s
  <2>2. /\ r.pc = "homeTarget" /\ r.kind = req.kind /\ r.viewer = req.viewer
        /\ r.answer = req.answer /\ r.found = req.found
    BY <1>1 DEF Request
  <2> HIDE DEF r
  <2> QED
    BY <1>1, <2>1, <2>2, OtherMove
<1> QED
  BY <1>2, <1>3, <1>4

LEMMA HomeTargetCarries ==
  ASSUME CInv, PInv', HomeTarget
  PROVE  CInv'
<1> USE DEF HomeTarget
<1>1. /\ req.pc = "homeTarget" /\ req.kind = "home" /\ req.kind \notin PathKinds /\ req \in Request
  BY DEF CInv, PInv, TypeOK, Earned, PathKinds
<1>2. ASSUME Fault PROVE CInv'
  BY <1>1, <1>2, OtherFault
<1>3. ASSUME Handle([req EXCEPT !.pc = "member", !.cluster = world.place[req.ws]]) PROVE CInv'
  <2> DEFINE p == world.place[req.ws]
             r == [req EXCEPT !.pc = "member", !.cluster = p]
  <2>1. Handle(r)
    BY <1>3
  <2> HIDE DEF p
  <2>2. r.pc = "member" /\ r.kind = req.kind /\ r.viewer = req.viewer /\ r.answer = req.answer /\ r.found = req.found
    BY <1>1 DEF Request
  <2> HIDE DEF r
  <2> QED
    BY <1>1, <2>1, <2>2, OtherMove
<1> QED
  BY <1>2, <1>3

\* A Goto before the list is begun.
LEMMA OtherGoto ==
  ASSUME CInv, PInv', req.pc \notin {"idle", "listSpaces", "done"}, req.kind \notin PathKinds,
         NEW pc, pc \notin {"listSpaces", "done"}, Goto(pc)
  PROVE  CInv'
<1> DEFINE r == [req EXCEPT !.pc = pc]
<1>1. Handle(r) /\ req \in Request
  BY DEF Goto, CInv, PInv, TypeOK
<1>2. r.pc = pc /\ r.kind = req.kind /\ r.viewer = req.viewer /\ r.answer = req.answer /\ r.found = req.found
  BY <1>1 DEF Request
<1> HIDE DEF r
<1> QED
  BY <1>1, <1>2, OtherMove

LEMMA BanElseCarries ==
  ASSUME CInv, PInv', EnsureUserIsNotBanned, req.kind \notin PathKinds
  PROVE  CInv'
<1> USE DEF EnsureUserIsNotBanned
<1>1. ASSUME NEW a \in {"banned", "badRequest"}, Answer(a) PROVE CInv'
  BY <1>1, OtherRefusal DEF Answers
<1>2. ASSUME NEW pc \in {"homeSignup", "listSignup"}, Goto(pc) PROVE CInv'
  BY <1>2, OtherGoto
<1>3. ASSUME Fault PROVE CInv'
  BY <1>3, OtherFault
<1> QED
  BY <1>1, <1>2, <1>3 DEF PathKinds

LEMMA FindMemberElseCarries ==
  ASSUME CInv, PInv', FindMember, req.kind \notin PathKinds
  PROVE  CInv'
<1> USE DEF FindMember
<1>1. ASSUME Answer("internal") PROVE CInv'
  BY <1>1, OtherRefusal DEF Answers
<1>2. ASSUME Goto("listSignup") PROVE CInv'
  BY <1>2, OtherGoto
<1>3. ASSUME Fault PROVE CInv'
  BY <1>3, OtherFault
<1> QED
  BY <1>1, <1>2, <1>3 DEF PathKinds

LEMMA ListSignupCarries ==
  ASSUME CInv, PInv', ListSignup
  PROVE  CInv'
<1> USE DEF ListSignup
<1>1. /\ req.pc = "listSignup" /\ req.kind \in {"home", "list"} /\ req.kind \notin PathKinds
      /\ req \in Request /\ world \in during /\ ListSoFar(req, during)
  BY DEF CInv, PInv, TypeOK, Earned, PathKinds, ListPcs
<1>2. ASSUME NEW a \in {"internal", "forbidden"}, Answer(a) PROVE CInv'
  BY <1>1, <1>2, OtherRefusal DEF Answers
<1>3. ASSUME Goto("listBindings") PROVE CInv'
  BY <1>1, <1>3, OtherGoto
<1>4. ASSUME AccountOf(world) = "absent", req.kind # "home", Answer("listed") PROVE CInv'
  <2> DEFINE r == [req EXCEPT !.pc = "done", !.answer = "listed"]
  <2>1. Handle(r)
    BY <1>4 DEF Answer
  <2>2. /\ r.pc = "done" /\ r.kind = req.kind /\ r.viewer = req.viewer /\ r.user = req.user
        /\ r.answer = "listed" /\ r.found = req.found
    BY <1>1 DEF Request
  <2> HIDE DEF r
  <2>3. r.found = {}
    BY <1>1, <2>2 DEF ListSoFar
  <2>4. \A s \in Spaces : ~StandsIn(r, s, during)
    BY <1>1, <1>4, <2>2 DEF StandsIn, AccountOf
  <2>5. ListSoFar(r, during)
    BY <1>1, <1>4, <2>2, <2>3, <2>4 DEF ListSoFar
  <2> QED
    BY <1>1, <2>1, <2>2, <2>5, OtherStep
<1> QED
  BY <1>1, <1>2, <1>3, <1>4

LEMMA ListBindingsCarries ==
  ASSUME CInv, PInv', ListBindings
  PROVE  CInv'
<1> USE DEF ListBindings
<1>1. /\ req.pc = "listBindings" /\ req.kind \in {"home", "list"} /\ req.kind \notin PathKinds
      /\ req \in Request /\ world \in during /\ ListSoFar(req, during)
  BY DEF CInv, PInv, TypeOK, Earned, PathKinds, ListPcs
<1>2. ASSUME Fault PROVE CInv'
  BY <1>1, <1>2, OtherFault
<1>3. ASSUME Handle([req EXCEPT !.pc = "listSpaces", !.todo = DirectSpaces(world, ListedNames), !.found = {}])
      PROVE  CInv'
  <2> DEFINE S == DirectSpaces(world, ListedNames)
             r == [req EXCEPT !.pc = "listSpaces", !.todo = S, !.found = {}]
  <2>1. Handle(r)
    BY <1>3
  <2>2. \A s \in Spaces : <<s, req.user>> \in world.bindings => s \in S
    BY DEF DirectSpaces, ListedNames
  <2> HIDE DEF S
  <2>3. /\ r.pc = "listSpaces" /\ r.kind = req.kind /\ r.viewer = req.viewer /\ r.user = req.user
        /\ r.answer = req.answer /\ r.todo = S
    BY <1>1 DEF Request
  <2> HIDE DEF r
  <2>4. \A s \in Spaces : StandsIn(r, s, during) => s \in S
    BY <1>1, <2>2, <2>3 DEF StandsIn
  <2>5. req.answer # "listed"
    BY <1>1 DEF ListSoFar
  <2>6. ListSoFar(r, during)
    BY <1>1, <2>3, <2>4, <2>5 DEF ListSoFar
  <2> QED
    BY <1>1, <2>1, <2>3, <2>6, OtherStep
<1> QED
  BY <1>2, <1>3

LEMMA ListSpaceCarries ==
  ASSUME CInv, PInv', NEW s \in Spaces, ListSpace(s)
  PROVE  CInv'
<1> USE DEF ListSpace
<1> DEFINE r == Listed(world, s)
<1>1. /\ req.pc = "listSpaces" /\ req.kind \in {"home", "list"} /\ req.kind \notin PathKinds
      /\ req \in Request /\ world \in during /\ ListSoFar(req, during) /\ Handle(r)
  BY DEF CInv, PInv, TypeOK, Earned, PathKinds, ListPcs
<1>2. /\ r.pc = "listSpaces" /\ r.kind = req.kind /\ r.viewer = req.viewer /\ r.user = req.user
      /\ r.answer = req.answer /\ r.todo = req.todo \ {s}
      /\ r.found = IF Exists(world, s) THEN req.found \cup {s} ELSE req.found
  BY <1>1 DEF Listed, Request
<1> HIDE DEF r
<1>3. \A t \in Spaces : StandsIn(r, t, during) => StandsIn(req, t, during) /\ Exists(world, t)
  BY <1>1, <1>2 DEF StandsIn
<1>4. \A t \in Spaces : StandsIn(r, t, during) => t \in r.todo \cup r.found
  BY <1>1, <1>2, <1>3 DEF ListSoFar
<1>5. ListSoFar(r, during)
  BY <1>1, <1>2, <1>4 DEF ListSoFar
<1> QED
  BY <1>1, <1>2, <1>5, OtherStep

LEMMA ListDoneCarries ==
  ASSUME CInv, PInv', ListDone
  PROVE  CInv'
<1> USE DEF ListDone
<1>1. /\ req.pc = "listSpaces" /\ req.kind \in {"home", "list"} /\ req.kind \notin PathKinds
      /\ req \in Request /\ req.todo = {} /\ ListSoFar(req, during)
      /\ \A s \in req.found : WasListed(req, s, during) /\ Existed(s, during)
  BY DEF CInv, PInv, TypeOK, Earned, PathKinds, ListPcs
<1>2. ASSUME req.kind = "list", Answer("listed") PROVE CInv'
  <2> DEFINE r == [req EXCEPT !.pc = "done", !.answer = "listed"]
  <2>1. Handle(r)
    BY <1>2 DEF Answer
  <2>2. /\ r.pc = "done" /\ r.kind = req.kind /\ r.viewer = req.viewer /\ r.user = req.user
        /\ r.ws = req.ws /\ r.answer = "listed" /\ r.found = req.found
    BY <1>1 DEF Request
  <2> HIDE DEF r
  <2>3. \A s \in r.found : WasListed(r, s, during) /\ Existed(s, during)
    BY <1>1, <2>2, SameFacts
  <2>4. \A s \in Spaces : StandsIn(r, s, during) => s \in r.found
    BY <1>1, <2>2 DEF ListSoFar, StandsIn
  <2>5. ListSoFar(r, during)
    BY <1>1, <1>2, <2>2, <2>3, <2>4 DEF ListSoFar
  <2> QED
    BY <1>1, <2>1, <2>2, <2>5, OtherStep
<1>3. ASSUME Answer("forbidden") PROVE CInv'
  BY <1>1, <1>3, OtherRefusal DEF Answers
<1>4. ASSUME Handle([req EXCEPT !.pc = "done", !.answer = "forwarded", !.name = req.user]) PROVE CInv'
  <2> DEFINE r == [req EXCEPT !.pc = "done", !.answer = "forwarded", !.name = req.user]
  <2>1. Handle(r)
    BY <1>4
  <2>2. r.pc = "done" /\ r.kind = req.kind /\ r.viewer = req.viewer /\ r.answer = "forwarded"
    BY <1>1 DEF Request
  <2> HIDE DEF r
  <2>3. ListSoFar(r, during)
    BY <1>1, <2>2 DEF ListSoFar
  <2> QED
    BY <1>1, <2>1, <2>2, <2>3, OtherStep
<1> QED
  BY <1>2, <1>3, <1>4

LEMMA InitCarries ==
  Init => CInv
<1> SUFFICES ASSUME Init PROVE CInv
  OBVIOUS
<1>1. PInv
  BY InitEarns
<1>2. req.pc = "idle" /\ req.answer = None /\ req.kind = None /\ req.found = {} /\ during = {}
  BY DEF Init, NoRequest
<1>3. IsFiniteSet(during)
  BY <1>2, FS_EmptySet
<1>4. ~Stands(req, during) /\ ~Quiet(req, during)
  BY <1>2 DEF Stands, Quiet
<1>5. ListSoFar(req, during)
  BY <1>2, NoneAssumption DEF ListSoFar, Answers, Kinds
<1> QED
  BY <1>1, <1>3, <1>4, <1>5 DEF CInv

LEMMA ReceiveCarries ==
  ASSUME CInv, PInv', NEW k \in Kinds, NEW u \in Opt(Users), NEW s \in Opt(Spaces), NEW v \in BOOLEAN,
         Receive(k, u, s, v)
  PROVE  CInv'
<1>1. /\ req'.pc \in {"ban", "done"} /\ req'.kind = k /\ req'.found = {} /\ req'.user = u
      /\ req'.viewer = (v /\ k # "list") /\ (req'.pc = "ban" <=> u # None)
      /\ req'.answer \in {"open", "unauthorized", None}
  BY DEF Receive, NoRequest
<1>2. IsFiniteSet(during')
  BY FS_Singleton DEF Receive
<1>3. ListSoFar(req', during')
  BY <1>1, NoneAssumption DEF ListSoFar, Answers
<1>4. u \in Users => LetThrough(req') /\ SoFar(req', world')
  <2>1. u \in Users => req'.pc = "ban"
    BY <1>1, ProxyAssumption
  <2> QED
    BY <2>1 DEF LetThrough, SoFar, PathPcs
<1>5. /\ Stands(req', during') => LetThrough(req')
      /\ Quiet(req', during') => SoFar(req', world')
  BY <1>1, <1>4 DEF Stands, Quiet
<1> QED
  BY <1>2, <1>3, <1>5 DEF CInv

\* A condition on all the worlds of a request is not met the sooner for another world.
LEMMA MoreWorlds ==
  ASSUME NEW r, NEW D, NEW E, D \subseteq E
  PROVE  /\ Stands(r, E) => Stands(r, D)
         /\ \A s : StandsIn(r, s, E) => StandsIn(r, s, D)
         /\ ListSoFar(r, D) => ListSoFar(r, E)
<1>1. ASSUME Stands(r, E) PROVE Stands(r, D)
  <2>1. PICK m \in Members : \A w \in E : w.place[r.ws] = m /\ m \in w.members
    BY <1>1 DEF Stands
  <2>2. ~UserUnbound(r, D)
    BY <1>1 DEF Stands, UserUnbound
  <2> QED
    BY <1>1, <2>1, <2>2 DEF Stands
<1>2. \A s : StandsIn(r, s, E) => StandsIn(r, s, D)
  BY DEF StandsIn
<1>3. \A s : /\ WasListed(r, s, D) => WasListed(r, s, E)
             /\ Existed(s, D) => Existed(s, E)
  BY DEF WasListed, Existed
<1>4. ListSoFar(r, D) => ListSoFar(r, E)
  BY <1>2, <1>3 DEF ListSoFar
<1> QED
  BY <1>1, <1>2, <1>4

LEMMA ChangeCarries ==
  ASSUME CInv, PInv', NEW w, Change(w)
  PROVE  CInv'
<1>1. req' = req /\ world' = w
  BY DEF Change
<1>2. IsFiniteSet(during')
  BY FS_AddElement, FS_EmptySet DEF Change, CInv
<1>3. CASE req.pc = "idle"
  <2>1. ~Stands(req, during') /\ ~Quiet(req, during')
    BY <1>3 DEF Stands, Quiet
  <2>2. ListSoFar(req, during')
    BY <1>3 DEF CInv, ListSoFar
  <2> QED
    BY <1>1, <1>2, <2>1, <2>2 DEF CInv
<1>4. CASE req.pc # "idle"
  <2>1. during' = during \cup {w} /\ world \in during
    BY <1>4 DEF Change, CInv, PInv
  <2>2. Stands(req, during') => LetThrough(req)
    BY <2>1, MoreWorlds DEF CInv
  <2>3. ListSoFar(req, during')
    BY <2>1, MoreWorlds DEF CInv
  <2>4. ASSUME Quiet(req, during') PROVE SoFar(req, w)
    <3>1. during = {w} /\ world = w
      BY <2>1, <2>4 DEF Quiet
    <3> QED
      BY <2>4, <3>1 DEF Quiet, CInv
  <2> QED
    BY <1>1, <1>2, <2>2, <2>3, <2>4 DEF CInv
<1> QED
  BY <1>3, <1>4

LEMMA NextCarries ==
  CInv /\ [Next]_vars => CInv'
<1> SUFFICES ASSUME CInv, [Next]_vars PROVE CInv'
  OBVIOUS
<1>1. PInv'
  BY NextKeeps DEF CInv
<1>2. ASSUME Receives PROVE CInv'
  BY <1>1, <1>2, ReceiveCarries DEF Receives
<1>3. ASSUME Caches PROVE CInv'
  BY <1>1, <1>3, ChangeCarries DEF Caches, AccountChanges, HomeChanges, SpaceChanges, BindingChanges,
     AskedChanges, BanChanges, MembersChange
<1>4. ASSUME Handler PROVE CInv'
  BY <1>1, <1>4, BanCarries, BanElseCarries, HomeSignupCarries, PickSpaceCarries, HomeTargetCarries,
     FindMemberCarries, FindMemberElseCarries, ListSignupCarries, ListBindingsCarries,
     ListDoneCarries, ListSpaceCarries, CheckUserCarries, CheckSpaceCarries,
     WorkspaceSignupCarries, WorkspaceSpaceCarries, LevelBindingsCarries, ParentSpaceCarries,
     WorkspaceRequestsCarries, ClusterAccessCarries, CompliantNameCarries, SpaceTargetCarries
     DEF Handler
<1>5. ASSUME UNCHANGED vars PROVE CInv'
  BY <1>5 DEF vars, CInv, PInv, TypeOK
<1> QED
  BY <1>2, <1>3, <1>4, <1>5 DEF Next, Finished

LEMMA CInvHolds ==
  Spec => []CInv
BY InitCarries, NextCarries, PTL DEF Spec

LEMMA StandingIsForwarded ==
  CInv => SteadyAccessIsForwarded
<1> SUFFICES ASSUME CInv,
                    req.pc = "done", req.kind = "workspace", req.user # None, ~req.fault,
                    \A w \in during : /\ req.user \notin w.banned
                                      /\ AccountOf(w) = "active"
                                      /\ \A a \in Line[req.ws] : Exists(w, a),
                    \E a \in Line[req.ws] : \A w \in during : <<a, req.user>> \in w.bindings,
                    \E m \in Members : \A w \in during : w.place[req.ws] = m /\ m \in w.members
             PROVE  req.answer = "forwarded" /\ req.name = req.user
  BY DEF SteadyAccessIsForwarded
<1>1. req.user \in Users
  BY DEF CInv, PInv, TypeOK, Request, Opt
<1>2. ~UserUnbound(req, during)
  BY DEF UserUnbound
<1>3. Stands(req, during)
  BY <1>1, <1>2 DEF Stands, AccountOf
<1> QED
  BY <1>3 DEF CInv, LetThrough

\* Whoever has access to a workspace all the time by the same binding is let through under
\* the own name, whatever else changes between the reads of the levels of its bindings
\* and the other reads (processWorkspaceRequest).
THEOREM SteadyAccessIsAlwaysForwarded == Spec => []SteadyAccessIsForwarded
BY CInvHolds, StandingIsForwarded, PTL

LEMMA SoFarIsRight ==
  CInv => ListIsRight
<1> SUFFICES ASSUME CInv, req.answer = "listed" PROVE ListIsRight
  BY DEF ListIsRight
<1>1. /\ ~req.viewer
      /\ \A s \in req.found : WasListed(req, s, during) /\ Existed(s, during)
      /\ \A s \in Spaces : StandsIn(req, s, during) => s \in req.found
  BY DEF CInv, ListSoFar
<1>2. \A s \in req.found : /\ \E w \in during : <<s, req.user>> \in w.bindings
                           /\ \E w \in during : Exists(w, s)
  BY <1>1 DEF WasListed, Existed, ListNames, DirectSpaces
<1>3. \A s \in Spaces :
         (\A w \in during : /\ AccountOf(w) = "active"
                            /\ <<s, req.user>> \in w.bindings
                            /\ Exists(w, s))
         => s \in req.found
  BY <1>1 DEF StandsIn, AccountOf
<1> QED
  BY <1>2, <1>3 DEF ListIsRight

\* The list of workspaces has nothing the user was never bound to, and lacks nothing the
\* user was bound to all the time (ListUserWorkspaces).
THEOREM ListIsAlwaysRight == Spec => []ListIsRight
BY CInvHolds, SoFarIsRight, PTL

LEMMA QuietIsRight ==
  CInv => QuietVerdict
<1> SUFFICES ASSUME CInv,
                    req.pc = "done", req.kind \in {"workspace", "get"}, req.user # None, ~req.fault,
                    Cardinality(during) = 1,
                    NEW w \in during
             PROVE  /\ req.answer = IF req.user \in w.banned THEN "banned" ELSE WorkspaceVerdict(w)
                    /\ req.answer = "forwarded" =>
                         req.name = IF Direct(w) \/ (AccountOf(w) = "active" /\ <<req.ws, req.user>> \in w.asked)
                                    THEN req.user ELSE Viewer
  BY DEF QuietVerdict
<1>1. req.user \in Users /\ world \in during
  BY DEF CInv, PInv, TypeOK, Request, Opt
<1>2. Quiet(req, during) /\ w = world
  BY <1>1, FS_Singleton DEF CInv, Quiet, PathKinds
<1>3. /\ req.answer = VerdictOf(req, w)
      /\ req.answer = "forwarded" => req.name = IF OwnName(req, w) THEN req.user ELSE Viewer
  BY <1>2 DEF CInv, SoFar
<1>4. VerdictOf(req, w) = IF req.user \in w.banned THEN "banned" ELSE WorkspaceVerdict(w)
  BY DEF VerdictOf, WorkspaceVerdict, BrokenOf, Broken, MayUse, DirectOf, Direct, CommunityOf,
         Community, AccountOf
<1>5. ASSUME req.answer = "forwarded"
      PROVE  OwnName(req, w) <=> Direct(w) \/ (AccountOf(w) = "active" /\ <<req.ws, req.user>> \in w.asked)
  <2>1. w.place[req.ws] \in w.members
    <3>1. VerdictOf(req, w) = "forwarded"
      BY <1>3, <1>5
    <3>2. req.kind # "get"
      BY <3>1 DEF VerdictOf
    <3> QED
      BY <3>1, <3>2 DEF VerdictOf
  <2> QED
    BY <2>1 DEF OwnName, AskedFor, Direct, AccountOf
<1> QED
  BY <1>3, <1>4, <1>5

\* When the caches stand still, the many reads of a request for a workspace come to what
\* one look at the caches would have (getClusterAccess, GetUserWorkspaceWithBindings).
THEOREM QuietIsAlwaysRight == Spec => []QuietVerdict
BY CInvHolds, QuietIsRight, PTL
=============================================================================
