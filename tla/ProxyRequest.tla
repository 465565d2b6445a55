---------------------------- MODULE ProxyRequest ----------------------------
(***************************************************************************)
(* A request of a user to the proxy (pkg/proxy): authentication, the ban,  *)
(* the choice of the workspace, of the member cluster and of the name to   *)
(* impersonate, or the answer of the workspace lister.                     *)
(*                                                                         *)
(* The handlers write nothing and share nothing, so one request is         *)
(* modelled.  What they can do wrong is to decide on several reads of      *)
(* informer caches that change in between: world is what these caches      *)
(* hold, and each read of it is a step of the handler.                     *)
(***************************************************************************)
EXTENDS Naturals, FiniteSets

CONSTANTS
  Users,       \* users who have tokens; a user's MasterUserRecord has the user's name
  Viewer,      \* KubesawAuthenticatedUsername, the public viewer
  Spaces,      \* spaces, that is, workspaces
  Members,     \* member clusters
  Parent,      \* Parent[s]: the parent space of s, or None
  Owner,       \* Owner[s]: the user whose signup created s
  Rank,        \* Rank[s]: the place of s in the order of the names
  None,        \* nil
  MaxChanges   \* bound: changes of the caches

ASSUME ProxyAssumption ==
  /\ Viewer \notin Users /\ None \notin Users \cup {Viewer} \cup Spaces \cup Members
  /\ Members \cap {"missing", "unplaced"} = {}
  /\ Parent \in [Spaces -> Spaces \cup {None}]
  /\ Owner \in [Spaces -> Users]
  /\ Rank \in [Spaces -> Nat]
  /\ MaxChanges \in Nat

VARIABLES
  world,    \* what the caches of the replica hold
  req,      \* where the handler is, and its local variables
  during,   \* history: the worlds since the request arrived
  changes   \* changes of the caches so far

vars == <<world, req, during, changes>>

Opt(S) == S \cup {None}

Names == Users \cup {Viewer}

-----------------------------------------------------------------------------
(* The caches.                                                             *)

\* What GetSignup makes of the UserSignup of a user: nil or no CompliantUsername
\* ("absent"), a provisioned user ("active"), or an error ("failing": banned, rejected,
\* or no MasterUserRecord).
Accounts == {"absent", "active", "failing"}

\* Where a space is: on a member, on none yet, or it does not exist.
Places == Members \cup {"missing", "unplaced"}

World == [account  : [Users -> Accounts],
          home     : [Users -> Opt(Spaces)],    \* Status.HomeSpace
          place    : [Spaces -> Places],
          bindings : SUBSET (Spaces \X Names),  \* SpaceBindings
          asked    : SUBSET (Spaces \X Users),  \* SpaceBindingRequests not yet bindings
          banned   : SUBSET Users,
          members  : SUBSET Members]            \* GetMembersFunc()

Exists(w, s) == w.place[s] # "missing"

WithParents(S) == \A s \in S : Parent[s] # None => Parent[s] \in S

\* A space, its parent, and so on to the root.
Line == [s \in Spaces |->
           {a \in Spaces : \A S \in SUBSET Spaces : s \in S /\ WithParents(S) => a \in S}]

\* The names that have a binding to s or inherit one, in one and the same world.
Bound(w, s) == {n \in Names : \E a \in Line[s] : <<a, n>> \in w.bindings}

\* The proxy reads the caches at any time, other components change them at any time.
Change(w) ==
  /\ req.pc # "done"
  /\ changes < MaxChanges
  /\ world' = w
  /\ during' = IF req.pc = "idle" THEN {} ELSE during \cup {w}
  /\ changes' = changes + 1
  /\ UNCHANGED req

AccountChanges(u, a) == Change([world EXCEPT !.account[u] = a])

HomeChanges(u, s) == Change([world EXCEPT !.home[u] = s])

SpaceChanges(s, p) == Change([world EXCEPT !.place[s] = p])

BindingChanges(b) ==
  Change([world EXCEPT !.bindings = IF b \in @ THEN @ \ {b} ELSE @ \cup {b}])

AskedChanges(b) ==
  Change([world EXCEPT !.asked = IF b \in @ THEN @ \ {b} ELSE @ \cup {b}])

BanChanges(u) ==
  Change([world EXCEPT !.banned = IF u \in @ THEN @ \ {u} ELSE @ \cup {u}])

MembersChange(m) ==
  Change([world EXCEPT !.members = IF m \in @ THEN @ \ {m} ELSE @ \cup {m}])

-----------------------------------------------------------------------------
(* The request and its answer.                                             *)

\* "home" and "workspace" are requests for a member cluster, "get" and "list" for the
\* workspace lister; "malformed" has no workspace in its path; "open" needs no token.
Kinds == {"home", "workspace", "get", "list", "malformed", "open"}

Answers == {"open", "unauthorized", "banned", "badRequest", "forbidden",
            "internal", "notFound", "found", "listed", "forwarded"}

Request == [pc      : {"idle", "ban", "homeSignup", "pick", "homeTarget", "listSignup",
                       "listBindings", "listSpaces", "user", "exists", "signup", "space",
                       "bindings", "parent", "requests", "access", "name", "target", "member", "done"},
            kind    : Opt(Kinds),
            user    : Opt(Users),
            ws      : Opt(Spaces),
            viewer  : BOOLEAN,       \* IsPublicViewerEnabled
            name    : Opt(Names),    \* the name that accesses, at last the one impersonated
            level   : Opt(Spaces),   \* the space whose bindings are listed, or were last
            bound   : SUBSET Names,  \* the names in status.bindings of the workspace
            todo    : SUBSET Spaces, \* spaces still to be read for the list
            found   : SUBSET Spaces, \* spaces in the list
            cluster : Opt(Places),   \* the place of the space, at last the target
            fault   : BOOLEAN,       \* history: a read failed
            answer  : Opt(Answers)]

ASSUME NoneAssumption == None \notin Answers \cup Kinds

NoRequest == [pc |-> "idle", kind |-> None, user |-> None, ws |-> None, viewer |-> FALSE,
              name |-> None, level |-> None, bound |-> {}, todo |-> {}, found |-> {}, cluster |-> None,
              fault |-> FALSE, answer |-> None]

Handle(r) == req' = r /\ UNCHANGED <<world, during, changes>>

Goto(pc) == Handle([req EXCEPT !.pc = pc])

Answer(a) == Handle([req EXCEPT !.pc = "done", !.answer = a])

\* A read of a cache or of a member cluster fails.
Fault == Handle([req EXCEPT !.pc = "done", !.answer = "internal", !.fault = TRUE])

\* The workspace lister's nil, which the proxy reports as forbidden.
NotFound == Answer(IF req.kind = "get" THEN "notFound" ELSE "forbidden")

AccountOf(w) == w.account[req.user]

\* The request arrives and its token is parsed (addUserContext); u is None when the
\* token is not valid.  The list shows no community workspaces.
Receive(k, u, s, v) ==
  /\ req.pc = "idle"
  /\ k = "open" => u = None
  /\ (k \in {"workspace", "get"}) <=> (s # None)
  /\ req' = [NoRequest EXCEPT
               !.pc = IF u = None THEN "done" ELSE "ban",
               !.answer = IF k = "open" THEN "open" ELSE IF u = None THEN "unauthorized" ELSE None,
               !.kind = k, !.user = u, !.ws = s, !.viewer = v /\ k # "list"]
  /\ during' = {world}
  /\ UNCHANGED <<world, changes>>

\* Mutated: the public viewer's community is open to the banned.
BannedButViewers(w) == req.user \in w.banned /\ ~req.viewer

IsBanned(w) == req.user \in w.banned

\* ensureUserIsNotBanned, then the route.
EnsureUserIsNotBanned ==
  /\ req.pc = "ban"
  /\ \/ IsBanned(world) /\ Answer("banned")
     \/ ~IsBanned(world) /\ req.kind = "malformed" /\ Answer("badRequest")
     \/ ~IsBanned(world) /\ req.kind = "home" /\ Goto("homeSignup")
     \/ ~IsBanned(world) /\ req.kind = "list" /\ Goto("listSignup")
     \/ ~IsBanned(world) /\ req.kind = "get" /\ Goto("signup")
     \/ ~IsBanned(world) /\ req.kind = "workspace" /\ Goto("user")
     \/ Fault

-----------------------------------------------------------------------------
(* The home workspace: the cluster of the user's space, provided that the  *)
(* user's list of workspaces has one of the user's own.                    *)

\* GetSignup reads the UserSignup.
HomeSignup ==
  /\ req.pc = "homeSignup"
  /\ IF AccountOf(world) # "active" THEN Answer("internal")
     ELSE LET h == world.home[req.user] IN
       Handle([req EXCEPT !.pc = IF h = None THEN "pick" ELSE "homeTarget", !.ws = h])

\* Spaces to which one of names is bound itself.
DirectSpaces(w, names) == {s \in Spaces : \E n \in names : <<s, n>> \in w.bindings}

First(S) == CHOOSE s \in S : \A t \in S : Rank[s] <= Rank[t]

\* GetDefaultUserTarget without a home space: the first space the user is bound to.
PickSpace ==
  /\ req.pc = "pick"
  /\ LET S == DirectSpaces(world, {req.user}) IN
       \/ S # {} /\ Handle([req EXCEPT !.pc = "homeTarget", !.ws = First(S)])
       \/ S = {} /\ Answer("internal")
       \/ Fault

\* GetDefaultUserTarget reads the space, and GetSignup the endpoint of its cluster.
HomeTarget ==
  /\ req.pc = "homeTarget"
  /\ \/ Handle([req EXCEPT !.pc = "member", !.cluster = world.place[req.ws]])
     \/ Fault

MemberFound(w) == req.cluster \in w.members

\* accessForCluster, accessForSpace: the member cluster and its URL, or the plugin's.
FindMember ==
  /\ req.pc = "member"
  /\ \/ ~MemberFound(world) /\ Answer("internal")
     \/ MemberFound(world) /\ req.kind = "home" /\ Goto("listSignup")
     \/ MemberFound(world) /\ req.kind = "workspace" /\ Answer("forwarded")
     \/ Fault

-----------------------------------------------------------------------------
(* The workspaces of the user, for the list and to check the home          *)
(* workspace.                                                              *)

\* GetProvisionedUserSignup.
ListSignup ==
  /\ req.pc = "listSignup"
  /\ \/ AccountOf(world) = "failing" /\ Answer("internal")
     \/ AccountOf(world) = "absent" /\ Answer(IF req.kind = "home" THEN "forbidden" ELSE "listed")
     \/ AccountOf(world) = "active" /\ Goto("listBindings")

\* getMURNamesForList.
ListedNames == {req.user} \cup (IF req.viewer THEN {Viewer} ELSE {})

\* listSpaceBindingsForUsers.
ListBindings ==
  /\ req.pc = "listBindings"
  /\ \/ Handle([req EXCEPT !.pc = "listSpaces", !.todo = DirectSpaces(world, ListedNames),
                            !.found = {}])
     \/ Fault

\* Mutated: the first space that cannot be read ends the list.
StopAtMissing(w, s) ==
  IF Exists(w, s) THEN [req EXCEPT !.todo = @ \ {s}, !.found = @ \cup {s}] ELSE [req EXCEPT !.todo = {}]

\* A space that cannot be read is left out of the list.
Listed(w, s) ==
  [req EXCEPT !.todo = @ \ {s}, !.found = IF Exists(w, s) THEN @ \cup {s} ELSE @]

ListSpace(s) ==
  /\ req.pc = "listSpaces"
  /\ s \in req.todo
  /\ Handle(Listed(world, s))

\* The list is complete: it is the answer, or validateWorkspaceRequest looks for the
\* user's own workspace in it.
ListDone ==
  /\ req.pc = "listSpaces"
  /\ req.todo = {}
  /\ \/ req.kind = "list" /\ Answer("listed")
     \/ /\ req.kind = "home"
        /\ IF \E s \in req.found : Owner[s] = req.user
           THEN Handle([req EXCEPT !.pc = "done", !.answer = "forwarded", !.name = req.user])
           ELSE Answer("forbidden")

-----------------------------------------------------------------------------
(* A workspace named in the path.                                          *)

\* checkUserIsProvisioned.
CheckUser ==
  /\ req.pc = "user"
  /\ IF req.viewer \/ AccountOf(world) = "active" THEN Goto("exists") ELSE Answer("internal")

\* checkSpaceExists.
CheckSpace ==
  /\ req.pc = "exists"
  /\ IF Exists(world, req.ws) THEN Goto("signup") ELSE Answer("internal")

\* Mutated: a user without a CompliantUsername is taken for provisioned.
UnnamedToo(w) == IF AccountOf(w) = "active" THEN req.user ELSE ""

\* The user, or the public viewer in place of one who is not provisioned.
ProvisionedName(w) ==
  IF AccountOf(w) = "active" THEN req.user ELSE IF req.viewer THEN Viewer ELSE None

\* getUserSignupAndSpace gets the user.
WorkspaceSignup ==
  /\ req.pc = "signup"
  /\ IF AccountOf(world) = "failing" THEN Answer("internal")
     ELSE Handle([req EXCEPT !.pc = "space", !.name = ProvisionedName(world)])

\* getUserSignupAndSpace gets the space.
WorkspaceSpace ==
  /\ req.pc = "space"
  /\ IF Exists(world, req.ws) /\ req.name # None
     THEN Handle([req EXCEPT !.pc = "bindings", !.cluster = world.place[req.ws],
                             !.level = req.ws])
     ELSE NotFound

\* Mutated: the public viewer's bindings count although the feature is disabled.
BoundOrCommunity(names) == req.name \in names \/ Viewer \in names

MayAccess(names) == req.name \in names \/ (req.viewer /\ Viewer \in names)

\* The names bound to the space s itself.
DirectlyBound(w, s) == {n \in Names : <<s, n>> \in w.bindings}

\* ListForSpace lists the bindings of the workspace, then of its parents, level by level;
\* GetUserWorkspaceWithBindings looks for the user's in all of them.
LevelBindings ==
  /\ req.pc = "bindings"
  /\ LET names == req.bound \cup DirectlyBound(world, req.level) IN
       \/ /\ Parent[req.level] # None
          /\ Handle([req EXCEPT !.pc = "parent", !.bound = names])
       \/ /\ Parent[req.level] = None
          /\ IF MayAccess(names) THEN Handle([req EXCEPT !.pc = "requests", !.bound = names])
             ELSE NotFound
       \/ Fault

\* ListForSpace gets the parent space, to go on with.
ParentSpace ==
  /\ req.pc = "parent"
  /\ LET parent == Parent[req.level] IN
       \/ Exists(world, parent) /\ Handle([req EXCEPT !.pc = "bindings", !.level = parent])
       \/ ~Exists(world, parent) /\ Answer("internal")
       \/ Fault

\* listSpaceBindingRequestsForSpace: on the member where the space is.
Requested(w) == {u \in Users : req.cluster \in w.members /\ <<req.ws, u>> \in w.asked}

\* The SpaceBindingRequests join the bindings of the workspace (generateWorkspaceBindings),
\* which "get" answers with and the proxy goes on with.
WorkspaceRequests ==
  /\ req.pc = "requests"
  /\ \/ world.members = {} /\ Answer("internal")
     \/ /\ world.members # {}
        /\ Handle([req EXCEPT !.bound = @ \cup Requested(world),
                              !.pc = IF req.kind = "get" THEN "done" ELSE "access",
                              !.answer = IF req.kind = "get" THEN "found" ELSE None])
     \/ Fault

\* Mutated: the public viewer whenever the feature is enabled.
ViewerAlways(w) == req.viewer

\* userHasDirectAccess does not hold, and the public viewer stands in.
AsViewer(w) == req.viewer /\ ~(AccountOf(w) = "active" /\ req.user \in req.bound)

\* getClusterAccessAsUserOrPublicViewer.
ClusterAccess ==
  /\ req.pc = "access"
  /\ \/ AccountOf(world) = "failing" /\ Answer("internal")
     \/ /\ AccountOf(world) # "failing"
        /\ Handle([req EXCEPT !.pc = IF AsViewer(world) THEN "target" ELSE "name",
                              !.name = IF AsViewer(world) THEN Viewer ELSE req.user])

\* getUserSignupComplaintName.
CompliantName ==
  /\ req.pc = "name"
  /\ IF AccountOf(world) = "active" THEN Goto("target") ELSE Answer("internal")

\* getSpaceAccess reads the space.
SpaceTarget ==
  /\ req.pc = "target"
  /\ IF Exists(world, req.ws)
     THEN Handle([req EXCEPT !.pc = "member", !.cluster = world.place[req.ws]])
     ELSE Answer("internal")

-----------------------------------------------------------------------------

Init ==
  /\ world \in [account  : {[u \in Users |-> "active"]},
                home     : [Users -> Opt(Spaces)],
                place    : [Spaces -> Members],
                bindings : SUBSET (Spaces \X Names),
                asked    : {{}},
                banned   : {{}},
                members  : {Members}]
  /\ req = NoRequest
  /\ during = {}
  /\ changes = 0

Receives ==
  \E k \in Kinds, u \in Opt(Users), s \in Opt(Spaces), v \in BOOLEAN : Receive(k, u, s, v)

\* A step of the handler of the request.
Handler ==
  \/ EnsureUserIsNotBanned
  \/ HomeSignup \/ PickSpace \/ HomeTarget \/ FindMember
  \/ ListSignup \/ ListBindings \/ ListDone
  \/ \E s \in Spaces : ListSpace(s)
  \/ CheckUser \/ CheckSpace
  \/ WorkspaceSignup \/ WorkspaceSpace \/ LevelBindings \/ ParentSpace \/ WorkspaceRequests
  \/ ClusterAccess \/ CompliantName \/ SpaceTarget

Caches ==
  \/ \E u \in Users, a \in Accounts : AccountChanges(u, a)
  \/ \E u \in Users, s \in Opt(Spaces) : HomeChanges(u, s)
  \/ \E s \in Spaces, p \in Places : SpaceChanges(s, p)
  \/ \E b \in Spaces \X Names : BindingChanges(b)
  \/ \E b \in Spaces \X Users : AskedChanges(b)
  \/ \E u \in Users : BanChanges(u)
  \/ \E m \in Members : MembersChange(m)

\* The request has been answered.
Finished == req.pc = "done" /\ UNCHANGED vars

Next == Receives \/ Handler \/ Caches \/ Finished

Spec == Init /\ [][Next]_vars

-----------------------------------------------------------------------------
(* Properties.                                                             *)

\* The variables have their types.
TypeOK ==
  /\ world \in World
  /\ req \in Request
  /\ during \subseteq World
  /\ changes \in 0 .. MaxChanges

\* What a request that is forwarded to the workspace s as a name n presupposes: the name
\* is the user's, with a binding or, where the workspace is open to the community, the
\* request for one; or it is the viewer's, which stands in for a user who was not
\* provisioned, or was at some time without each of the bindings looked for.
WorkspaceRights ==
  /\ req.viewer \/ req.name = req.user
  /\ req.name = req.user =>
       /\ \E w \in during : AccountOf(w) = "active"
       /\ \/ \E w \in during : req.user \in Bound(w, req.ws)
          \/ /\ \E w \in during : Viewer \in Bound(w, req.ws)
             /\ \E w \in during : <<req.ws, req.user>> \in w.asked
  /\ req.name = Viewer =>
       /\ \E w \in during : {req.user, Viewer} \cap Bound(w, req.ws) # {}
       /\ \/ \E w \in during : AccountOf(w) = "absent"
          \/ \A a \in Line[req.ws] : \E w \in during : <<a, req.user>> \notin w.bindings

HomeRights ==
  /\ \E w \in during : AccountOf(w) = "active"
  /\ \E w \in during : req.ws = w.home[req.user] \/ <<req.ws, req.user>> \in w.bindings
  /\ \E s \in Spaces : /\ Owner[s] = req.user
                       /\ \E w \in during : s \in DirectSpaces(w, ListedNames)
                       /\ \E w \in during : Exists(w, s)

\* A forwarded request had its rights while it was handled, though perhaps not all at the
\* same time: the user was not banned, had access to the workspace or to a workspace of
\* the user's own, and the target is a member on which the space was
\* (processRequest, getClusterAccess).
ForwardedWithinRights ==
  req.answer = "forwarded" =>
    /\ \E w \in during : req.user \notin w.banned
    /\ \E w \in during : w.place[req.ws] = req.cluster
    /\ \E w \in during : req.cluster \in w.members
    /\ req.kind = "workspace" => WorkspaceRights
    /\ req.kind = "home" => HomeRights /\ req.name = req.user

\* Whoever has access all the time by the same binding is let through, whatever else changes
\* meanwhile: the user is provisioned and bound to the workspace or to one of its parents,
\* which exist, and its member stays (processWorkspaceRequest).  A binding that moves from
\* one level to another is not enough: the bindings are listed level by level.
SteadyAccessIsForwarded ==
  /\ req.pc = "done" /\ req.kind = "workspace" /\ req.user # None /\ ~req.fault
  /\ \A w \in during :
       /\ req.user \notin w.banned
       /\ AccountOf(w) = "active"
       /\ \A a \in Line[req.ws] : Exists(w, a)
  /\ \E a \in Line[req.ws] : \A w \in during : <<a, req.user>> \in w.bindings
  /\ \E m \in Members : \A w \in during : w.place[req.ws] = m /\ m \in w.members
  => req.answer = "forwarded" /\ req.name = req.user

\* The list has nothing the user was never bound to, and lacks nothing the user was
\* bound to all the time (ListUserWorkspaces, "best effort").
ListIsRight ==
  req.answer = "listed" =>
    /\ \A s \in req.found :
         /\ \E w \in during : <<s, req.user>> \in w.bindings
         /\ \E w \in during : Exists(w, s)
    /\ \A s \in Spaces :
         (\A w \in during : /\ AccountOf(w) = "active"
                            /\ <<s, req.user>> \in w.bindings
                            /\ Exists(w, s))
         => s \in req.found

\* The reference: who may use a workspace, in a world that stands still.
Direct(w) == AccountOf(w) = "active" /\ req.user \in Bound(w, req.ws)

Community(w) == req.viewer /\ Viewer \in Bound(w, req.ws)

\* Nobody may, for a reason that is reported as an error.
Broken(w) ==
  \/ AccountOf(w) = "failing"
  \/ req.kind = "workspace" /\ (~Exists(w, req.ws) \/ (AccountOf(w) = "absent" /\ ~req.viewer))
  \/ Exists(w, req.ws) /\ (AccountOf(w) = "active" \/ req.viewer) /\ \E a \in Line[req.ws] : ~Exists(w, a)

WorkspaceVerdict(w) ==
  IF Broken(w) THEN "internal"
  ELSE IF ~Exists(w, req.ws) \/ ~(Direct(w) \/ Community(w))
       THEN IF req.kind = "get" THEN "notFound" ELSE "forbidden"
  ELSE IF w.members = {} \/ (req.kind = "workspace" /\ w.place[req.ws] \notin w.members) THEN "internal"
  ELSE IF req.kind = "get" THEN "found" ELSE "forwarded"

\* When nothing changes while a request for a workspace is handled, and no read fails,
\* the many reads come to what one look at the caches would have: the answer is the
\* reference's, and the name is the user's own exactly if the user has a binding or has
\* asked for one.
QuietVerdict ==
  /\ req.pc = "done" /\ req.kind \in {"workspace", "get"} /\ req.user # None /\ ~req.fault
  /\ Cardinality(during) = 1
  => \A w \in during :
       /\ req.answer = IF req.user \in w.banned THEN "banned" ELSE WorkspaceVerdict(w)
       /\ req.answer = "forwarded" =>
            req.name = IF Direct(w) \/ (AccountOf(w) = "active" /\ <<req.ws, req.user>> \in w.asked)
                       THEN req.user ELSE Viewer

=============================================================================
