----------------------- MODULE ServiceLifecycle_proofs -----------------------
(***************************************************************************)
(* Proofs about ServiceLifecycle for any keys, requests and faults: the    *)
(* keys of the token parser, fetched once, hold what the SSO has published *)
(* ever since, and nobody asks for them before they are there.             *)
(***************************************************************************)
EXTENDS ServiceLifecycle, TLAPS

-----------------------------------------------------------------------------
(* The invariant.                                                          *)

Stages == {"sync", "parser", "proxy", "regsvc", "wait", "stop", "exited"}

ListenerStates == {"down", "starting", "open", "failed", "closed"}

\* main has started a server.
Serving == main \in {"regsvc", "wait", "stop"}

\* The keys are there as long as main is past the parser, and hold all that have stayed.
KeysKept ==
  /\ main \in Stages
  /\ steady \subseteq published /\ published \subseteq Keys
  /\ main \in {"proxy", "regsvc", "wait", "stop"} <=> keys # None
  /\ keys # None => steady \subseteq keys

\* Before there are keys there are no servers, and without a server no requests.
NothingServed ==
  /\ listener \in [Servers -> ListenerStates]
  /\ req \in [Requests -> Request]
  /\ ~Serving => /\ \A s \in Servers : listener[s] = "down"
                 /\ \A r \in Requests : ~UnderWay(r)
  /\ \A r \in Requests : req[r].pc # "done" => req[r].answer = None

LInv == KeysKept /\ NothingServed

-----------------------------------------------------------------------------

LEMMA InitStarts ==
  Init => LInv
<1> SUFFICES ASSUME Init PROVE LInv
  OBVIOUS
<1>1. KeysKept
  BY DEF Init, KeysKept, Stages
<1>2. NothingServed
  <2>1. Idle \in Request
    BY DEF Idle, Request
  <2> QED
    BY <2>1 DEF Init, NothingServed, Serving, UnderWay, Idle, ListenerStates
<1> QED
  BY <1>1, <1>2 DEF LInv

\* The process is gone, whatever stage main was at.
LEMMA ExitEnds ==
  ASSUME LInv, Exit
  PROVE  LInv'
<1>1. KeysKept'
  BY DEF Exit, LInv, KeysKept, sso, Stages
<1>2. listener' \in [Servers -> ListenerStates] /\ \A s \in Servers : listener'[s] = "down"
  BY DEF Exit, ListenerStates
<1>3. ASSUME NEW r \in Requests
      PROVE  /\ req'[r] \in Request /\ req'[r].pc \in {"idle", "done"}
             /\ req'[r].pc # "done" => req'[r].answer = None
  <2>1. /\ req[r] \in Request
        /\ req[r].pc # "done" => req[r].answer = None
        /\ req'[r] = IF UnderWay(r) THEN [req[r] EXCEPT !.pc = "done", !.answer = "cut"] ELSE req[r]
    BY <1>3 DEF LInv, NothingServed, Exit
  <2>2. CASE UnderWay(r)
    <3> DEFINE q == req[r]
    <3>1. q \in Request /\ req'[r] = [q EXCEPT !.pc = "done", !.answer = "cut"]
      BY <2>1, <2>2
    <3> HIDE DEF q
    <3> QED
      BY <3>1 DEF Request
  <2>3. CASE ~UnderWay(r)
    BY <2>1, <2>3 DEF UnderWay, Request
  <2> QED
    BY <2>2, <2>3
<1>4. req' \in [Requests -> Request]
  <2>1. req' = [r \in Requests |-> req'[r]]
    BY DEF Exit
  <2> QED
    BY <1>3, <2>1
<1>5. \A r \in Requests : ~UnderWay(r)'
  BY <1>3 DEF UnderWay
<1>6. main' = "exited"
  BY DEF Exit
<1> QED
  BY <1>1, <1>2, <1>3, <1>4, <1>5, <1>6 DEF LInv, NothingServed, Serving

LEMMA MainKeeps ==
  ASSUME LInv, Main
  PROVE  LInv'
<1> USE DEF LInv
<1>1. ASSUME SyncCaches PROVE LInv'
  BY <1>1 DEF SyncCaches, KeysKept, NothingServed, NextStage, Serving, UnderWay, Stages, sso
<1>2. ASSUME LoadKeys PROVE LInv'
  <2>1. main' = "proxy" /\ keys' = published /\ main = "parser"
    BY <1>2 DEF LoadKeys, NextStage, Fetched
  <2>2. keys' # None
    BY <2>1, ServiceLifecycleAssumption DEF KeysKept
  <2> QED
    BY <1>2, <2>1, <2>2 DEF LoadKeys, KeysKept, NothingServed, Serving, UnderWay, Stages, sso
<1>3. ASSUME StartProxy PROVE LInv'
  <2>1. listener' \in [Servers -> ListenerStates]
    BY <1>3 DEF StartProxy, NothingServed, Servers, ListenerStates
  <2> QED
    BY <1>3, <2>1 DEF StartProxy, KeysKept, NothingServed, NextStage, Serving, UnderWay, Stages, sso
<1>4. ASSUME StartRegistrationService PROVE LInv'
  <2>1. listener' \in [Servers -> ListenerStates]
    BY <1>4 DEF StartRegistrationService, NothingServed, Servers, ListenerStates
  <2> QED
    BY <1>4, <2>1 DEF StartRegistrationService, KeysKept, NothingServed, NextStage, Serving, UnderWay, Stages, sso
<1>5. ASSUME Panic PROVE LInv'
  BY <1>5, ExitEnds DEF Panic
<1>6. ASSUME BeginShutdown PROVE LInv'
  BY <1>6 DEF BeginShutdown, KeysKept, NothingServed, Serving, UnderWay, Stages, sso
<1>7. ASSUME CloseListener PROVE LInv'
  <2>1. listener' \in [Servers -> ListenerStates]
    BY <1>7 DEF CloseListener, NothingServed, ListenerStates
  <2> QED
    BY <1>7, <2>1 DEF CloseListener, KeysKept, NothingServed, Serving, UnderWay, sso
<1>8. ASSUME ServerStopped PROVE LInv'
  BY <1>8 DEF ServerStopped, KeysKept, NothingServed, Serving, UnderWay, sso
<1>9. ASSUME EndMain PROVE LInv'
  BY <1>9, ExitEnds DEF EndMain
<1> QED
  BY <1>1, <1>2, <1>3, <1>4, <1>5, <1>6, <1>7, <1>8, <1>9 DEF Main

LEMMA ListenKeeps ==
  ASSUME LInv, NEW s \in Servers, Listen(s)
  PROVE  LInv'
<1>1. PICK state \in {"open", "failed"} : listener' = [listener EXCEPT ![s] = state]
  BY DEF Listen
<1>2. listener' \in [Servers -> ListenerStates]
  BY <1>1 DEF LInv, NothingServed, ListenerStates
<1>3. Serving
  BY DEF LInv, NothingServed, Listen
<1> QED
  BY <1>2, <1>3 DEF Listen, LInv, KeysKept, NothingServed, Serving, UnderWay, sso

\* A request only moves on while main serves.
LEMMA RequestMoves ==
  ASSUME LInv, NEW r \in Requests, NEW q \in Request, req' = [req EXCEPT ![r] = q], Serving,
         q.pc # "done" => q.answer = None,
         UNCHANGED <<main, stopped, signalled, elapsed, keys, listener, sso, starts>>
  PROVE  LInv'
<1>1. req' \in [Requests -> Request]
  BY DEF LInv, NothingServed
<1>2. \A p \in Requests : req'[p].pc # "done" => req'[p].answer = None
  BY DEF LInv, NothingServed
<1> QED
  BY <1>1, <1>2 DEF LInv, KeysKept, NothingServed, Serving, sso

LEMMA ServeKeeps ==
  ASSUME LInv, NEW r \in Requests, Serve(r)
  PROVE  LInv'
<1>1. req \in [Requests -> Request]
  BY DEF LInv, NothingServed
<1>2. ASSUME NEW s \in Servers, NEW k \in Keys \cup {None}, Arrive(r, s, k) PROVE LInv'
  <2> DEFINE pc == IF k = None THEN "handling" ELSE "received"
             q == [pc |-> pc, server |-> s, key |-> k, answer |-> None]
  <2>1. pc \in {"handling", "received"}
    OBVIOUS
  <2>2. req' = [req EXCEPT ![r] = q]
    BY <1>2 DEF Arrive
  <2>3. Serving
    BY <1>2 DEF Arrive, LInv, NothingServed
  <2> HIDE DEF pc
  <2>4. q \in Request /\ q.answer = None
    BY <1>2, <2>1 DEF Request
  <2> HIDE DEF q
  <2> QED
    BY <1>2, <2>2, <2>3, <2>4, RequestMoves DEF Arrive
<1>3. ASSUME NEW a \in {"ok", "unauthorized"}, Answer(r, a), UnderWay(r),
             UNCHANGED <<main, stopped, signalled, elapsed, keys, listener, sso, starts>>
      PROVE  LInv'
  <2> DEFINE q == [req[r] EXCEPT !.pc = "done", !.answer = a]
  <2>1. q \in Request /\ q.pc = "done"
    BY <1>1 DEF Request
  <2>2. req' = [req EXCEPT ![r] = q]
    BY <1>3 DEF Answer
  <2>3. Serving
    BY <1>3 DEF LInv, NothingServed
  <2> HIDE DEF q
  <2> QED
    BY <1>3, <2>1, <2>2, <2>3, RequestMoves
<1>4. ASSUME Authenticate(r), req' = [req EXCEPT ![r].pc = "handling"] PROVE LInv'
  <2> DEFINE q == [req[r] EXCEPT !.pc = "handling"]
  <2>1. q \in Request /\ q.answer = req[r].answer
    BY <1>1 DEF Request
  <2>2. req' = [req EXCEPT ![r] = q]
    BY <1>4
  <2>3. Serving /\ req[r].answer = None
    BY <1>4 DEF Authenticate, UnderWay, LInv, NothingServed
  <2> HIDE DEF q
  <2> QED
    BY <1>4, <2>1, <2>2, <2>3, RequestMoves DEF Authenticate
<1>5. ASSUME Authenticate(r) PROVE LInv'
  BY <1>3, <1>4, <1>5 DEF Authenticate, UnderWay
<1>6. ASSUME Handle(r) PROVE LInv'
  BY <1>3, <1>6 DEF Handle, UnderWay
<1> QED
  BY <1>2, <1>5, <1>6 DEF Serve

LEMMA EnvironmentKeeps ==
  ASSUME LInv, Environment
  PROVE  LInv'
<1>1. ASSUME Signal PROVE LInv'
  BY <1>1 DEF Signal, LInv, KeysKept, NothingServed, Serving, UnderWay, sso
<1>2. ASSUME Kill PROVE LInv'
  BY <1>2, ExitEnds DEF Kill
<1>3. ASSUME Restart PROVE LInv'
  <2>1. /\ main = "exited" /\ main' = "sync" /\ steady' = published
        /\ UNCHANGED <<keys, listener, req, published>>
    BY <1>3 DEF Restart
  <2>2. keys = None
    BY <2>1 DEF LInv, KeysKept
  <2> QED
    BY <2>1, <2>2 DEF LInv, KeysKept, NothingServed, Serving, UnderWay, Stages
<1>4. ASSUME Rotate PROVE LInv'
  BY <1>4 DEF Rotate, LInv, KeysKept, NothingServed, Serving, UnderWay
<1>5. ASSUME Tick PROVE LInv'
  BY <1>5 DEF Tick, LInv, KeysKept, NothingServed, Serving, UnderWay, sso
<1> QED
  BY <1>1, <1>2, <1>3, <1>4, <1>5 DEF Environment, Terminate, ProbeFails

LEMMA NextKeeps ==
  LInv /\ [Next]_vars => LInv'
<1> SUFFICES ASSUME LInv, [Next]_vars PROVE LInv'
  OBVIOUS
<1>1. ASSUME UNCHANGED vars PROVE LInv'
  BY <1>1 DEF vars, LInv, KeysKept, NothingServed, Serving, UnderWay, sso
<1> QED
  BY <1>1, MainKeeps, ListenKeeps, ServeKeeps, EnvironmentKeeps DEF Next

LEMMA LInvHolds ==
  Spec => []LInv
BY InitStarts, NextKeeps, PTL DEF Spec

\* Only Authenticate refuses a request.
LEMMA WhoRefuses ==
  ASSUME LInv, Next, NEW r \in Requests, req[r].pc = "received", req'[r].answer = "unauthorized"
  PROVE  ~Known(req[r].key) /\ keys # None
<1>1. /\ req \in [Requests -> Request] /\ req[r].answer = None /\ None \notin {"ok", "unauthorized", "cut"}
      /\ Serving
  BY ServiceLifecycleAssumption DEF LInv, NothingServed, UnderWay
<1>2. keys # None
  BY <1>1 DEF LInv, KeysKept, Serving
<1>3. req' # req
  BY <1>1
<1>4. ~Exit
  <2> DEFINE q == req[r]
  <2>1. ASSUME Exit PROVE req'[r] = [q EXCEPT !.pc = "done", !.answer = "cut"]
    BY <2>1 DEF Exit, UnderWay
  <2>2. q \in Request
    BY <1>1
  <2> HIDE DEF q
  <2> QED
    BY <2>1, <2>2 DEF Request
<1>5. ~Main
  BY <1>3, <1>4 DEF Main, SyncCaches, LoadKeys, StartProxy, StartRegistrationService, Panic,
     BeginShutdown, CloseListener, ServerStopped, EndMain
<1>6. ~Environment
  BY <1>3, <1>4 DEF Environment, Terminate, ProbeFails, Signal, Kill, Restart, Rotate, Tick
<1>7. \A s \in Servers : ~Listen(s)
  BY <1>3 DEF Listen
<1>8. PICK p \in Requests : Serve(p)
  BY <1>5, <1>6, <1>7 DEF Next
<1>9. p = r /\ ~(\E s \in Servers, k \in Keys \cup {None} : Arrive(p, s, k)) /\ ~Handle(p)
  BY <1>1, <1>8 DEF Serve, Arrive, Authenticate, Handle, Answer, Request
<1>10. Authenticate(r)
  BY <1>8, <1>9 DEF Serve
<1> QED
  BY <1>1, <1>2, <1>10 DEF Authenticate, Request

\* A token is refused only if its key has come with a rotation since the process began
\* (InitializeDefaultTokenParser, fetchKeys).
THEOREM RefusalsFollowRotations == Spec => RefusedOnlyAfterRotation
<1>1. ASSUME LInv, Next, NEW r \in Requests, req[r].pc = "received", req'[r].answer = "unauthorized"
      PROVE  req[r].key \notin steady
  BY <1>1, WhoRefuses DEF LInv, KeysKept, Known
<1>2. LInv /\ [Next]_vars =>
        [\A r \in Requests :
           req[r].pc = "received" /\ req'[r].answer = "unauthorized" => req[r].key \notin steady]_vars
  BY <1>1
<1> QED
  BY <1>2, LInvHolds, PTL DEF Spec, RefusedOnlyAfterRotation
=============================================================================
