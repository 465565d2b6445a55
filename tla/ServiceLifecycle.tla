--------------------------- MODULE ServiceLifecycle ---------------------------
(***************************************************************************)
(* The life of one process of the service: main and gracefulShutdown of    *)
(* cmd/main.go, the four HTTP servers it starts, the keys its token parser *)
(* goes by (pkg/auth), and its health endpoint.                            *)
(*                                                                         *)
(* main goes through its stages one after the other; an error panics.  The *)
(* servers listen in goroutines of their own.  The kubelet probes the      *)
(* health endpoint, stops the process with a signal, and starts it again.  *)
(***************************************************************************)
EXTENDS Naturals, Sequences

CONSTANTS
  Keys,             \* ids of the keys the SSO signs tokens with
  MaxRequests,      \* bound: requests that arrive
  MaxStarts,        \* bound: starts of the process
  GracefulTimeout,  \* configuration.GracefulTimeout, in ticks
  Faults,           \* what may go wrong
  None              \* no key set, no key, no answer yet

ASSUME ServiceLifecycleAssumption ==
  /\ MaxRequests \in Nat /\ MaxStarts \in Nat /\ GracefulTimeout \in Nat
  /\ Faults \subseteq {"startup", "listen", "rotate", "signal", "overdue"}
  /\ None \notin Keys \cup {"ok", "unauthorized", "cut"} /\ \A ks \in SUBSET Keys : None # ks

VARIABLES
  main,       \* where main is
  stopped,    \* how many servers gracefulShutdown is through with
  signalled,  \* whether the context of SetupSignalHandler is cancelled
  elapsed,    \* the time since then
  keys,       \* the keys of the default token parser, None without a parser
  listener,   \* listener[s]: whether server s listens
  req,        \* req[r]: where the handler of request r is
  published,  \* the keys the SSO publishes now
  steady,     \* the ones it has published ever since the process began: history only
  starts      \* how often the process has been started

sso == <<published, steady>>

vars == <<main, stopped, signalled, elapsed, keys, listener, req, sso, starts>>

-----------------------------------------------------------------------------

Servers == {"regsvc", "regsvcMetrics", "proxy", "proxyMetrics"}

\* The order in which main hands them to gracefulShutdown.
ShutdownOrder == <<"regsvc", "regsvcMetrics", "proxy", "proxyMetrics">>

Requests == 1 .. MaxRequests

Request == [pc     : {"idle", "received", "handling", "done"},
            server : Servers \cup {None},
            key    : Keys \cup {None},  \* that signed the token; None on an endpoint without authentication
            answer : {"ok", "unauthorized", "cut", None}]

Idle == [pc |-> "idle", server |-> None, key |-> None, answer |-> None]

UnderWay(r) == req[r].pc \in {"received", "handling"}

Active(s) == {r \in Requests : UnderWay(r) /\ req[r].server = s}

Answer(r, a) == req' = [req EXCEPT ![r].pc = "done", ![r].answer = a]

\* The stages of main.
NextStage(stage) ==
  CASE stage = "sync" -> "parser" [] stage = "parser" -> "proxy"
    [] stage = "proxy" -> "regsvc" [] stage = "regsvc" -> "wait"

\* The process is gone, and with it its requests, servers and keys.
Exit ==
  /\ main' = "exited"
  /\ stopped' = 0
  /\ keys' = None
  /\ listener' = [s \in Servers |-> "down"]
  /\ req' = [r \in Requests |->
               IF UnderWay(r) THEN [req[r] EXCEPT !.pc = "done", !.answer = "cut"] ELSE req[r]]
  /\ UNCHANGED <<signalled, elapsed, sso, starts>>

-----------------------------------------------------------------------------
(* main                                                                    *)

\* newCachedClient starts the caches with the context of the signal handler, waits for them
\* and lists every kind of resource once, unless it is interrupted.
SyncCaches ==
  /\ main = "sync"
  /\ ~signalled
  /\ main' = NextStage(main)
  /\ UNCHANGED <<stopped, signalled, elapsed, keys, listener, req, sso, starts>>

\* Mutated: the key map is left with one entry.
FetchedOne == {CHOOSE k \in published : TRUE}

\* What fetchKeys puts into the key map.
Fetched == published

\* InitializeDefaultTokenParser fetches the keys, this once, for as long as the SSO takes: the
\* call has no timeout, and the signal does not end it.
LoadKeys ==
  /\ main = "parser"
  /\ main' = NextStage(main)
  /\ keys' = Fetched
  /\ UNCHANGED <<stopped, signalled, elapsed, listener, req, sso, starts>>

\* NewProxy wants the token parser.
StartProxy ==
  /\ main = "proxy"
  /\ keys # None
  /\ main' = NextStage(main)
  /\ listener' = [listener EXCEPT !["proxyMetrics"] = "starting", !["proxy"] = "starting"]
  /\ UNCHANGED <<stopped, signalled, elapsed, keys, req, sso, starts>>

StartRegistrationService ==
  /\ main = "regsvc"
  /\ main' = NextStage(main)
  /\ listener' = [listener EXCEPT !["regsvcMetrics"] = "starting", !["regsvc"] = "starting"]
  /\ UNCHANGED <<stopped, signalled, elapsed, keys, req, sso, starts>>

\* An error of any of these panics; so does the client when it is interrupted.
Panic ==
  /\ main \in {"sync", "parser", "proxy", "regsvc"}
  /\ \/ "startup" \in Faults
     \/ main = "sync" /\ signalled
  /\ Exit

\* The goroutine of server s listens, or logs that it cannot and ends.  A server that has been
\* shut down before does not listen any more.
Listen(s) ==
  /\ listener[s] = "starting"
  /\ \E state \in {"open"} \cup (IF "listen" \in Faults THEN {"failed"} ELSE {}) :
       listener' = [listener EXCEPT ![s] = state]
  /\ UNCHANGED <<main, stopped, signalled, elapsed, keys, req, sso, starts>>

-----------------------------------------------------------------------------
(* gracefulShutdown                                                        *)

\* Mutated: the servers may take as long as they like.
NoDeadline == FALSE

\* The context that Shutdown is given is done: it has timed out, or its parent, which is the
\* context of the signal handler, is.
DeadlinePassed == signalled \/ elapsed >= GracefulTimeout

BeginShutdown ==
  /\ main = "wait"
  /\ signalled
  /\ main' = "stop"
  /\ UNCHANGED <<stopped, signalled, elapsed, keys, listener, req, sso, starts>>

\* Shutdown of the next server closes its listener.
CloseListener ==
  LET s == ShutdownOrder[stopped + 1] IN
    /\ main = "stop" /\ stopped < Len(ShutdownOrder)
    /\ listener[s] # "closed"
    /\ listener' = [listener EXCEPT ![s] = "closed"]
    /\ UNCHANGED <<main, stopped, signalled, elapsed, keys, req, sso, starts>>

\* It returns when the server has nothing left to do, or its context is done.
ServerStopped ==
  LET s == ShutdownOrder[stopped + 1] IN
    /\ main = "stop" /\ stopped < Len(ShutdownOrder)
    /\ listener[s] = "closed"
    /\ Active(s) = {} \/ DeadlinePassed
    /\ stopped' = stopped + 1
    /\ UNCHANGED <<main, signalled, elapsed, keys, listener, req, sso, starts>>

\* main returns.
EndMain ==
  /\ main = "stop" /\ stopped = Len(ShutdownOrder)
  /\ Exit

-----------------------------------------------------------------------------
(* Requests                                                                *)

\* A request comes in on a connection to server s, with a token signed with key k or, to an
\* endpoint that needs none, without.
Arrive(r, s, k) ==
  /\ listener[s] = "open"
  /\ req[r].pc = "idle"
  /\ \A q \in Requests : q < r => req[q].pc # "idle"
  /\ k # None => s \in {"regsvc", "proxy"}
  /\ req' = [req EXCEPT ![r] = [pc |-> IF k = None THEN "handling" ELSE "received",
                                server |-> s, key |-> k, answer |-> None]]
  /\ UNCHANGED <<main, stopped, signalled, elapsed, keys, listener, sso, starts>>

\* FromString of the token parser finds the key of the token.
Known(k) == keys # None /\ k \in keys

\* The JWT middleware, or the addUserContext of the proxy.
Authenticate(r) ==
  /\ req[r].pc = "received"
  /\ IF Known(req[r].key) THEN req' = [req EXCEPT ![r].pc = "handling"]
                          ELSE Answer(r, "unauthorized")
  /\ UNCHANGED <<main, stopped, signalled, elapsed, keys, listener, sso, starts>>

\* The handler answers.
Handle(r) ==
  /\ req[r].pc = "handling"
  /\ Answer(r, "ok")
  /\ UNCHANGED <<main, stopped, signalled, elapsed, keys, listener, sso, starts>>

\* Mutated: the health endpoint answers for itself only.
AliveAnyway == TRUE

\* What the health endpoint answers: it asks the proxy of the same process.
Alive == listener["proxy"] = "open"

-----------------------------------------------------------------------------
(* The environment: kubelet, SSO, clock.                                   *)

\* The process is told to stop.
Signal ==
  /\ signalled' = TRUE
  /\ UNCHANGED <<main, stopped, elapsed, keys, listener, req, sso, starts>>

Terminate ==
  /\ "signal" \in Faults
  /\ main # "exited"
  /\ ~signalled
  /\ Signal

\* The probe of a process that has started fails: nobody listens, or the answer is not alive.
ProbeFails ==
  /\ main = "wait"
  /\ ~signalled
  /\ \/ listener["regsvc"] = "failed"
     \/ listener["regsvc"] = "open" /\ ~Alive
  /\ Signal

\* The grace period of the pod is over.
Kill ==
  /\ "overdue" \in Faults
  /\ signalled /\ elapsed >= GracefulTimeout
  /\ main # "exited"
  /\ Exit

Restart ==
  /\ main = "exited"
  /\ starts < MaxStarts
  /\ starts' = starts + 1
  /\ main' = "sync"
  /\ signalled' = FALSE
  /\ elapsed' = 0
  /\ steady' = published
  /\ UNCHANGED <<stopped, keys, listener, req, published>>

\* The SSO signs with other keys from now on.
Rotate ==
  /\ "rotate" \in Faults
  /\ \E other \in (SUBSET Keys) \ {{}, published} :
       /\ published' = other
       /\ steady' = steady \cap other
  /\ UNCHANGED <<main, stopped, signalled, elapsed, keys, listener, req, starts>>

Tick ==
  /\ signalled /\ main # "exited"
  /\ elapsed < GracefulTimeout
  /\ elapsed' = elapsed + 1
  /\ UNCHANGED <<main, stopped, signalled, keys, listener, req, sso, starts>>

-----------------------------------------------------------------------------

Init ==
  /\ main = "sync" /\ stopped = 0
  /\ signalled = FALSE /\ elapsed = 0
  /\ keys = None
  /\ listener = [s \in Servers |-> "down"]
  /\ req = [r \in Requests |-> Idle]
  /\ published \in (SUBSET Keys) \ {{}}
  /\ steady = published
  /\ starts = 1

Main ==
  \/ SyncCaches
  \/ LoadKeys
  \/ StartProxy
  \/ StartRegistrationService
  \/ Panic
  \/ BeginShutdown
  \/ CloseListener
  \/ ServerStopped
  \/ EndMain

Serve(r) ==
  \/ \E s \in Servers, k \in Keys \cup {None} : Arrive(r, s, k)
  \/ Authenticate(r)
  \/ Handle(r)

Environment == Terminate \/ ProbeFails \/ Kill \/ Restart \/ Rotate \/ Tick

Next ==
  \/ Main
  \/ \E s \in Servers : Listen(s)
  \/ \E r \in Requests : Serve(r)
  \/ Environment

\* main and the goroutines of the servers keep running, time passes, and the kubelet probes.
\* Nothing is promised of the SSO, which may never answer the call for the keys, nor about
\* handlers: a watch through the proxy lasts as long as the client wants it to.
Fairness ==
  /\ WF_vars(main # "parser" /\ Main)
  /\ \A s \in Servers : WF_vars(Listen(s))
  /\ WF_vars(ProbeFails)
  /\ WF_vars(Tick)

Spec == Init /\ [][Next]_vars /\ Fairness

-----------------------------------------------------------------------------
(* What the service promises.                                              *)

\* A process that has been told to stop does stop at any stage but the one that fetches the
\* keys, which the signal does not interrupt (keymanager.go:144-149): main goes through the
\* stages that are left, and gracefulShutdown waits for no request that may last for ever, as
\* a watch through the proxy does.
ShutdownEnds == signalled /\ main # "parser" ~> main = "exited"

\* Both servers that serve users are watched.  One that could not listen, which is only
\* logged while main waits on, is replaced with the whole process, because the health endpoint
\* of the one answers for the other.  (The metrics servers are not watched.)
DeadServersReplaced == \A s \in {"regsvc", "proxy"} : listener[s] = "failed" ~> main = "exited"

\* A token is refused only if its key has come with a rotation since the process began: the
\* keys that were there at the start and have stayed are known, though they were fetched once
\* and are never fetched again.
RefusedOnlyAfterRotation ==
  [][\A r \in Requests :
       req[r].pc = "received" /\ req'[r].answer = "unauthorized" => req[r].key \notin steady]_vars

\* The shutdown is graceful: main cuts a request off only when the timeout it logs is over.
\* ("Shutdown with timeout", main.go:155; "allow for graceful shutdown", main.go:134.)
CutsWaitForTheTimeout ==
  [][\A r \in Requests :
       main = "stop" /\ UnderWay(r) /\ req'[r].answer = "cut" => elapsed >= GracefulTimeout]_vars

===============================================================================
