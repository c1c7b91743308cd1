--------------------------- MODULE ServiceRuntime ---------------------------
(***************************************************************************)
(* The service runtime (src/sdk/service/service.go): New puts together     *)
(* telemetry, health probes, the gRPC server and the HTTP gateway, and Run *)
(* hands them to the App, whose lifecycle is the module AppLifecycle.      *)
(*                                                                         *)
(* A REST request passes the policy middleware of the gateway              *)
(* (src/sdk/policy/policy.go) and is then answered by a probe handler      *)
(* (src/sdk/health/health.go) or forwarded to the gRPC server, where the   *)
(* interceptors of errx, policy and auth surround the handler.             *)
(***************************************************************************)
EXTENDS Integers, FiniteSets, Errx, Gateway, Clients

CONSTANTS
    Req,              \* REST requests that may be open at once
    UserHooks,        \* number of Options.BeforeShutdown hooks
    UserCleanups,     \* number of Options.Cleanup hooks
    Telemetry,        \* which of "metrics" and "tracer" are enabled
    RestOptions,      \* the gateway options New may be given
    Checks,           \* Checks[probe]: how the checks of a probe may end
    HandlerErrors,    \* the error chains a gRPC handler may return
    Failures,         \* REST policy: failures that open the circuit, 0 for none
    ConcurrencyLimit, \* REST policy: requests inside at once, 0 for no limit
    GrpcPolicy,       \* the gRPC policy interceptor is installed
    AuthEnabled       \* the API key interceptor is enabled

Grpc == 1
Rest == 2

\* The endpoints health.Register mounts.
Probes == {"live", "ready", "startup"}

ASSUME ServiceAssumption ==
    /\ UserHooks \in Nat /\ UserCleanups \in Nat
    /\ Telemetry \subseteq {"metrics", "tracer"} /\ Telemetry # {}
    /\ Failures \in Nat /\ ConcurrencyLimit \in Nat
    /\ IsFiniteSet(Req)

\* Handlers return errors that errx, grpc-go and the standard library build.
ASSUME ErrorsAssumption == \A chain \in HandlerErrors : IsChain(chain)

VARIABLES
    (* The App. *)
    ctxDone, serve, outcome, server, inflight, errCh, chClosed, pc, k, busy,
    deadline, runErr, shutdownErr,

    (* The runtime. *)
    new,              \* where New is
    held,             \* what New has acquired and nobody has released
    authKept,         \* the REST listener has the client policy it was given
    shuttingDown,     \* health: shuttingDown
    startupComplete,  \* health: startupComplete
    breaker,          \* REST policy: consecutive failures and whether it is open
    req,              \* req[r]: where request r is

    (* History: no part of the program. *)
    startupOk,        \* a startup probe has been answered with 200
    reply             \* the answer the last step gave, where a property is about it

appVars == <<ctxDone, serve, outcome, server, inflight, errCh, chClosed, pc, k,
             busy, deadline, runErr, shutdownErr>>
healthVars == <<shuttingDown, startupComplete, startupOk>>
newVars == <<new, held, authKept>>
vars == <<appVars, newVars, healthVars, breaker, req, reply>>

\* The App as New configures it: telemetry is the first cleanup it adds and the
\* gRPC server its first component.
App == INSTANCE AppLifecycle WITH
    NBefore <- 1 + UserHooks, NComponents <- 2, NCleanups <- 1 + UserCleanups,
    Kind <- <<"grpc", "http">>, MaxInflight <- Cardinality(Req)

\* Mutant: readiness is withdrawn after the hooks of the user.
MarkHookLast == <<"before", 1 + UserHooks>>

\* Mutant: readiness is withdrawn by a cleanup hook.
MarkHookCleanup == <<"cleanup", 1 + UserCleanups>>

\* The hook that calls MarkShuttingDown, and the cleanup that ends telemetry.
MarkHook == <<"before", 1>>

TelemetryCleanup == <<"cleanup", 1>>

NoReq == [at |-> "idle", kind |-> "", late |-> FALSE, down |-> FALSE, latched |-> FALSE,
          failed |-> FALSE]
NoReply == [kind |-> "", by |-> "", late |-> FALSE, status |-> 0, chain |-> <<>>, text |-> "",
            code |-> "OK"]

NoAnswer == reply' = NoReply

Init ==
    /\ App!Init
    /\ new = "begin"
    /\ held = {}
    /\ authKept = TRUE
    /\ shuttingDown = FALSE
    /\ startupComplete = FALSE
    /\ breaker = [n |-> 0, open |-> FALSE]
    /\ req = [r \in Req |-> NoReq]
    /\ startupOk = FALSE
    /\ reply = NoReply

-----------------------------------------------------------------------------
(* New.                                                                    *)

\* A missing name, or observability.Init fails: when the tracer does, the
\* meter provider is shut down again, but not an exporter that is open.
NewRefused ==
    /\ new = "begin"
    /\ new' = "failed"
    /\ \/ UNCHANGED held
       \/ /\ "tracer" \in Telemetry
          /\ \E cfg \in Specs.tracing, env \in Specs.otel : \E t \in InitTracer(cfg, env) :
               t.client = Nil /\ t.open
          /\ held' = {"exporter"}
    /\ UNCHANGED <<appVars, authKept, healthVars, breaker, req>>
    /\ NoAnswer

NewTelemetry ==
    /\ new = "begin"
    /\ new' = "grpc"
    /\ held' = Telemetry
    /\ UNCHANGED <<appVars, authKept, healthVars, breaker, req>>
    /\ NoAnswer

\* pgrpc.New: bad TLS settings, or TLS for a server that is already built, or
\* the address cannot be bound.
NewGRPC ==
    /\ new = "grpc"
    /\ \/ new' = "rest" /\ held' = held \cup {"grpcListener"}
       \/ new' = "failed" /\ UNCHANGED held
    /\ UNCHANGED <<appVars, authKept, healthVars, breaker, req>>
    /\ NoAnswer

\* gateway.New.
NewREST ==
    /\ new = "rest"
    /\ \E opts \in RestOptions : \E out \in GatewayNew(opts) :
         /\ new' = CASE out.result = "ok" -> "running"
                     [] out.result = "error" -> "failed"
                     [] out.result = "panic" -> "crashed"
         /\ held' = IF out.bound THEN held \cup {"restListener"} ELSE held
         /\ authKept' = (out.result = "ok" =>
                           opts.asked = (IF out.tls = Nil THEN "none" ELSE out.tls.auth))
    /\ UNCHANGED <<appVars, healthVars, breaker, req>>
    /\ NoAnswer

-----------------------------------------------------------------------------
(* Run: the steps of the App, with what the registered hooks do.           *)

AppServes(c) ==
    /\ new = "running"
    /\ App!ServeStart(c) \/ App!ServeFail(c) \/ App!ServeReturn(c) \/ App!Drain(c)
    /\ UNCHANGED <<newVars, healthVars, breaker, req>>
    /\ NoAnswer

AppRuns ==
    /\ new = "running"
    /\ \/ App!Cancel \/ App!Expire
       \/ App!SelectResult \/ App!SelectCtx
       \/ App!CallHook \/ App!CallComponent \/ App!ComponentDrained \/ App!ComponentTimeout
       \/ App!EndShutdown \/ App!WaitAll \/ App!WaitTimeout
    /\ UNCHANGED <<newVars, healthVars, breaker, req>>
    /\ NoAnswer

MarkShuttingDown(marks) == shuttingDown' = (shuttingDown \/ marks)

HookReturns ==
    /\ new = "running"
    /\ App!HookReturn
    /\ App!Plan[k] = MarkHook => shutdownErr' = shutdownErr
    /\ MarkShuttingDown(App!Plan[k] = MarkHook)
    /\ held' = IF App!Plan[k] = TelemetryCleanup THEN held \ Telemetry ELSE held
    /\ UNCHANGED <<new, authKept, startupComplete, startupOk, breaker, req>>
    /\ NoAnswer

-----------------------------------------------------------------------------
(* The REST policy middleware.                                             *)

Inside == {r \in Req : req[r].at # "idle"}

\* The circuit is open or the semaphore full: Do refuses the request.
Refused ==
    \/ Failures > 0 /\ breaker.open
    \/ ConcurrencyLimit > 0 /\ Cardinality(Inside) = ConcurrencyLimit

\* Mutant: the count is not reset when the circuit opens.
VerdictKeepsCount(status) ==
    breaker' =
        IF Failures = 0 THEN breaker
        ELSE IF status < 500 THEN [n |-> 0, open |-> FALSE]
        ELSE [n |-> breaker.n + 1, open |-> breaker.open \/ breaker.n + 1 >= Failures]

\* The verdict of Do: a buffered answer of 500 or more is a failure.
Verdict(status) ==
    breaker' =
        IF Failures = 0 THEN breaker
        ELSE IF status < 500 THEN [n |-> 0, open |-> FALSE]
        ELSE IF breaker.n + 1 >= Failures THEN [n |-> 0, open |-> TRUE]
        ELSE [breaker EXCEPT !.n = @ + 1]

\* OpenFor has passed.
CircuitCloses ==
    /\ breaker.open
    /\ breaker' = [breaker EXCEPT !.open = FALSE]
    /\ UNCHANGED <<appVars, newVars, healthVars, req>>
    /\ NoAnswer

\* An answer to a liveness probe that must not know of the shutdown.
LiveInShutdown(kind) == kind = "live" /\ shuttingDown

\* Request r is answered and its handler returns.
Answer(r, status, by) ==
    /\ reply' = IF req[r].late \/ by = "outage" \/ LiveInShutdown(req[r].kind)
                  THEN [NoReply EXCEPT !.kind = req[r].kind, !.by = by, !.late = req[r].late,
                                       !.status = status]
                  ELSE NoReply
    /\ req' = [req EXCEPT ![r] = NoReq]
    /\ Verdict(status)
    /\ App!Finish(Rest)

\* Whether the event that a probe must know of is over: for readiness the hook
\* that calls MarkShuttingDown, for startup an answer of 200.
Late(kind) ==
    \/ kind = "ready" /\ pc # "select" /\ k > 1
    \/ kind = "startup" /\ startupOk

\* A request is admitted.  A probe handler loads the two flags before anything
\* else (the model keeps the one its probe uses).
Arrive(r, kind) ==
    /\ new = "running"
    /\ req[r].at = "idle"
    /\ ~Refused
    /\ App!Accept(Rest)
    /\ req' = [req EXCEPT ![r] =
                 [at |-> IF kind = "api" THEN "forward" ELSE "checks",
                  kind |-> kind,
                  late |-> Late(kind),
                  down |-> kind = "ready" /\ shuttingDown,
                  latched |-> kind = "startup" /\ startupComplete,
                  failed |-> FALSE]]
    /\ UNCHANGED <<newVars, healthVars, breaker>>
    /\ NoAnswer

\* A request is refused by the middleware, which answers 503.
Turn(kind) ==
    /\ new = "running"
    /\ Refused
    /\ serve[Rest] # "new"
    /\ server[Rest] \in {"up", "draining"}
    /\ reply' = IF LiveInShutdown(kind)
                  THEN [NoReply EXCEPT !.kind = kind, !.by = "policy", !.status = 503]
                  ELSE NoReply
    /\ UNCHANGED <<appVars, newVars, healthVars, breaker, req>>

-----------------------------------------------------------------------------
(* The probe handlers.                                                     *)

CheckStatus(result) ==
    CASE result = "ok" -> 200 [] result = "fail" -> 503 [] result = "panic" -> 500

\* The checks have run (none, when startup is latched) and the answer is
\* written; a startup probe that succeeds latches.  A check that panics is
\* caught by the middleware.
Probe(r, result) ==
    LET q == req[r]
        status == IF q.kind = "ready" /\ q.down /\ result # "panic" THEN 503
                  ELSE IF q.kind = "startup" /\ q.latched THEN 200
                  ELSE CheckStatus(result)
    IN
    /\ q.at = "checks"
    /\ startupComplete' = (startupComplete \/ (q.kind = "startup" /\ status = 200))
    /\ startupOk' = (startupOk \/ (q.kind = "startup" /\ status = 200))
    /\ Answer(r, status, "probe")
    /\ UNCHANGED <<newVars, shuttingDown>>

-----------------------------------------------------------------------------
(* Requests that go through to the gRPC server.                            *)

\* grpcError: an error that is or wraps context.DeadlineExceeded is replaced by
\* a status with the text of the chain.
GrpcError(chain) ==
    IF HasLink(chain, "deadline")
      THEN <<[kind |-> "status", code |-> "DeadlineExceeded",
              message |-> ErrorText(chain), details |-> {}]>>
      ELSE chain

\* The policy interceptor: one attempt, and the error of Do is translated.  (What
\* Do itself does, and refuses, is PolicyExecutor.)
GRPCUnaryServerInterceptor(chain) == IF GrpcPolicy THEN GrpcError(chain) ELSE chain

\* authorize: the API key of the call is missing, unknown or known.
Authorize(key) ==
    IF ~AuthEnabled \/ key = "known" THEN <<>>
    ELSE <<[kind |-> "app", error |->
             IF key = "missing" THEN NewError("Unauthenticated", "internal", "public", <<>>)
             ELSE NewError("PermissionDenied", "internal", "public", <<>>)]>>

\* The interceptors, outermost first: errx, policy, auth, then the handler.
GrpcAnswer(chain) == GRPCStatus(ServerError(GRPCUnaryServerInterceptor(chain)))

\* grpc-gateway: runtime.HTTPStatusFromCode.
HTTPStatusFromCode(code) ==
    CASE code = "OK" -> 200 [] code = "InvalidArgument" -> 400
      [] code = "Unauthenticated" -> 401 [] code = "PermissionDenied" -> 403
      [] code = "NotFound" -> 404 [] code = "Canceled" -> 499
      [] code = "Unavailable" -> 503 [] code = "DeadlineExceeded" -> 504
      [] OTHER -> 500

\* The call reaches a handler of the gRPC server.
Forward(r) ==
    /\ req[r].at = "forward"
    /\ App!Accept(Grpc)
    /\ req' = [req EXCEPT ![r].at = "backend"]
    /\ UNCHANGED <<newVars, healthVars, breaker>>
    /\ NoAnswer

\* The gRPC server answers the call: chain is the error of the interceptors
\* inside errx, <<>> for success.
BackendDone(r, chain) ==
    /\ req[r].at = "backend"
    /\ server[Grpc] # "forced"
    /\ App!Finish(Grpc)
    /\ LET st == IF chain = <<>> THEN [code |-> "OK", message |-> ""] ELSE GrpcAnswer(chain) IN
       /\ req' = [req EXCEPT ![r].at = "relay",
                             ![r].failed = HTTPStatusFromCode(st.code) >= 500]
       /\ reply' = [NoReply EXCEPT !.kind = "api", !.by = "grpc", !.chain = chain,
                                   !.text = st.message, !.code = st.code]
    /\ UNCHANGED <<newVars, healthVars, breaker>>

Backend(r) ==
    \E chain \in {Authorize(key) : key \in {"missing", "unknown"}}
                  \cup HandlerErrors \cup {<<>>} : BackendDone(r, chain)

\* The gateway answers; 500 stands for every 5xx status and 200 for the others.
Relay(r) ==
    /\ req[r].at = "relay"
    /\ Answer(r, IF req[r].failed THEN 500 ELSE 200, "relay")
    /\ UNCHANGED <<newVars, healthVars>>

\* The connection is refused, or cut by Stop: the gateway answers Unavailable.
\* The handler of a call that was cut may still be running.
Outage(r) ==
    /\ \/ req[r].at = "forward" /\ (server[Grpc] # "up" \/ serve[Grpc] = "exited")
       \/ req[r].at = "backend" /\ server[Grpc] = "forced"
    /\ Answer(r, HTTPStatusFromCode("Unavailable"), "outage")
    /\ UNCHANGED <<newVars, healthVars>>

OrphanFinishes ==
    /\ inflight[Grpc] > Cardinality({r \in Req : req[r].at = "backend"})
    /\ App!Finish(Grpc)
    /\ UNCHANGED <<newVars, healthVars, breaker, req>>
    /\ NoAnswer

Request(r) ==
    \/ \E kind \in Probes \cup {"api"} : Arrive(r, kind)
    \/ \E result \in Checks[req[r].kind] : Probe(r, result)
    \/ Forward(r) \/ Backend(r) \/ Relay(r) \/ Outage(r)

Next ==
    \/ NewRefused \/ NewTelemetry \/ NewGRPC \/ NewREST
    \/ \E c \in {Grpc, Rest} : AppServes(c)
    \/ AppRuns \/ HookReturns
    \/ \E kind \in Probes \cup {"api"} : Turn(kind)
    \/ \E r \in Req : Request(r)
    \/ OrphanFinishes \/ CircuitCloses

Spec == Init /\ [][Next]_vars

-----------------------------------------------------------------------------
(* Properties.                                                             *)

\* Type correctness.  The gateway counts exactly the requests that are inside,
\* and the breaker's count stays below its threshold (policy.go:413).
TypeOK ==
    /\ new \in {"begin", "grpc", "rest", "running", "failed", "crashed"}
    /\ held \subseteq Telemetry \cup {"exporter", "grpcListener", "restListener"}
    /\ {authKept, shuttingDown, startupComplete, startupOk} \subseteq BOOLEAN
    /\ breaker \in [n : 0..(IF Failures = 0 THEN 0 ELSE Failures - 1), open : BOOLEAN]
    /\ \A r \in Req : req[r].at \in {"idle", "checks", "forward", "backend", "relay"}
    /\ inflight[Rest] = Cardinality(Inside)
    /\ inflight[Grpc] >= Cardinality({r \in Req : req[r].at = "backend"})

\* A readiness probe that arrives once the App has begun with the hooks of the
\* user, or with the components, is never told that the service is ready, and
\* a startup probe that arrives after one was answered with 200 is never
\* refused by the handler, whatever its checks say by then (health.go:83-128,
\* service.go:160-168).
ProbesKnow ==
    reply.late => IF reply.kind = "ready" THEN reply.status # 200 ELSE reply.status = 200

\* No request is turned away by the gRPC server behind the gateway before
\* readiness has been withdrawn, unless the server itself failed: the order in
\* which New registers the hook and the components, and in which the App goes
\* through them (service.go:160-207, app.go:115-135).
OutageAfterWithdrawal ==
    reply.by = "outage" => shuttingDown \/ outcome[Grpc] = "err"

\* Telemetry is shut down last: when it is gone no cleanup of the user is left
\* to run, and a request that is still inside the gateway belongs to a shutdown
\* that reports it (service.go:146-153, app.go:130-135).
TelemetryLast ==
    new = "running" /\ held \cap Telemetry = {} =>
        /\ k > App!PlanLength
        /\ Inside # {} => <<"component", Rest>> \in shutdownErr

\* What goes down before what, at every step of a shutdown (service.go:146-207,
\* app.go:115-135).
ShutdownOrder == OutageAfterWithdrawal /\ TelemetryLast

\* Where New gives up it holds no REST listener, and telemetry wholly or not at
\* all (gateway.go:102-107, observability.go:42-47); what it may still hold is
\* the gRPC listener with telemetry, or an exporter without a tracer and nothing
\* else, which nobody can release (service.go:204, tracing.go:66).
\* Where it succeeds the gateway asks its clients for the certificates its
\* configuration message asks for: no setting is dropped on the way to the
\* listener (tlsconfig.go:127-144, 194-230).
NewIsSound ==
    /\ new \in {"failed", "crashed"} =>
         /\ "restListener" \notin held
         /\ held \cap Telemetry \in {{}, Telemetry}
         /\ "grpcListener" \in held => Telemetry \subseteq held
    /\ "exporter" \in held => new = "failed" /\ held = {"exporter"}
    /\ new = "running" => authKept

\* What is constructed at the start of a service, the runtime and the clients it
\* is given, is sound.
ConstructionSound == NewIsSound /\ ClientsSound

\* What an error of a handler becomes for a gRPC client: the code is the one
\* errx.Code reports on the server, the text is the public message of the
\* application error in the chain, and both survive the client interceptor.
\* There are two ways round it.  The policy interceptor replaces an error that
\* wraps a deadline by a status with the text of the whole chain
\* (policy.go:293), and the message of a wrapped status is that text too
\* (errx.go:345).
WireErrors ==
    reply.by = "grpc" /\ reply.chain # <<>> =>
        LET chain == reply.chain
            replaced == GrpcPolicy /\ HasLink(chain, "deadline")
            seen == Normalize(Received([code |-> reply.code, message |-> reply.text,
                                        details |-> {NoMetadata}]), <<>>)
        IN  /\ reply.code = (IF replaced THEN "DeadlineExceeded" ELSE FromError(chain).code)
            /\ ~replaced /\ HasLink(chain, "app") => reply.text = AppOf(chain).public
            /\ reply.text = "internal" => replaced \/ FirstLink(chain, "status") > 1
            /\ seen.code = reply.code /\ seen.public = reply.text

\* What health.go:78 says of MarkShuttingDown: it keeps liveness intact, so a
\* liveness probe whose checks pass is answered with 200 during shutdown.
LivenessIntact == shuttingDown /\ reply.kind = "live" => reply.status = 200
=============================================================================
