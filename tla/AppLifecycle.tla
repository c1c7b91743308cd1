---------------------------- MODULE AppLifecycle ----------------------------
(***************************************************************************)
(* The lifecycle of an App (src/app/app.go): Run starts every registered   *)
(* component in a goroutine of its own, waits for the first of them to     *)
(* return or for the context, walks through shutdown(), waits for the      *)
(* goroutines and returns the joined errors.                               *)
(*                                                                         *)
(* The components are the two the service runtime registers: the gRPC      *)
(* server (src/sdk/transport/grpc/server.go) and the HTTP gateway          *)
(* (src/sdk/gateway/gateway.go).  What their Serve and Shutdown do is      *)
(* decided by grpc-go and net/http; it is modelled from how the two        *)
(* wrappers use those libraries.  A request is only counted: inflight[c]   *)
(* is the number of handlers of c that are running.                        *)
(*                                                                         *)
(* Time is one event: the shutdown context expires.                        *)
(***************************************************************************)
EXTENDS Integers, Sequences

CONSTANTS
    NBefore,      \* number of before-shutdown hooks registered
    NComponents,  \* number of components registered
    NCleanups,    \* number of cleanup hooks registered
    Kind,         \* Kind[c] is "grpc" or "http"
    MaxInflight   \* bound on the requests a component handles at once

Component == 1..NComponents

ASSUME LifecycleAssumption ==
    /\ NBefore \in Nat
    /\ NComponents \in Nat
    /\ NCleanups \in Nat
    /\ MaxInflight \in Nat
    /\ Kind \in [Component -> {"grpc", "http"}]

VARIABLES
    ctxDone,      \* the context given to Run has been cancelled
    serve,        \* serve[c]: where the goroutine running c.Serve() is
    outcome,      \* outcome[c]: what c.Serve() returned
    server,       \* server[c]: how far c has been stopped
    inflight,     \* inflight[c]: handlers of c that are running
    errCh,        \* the buffered channel of results, oldest first
    chClosed,     \* errCh has been closed
    pc,           \* where Run is
    k,            \* the position of shutdown() in Plan
    busy,         \* the call at Plan[k] has been made and has not returned
    deadline,     \* the shutdown context: "unset", "armed" or "expired"
    runErr,       \* errors joined into runErr
    shutdownErr   \* errors joined into shutdownErr

componentVars == <<serve, outcome, server, inflight>>
runVars == <<pc, k, busy, runErr, shutdownErr, chClosed>>
vars == <<ctxDone, componentVars, errCh, runVars, deadline>>

-----------------------------------------------------------------------------
(***************************************************************************)
(* The calls shutdown() makes, in order: the before-shutdown hooks and the *)
(* components in registration order, then the cleanups in reverse.  No     *)
(* error ends the walk early.                                              *)
(***************************************************************************)
PlanLength == NBefore + NComponents + NCleanups

\* Mutant: the reverse loop over the cleanups is off by one.
PlanOffByOne == [i \in 1..PlanLength |->
           IF i <= NBefore THEN <<"before", i>>
           ELSE IF i <= NBefore + NComponents THEN <<"component", i - NBefore>>
           ELSE <<"cleanup", PlanLength - i>>]

Plan == [i \in 1..PlanLength |->
           IF i <= NBefore THEN <<"before", i>>
           ELSE IF i <= NBefore + NComponents THEN <<"component", i - NBefore>>
           ELSE <<"cleanup", PlanLength + 1 - i>>]

IsComponentCall == pc = "stopping" /\ k <= PlanLength /\ Plan[k][1] = "component"
IsHookCall == pc = "stopping" /\ k <= PlanLength /\ Plan[k][1] # "component"

Errors ==
    ({"before"} \X (1..NBefore)) \cup ({"component", "serve"} \X Component)
        \cup ({"cleanup"} \X (1..NCleanups)) \cup {<<"wait", 0>>}

Init ==
    /\ ctxDone = FALSE
    /\ serve = [c \in Component |-> "new"]
    /\ outcome = [c \in Component |-> "none"]
    /\ server = [c \in Component |-> "up"]
    /\ inflight = [c \in Component |-> 0]
    /\ errCh = <<>>
    /\ chClosed = FALSE
    /\ pc = "select"
    /\ k = 1
    /\ busy = FALSE
    /\ deadline = "unset"
    /\ runErr = {}
    /\ shutdownErr = {}

-----------------------------------------------------------------------------
(* The components.                                                         *)

\* The goroutine of c: errCh <- c.Serve(), then done with the wait group.
\* The channel has room for every component, so the send never blocks.
Exit(c, result) ==
    /\ serve' = [serve EXCEPT ![c] = "exited"]
    /\ outcome' = [outcome EXCEPT ![c] = result]
    /\ errCh' = Append(errCh, c)

\* Serve is entered.  On a server that was already told to stop it returns at
\* once: net/http answers ErrServerClosed, grpc-go an error of its own.
ServeStart(c) ==
    /\ serve[c] = "new"
    /\ IF server[c] = "up"
         THEN /\ serve' = [serve EXCEPT ![c] = "serving"]
              /\ UNCHANGED <<outcome, errCh>>
         ELSE Exit(c, IF Kind[c] = "grpc" THEN "err" ELSE "closed")
    /\ UNCHANGED <<ctxDone, server, inflight, runVars, deadline>>

\* The listener fails and Serve returns; open connections stay served.
ServeFail(c) ==
    /\ serve[c] = "serving"
    /\ server[c] = "up"
    /\ Exit(c, "err")
    /\ UNCHANGED <<ctxDone, server, inflight, runVars, deadline>>

\* Serve returns because the server stops: the HTTP one as soon as Shutdown
\* is called, the gRPC one when the stop is complete.
ServeReturn(c) ==
    /\ serve[c] = "serving"
    /\ \/ /\ Kind[c] = "http"
          /\ server[c] # "up"
          /\ Exit(c, "closed")
       \/ /\ Kind[c] = "grpc"
          /\ server[c] \in {"drained", "forced"}
          /\ Exit(c, "nil")
    /\ UNCHANGED <<ctxDone, server, inflight, runVars, deadline>>

\* A request reaches a handler.  Connections that are open when a graceful
\* stop begins may still deliver one.
Accept(c) ==
    /\ serve[c] # "new"
    /\ server[c] \in {"up", "draining"}
    /\ inflight[c] < MaxInflight
    /\ inflight' = [inflight EXCEPT ![c] = @ + 1]
    /\ UNCHANGED <<ctxDone, serve, outcome, server, errCh, runVars, deadline>>

Finish(c) ==
    /\ inflight[c] > 0
    /\ inflight' = [inflight EXCEPT ![c] = @ - 1]
    /\ UNCHANGED <<ctxDone, serve, outcome, server, errCh, runVars, deadline>>

\* GracefulStop, or the polling loop of http.Server.Shutdown, finds no
\* request left.
Drain(c) ==
    /\ server[c] = "draining"
    /\ inflight[c] = 0
    /\ server' = [server EXCEPT ![c] = "drained"]
    /\ UNCHANGED <<ctxDone, serve, outcome, inflight, errCh, runVars, deadline>>

-----------------------------------------------------------------------------
(* Run and shutdown.                                                       *)

Cancel ==
    /\ ~ctxDone
    /\ ctxDone' = TRUE
    /\ UNCHANGED <<componentVars, errCh, runVars, deadline>>

\* Leaving the first select creates the shutdown context and enters shutdown().
BeginShutdown ==
    /\ pc' = "stopping"
    /\ deadline' = "armed"
    /\ UNCHANGED <<ctxDone, componentVars, k, busy, shutdownErr, chClosed>>

\* A non-nil result other than http.ErrServerClosed.
ServeErrors(S) == {<<"serve", c>> : c \in {d \in S : outcome[d] = "err"}}

SelectResult ==
    /\ pc = "select"
    /\ errCh # <<>>
    /\ runErr' = ServeErrors({Head(errCh)})
    /\ errCh' = Tail(errCh)
    /\ BeginShutdown

SelectCtx ==
    /\ pc = "select"
    /\ ctxDone
    /\ BeginShutdown
    /\ UNCHANGED <<errCh, runErr>>

Expire ==
    /\ deadline = "armed"
    /\ pc # "done"
    /\ deadline' = "expired"
    /\ UNCHANGED <<ctxDone, componentVars, errCh, runVars>>

\* A hook or a cleanup is called.
CallHook ==
    /\ IsHookCall
    /\ ~busy
    /\ busy' = TRUE
    /\ UNCHANGED <<ctxDone, componentVars, errCh, pc, k, runErr, shutdownErr,
                   chClosed, deadline>>

\* c.Shutdown(ctx) is called: the graceful stop begins.
CallComponent ==
    /\ IsComponentCall
    /\ ~busy
    /\ busy' = TRUE
    /\ server' = [server EXCEPT ![Plan[k][2]] = "draining"]
    /\ UNCHANGED <<ctxDone, serve, outcome, inflight, errCh, pc, k, runErr,
                   shutdownErr, chClosed, deadline>>

\* The call at Plan[k] returns; an error is joined and the walk goes on.
Return(failed) ==
    /\ busy
    /\ busy' = FALSE
    /\ k' = k + 1
    /\ shutdownErr' = IF failed THEN shutdownErr \cup {Plan[k]} ELSE shutdownErr
    /\ UNCHANGED <<ctxDone, serve, outcome, inflight, errCh, pc, runErr,
                   chClosed, deadline>>

HookReturn ==
    /\ IsHookCall
    /\ \E failed \in BOOLEAN : Return(failed)
    /\ UNCHANGED server

\* Shutdown returns nil: the component drained in time.
ComponentDrained ==
    /\ IsComponentCall
    /\ server[Plan[k][2]] = "drained"
    /\ Return(FALSE)
    /\ UNCHANGED server

\* Mutant: the timeout is not reported as an error.
ComponentTimeoutSilent ==
    /\ IsComponentCall
    /\ deadline = "expired"
    /\ Return(FALSE)
    /\ server' = [server EXCEPT ![Plan[k][2]] =
                    IF @ = "drained" THEN "drained" ELSE "forced"]

\* Mutant: Shutdown waits for the graceful stop without watching the context.
ComponentTimeoutIgnored == FALSE /\ UNCHANGED vars

\* Mutant: the graceful stop is abandoned and not followed by Stop().
ComponentTimeoutNoStop ==
    /\ IsComponentCall
    /\ deadline = "expired"
    /\ Return(TRUE)
    /\ UNCHANGED server

\* Shutdown returns ctx.Err(): the gRPC server is stopped by force, the HTTP
\* server is left with the requests it has.  When the stop has completed too,
\* either branch of the select may be taken.
ComponentTimeout ==
    /\ IsComponentCall
    /\ deadline = "expired"
    /\ Return(TRUE)
    /\ server' = [server EXCEPT ![Plan[k][2]] =
                    IF @ = "drained" THEN "drained" ELSE "forced"]

EndShutdown ==
    /\ pc = "stopping"
    /\ k > PlanLength
    /\ pc' = "wait"
    /\ UNCHANGED <<ctxDone, componentVars, errCh, k, busy, runErr, shutdownErr,
                   chClosed, deadline>>

\* Mutant: the results left in the channel are not read.
WaitAllNoDrain ==
    /\ pc = "wait"
    /\ \A c \in Component : serve[c] = "exited"
    /\ chClosed' = TRUE
    /\ errCh' = <<>>
    /\ pc' = "done"
    /\ UNCHANGED <<ctxDone, componentVars, k, busy, runErr, shutdownErr, deadline>>

\* Every goroutine is done: the channel is closed and drained into runErr.
WaitAll ==
    /\ pc = "wait"
    /\ \A c \in Component : serve[c] = "exited"
    /\ chClosed' = TRUE
    /\ runErr' = runErr \cup ServeErrors({errCh[i] : i \in 1..Len(errCh)})
    /\ errCh' = <<>>
    /\ pc' = "done"
    /\ UNCHANGED <<ctxDone, componentVars, k, busy, shutdownErr, deadline>>

\* Mutant: the channel is closed after a timeout too.
WaitTimeoutCloses ==
    /\ pc = "wait"
    /\ deadline = "expired"
    /\ shutdownErr' = shutdownErr \cup {<<"wait", 0>>}
    /\ chClosed' = TRUE
    /\ pc' = "done"
    /\ UNCHANGED <<ctxDone, componentVars, errCh, k, busy, runErr, deadline>>

\* Mutant: giving up on the goroutines is not an error.
WaitTimeoutSilent ==
    /\ pc = "wait"
    /\ deadline = "expired"
    /\ pc' = "done"
    /\ UNCHANGED <<ctxDone, componentVars, errCh, k, busy, runErr, shutdownErr,
                   chClosed, deadline>>

\* The shutdown context expires first; results still to come are not read.
WaitTimeout ==
    /\ pc = "wait"
    /\ deadline = "expired"
    /\ shutdownErr' = shutdownErr \cup {<<"wait", 0>>}
    /\ pc' = "done"
    /\ UNCHANGED <<ctxDone, componentVars, errCh, k, busy, runErr, chClosed, deadline>>

ComponentStep(c) ==
    \/ ServeStart(c) \/ ServeFail(c) \/ ServeReturn(c)
    \/ Accept(c) \/ Finish(c) \/ Drain(c)

RunStep ==
    \/ SelectResult \/ SelectCtx
    \/ CallHook \/ CallComponent
    \/ HookReturn \/ ComponentDrained \/ ComponentTimeout
    \/ EndShutdown \/ WaitAll \/ WaitTimeout

Next == Cancel \/ Expire \/ RunStep \/ \E c \in Component : ComponentStep(c)

Spec == Init /\ [][Next]_vars

\* Goroutines that can run are scheduled, timers fire, GracefulStop and the
\* polling loop notice an idle server, and every hook returns (which nothing
\* bounds, app.go:131).  Nothing says that a request handler ever finishes.
Fairness ==
    /\ WF_vars(SelectResult \/ SelectCtx)
    /\ WF_vars(CallHook \/ CallComponent)
    /\ WF_vars(HookReturn)
    /\ WF_vars(ComponentDrained \/ ComponentTimeout)
    /\ WF_vars(EndShutdown)
    /\ WF_vars(WaitAll \/ WaitTimeout)
    /\ WF_vars(Expire)
    /\ \A c \in Component : WF_vars(ServeStart(c)) /\ WF_vars(ServeReturn(c)) /\ WF_vars(Drain(c))

FairSpec == Spec /\ Fairness

-----------------------------------------------------------------------------
(* Properties.                                                             *)

\* Type correctness.  The channel never holds more results than make() gave
\* it room for, so no component goroutine blocks on its send (app.go:70), and
\* every recorded error belongs to a registered hook or component.
TypeOK ==
    /\ ctxDone \in BOOLEAN
    /\ serve \in [Component -> {"new", "serving", "exited"}]
    /\ outcome \in [Component -> {"none", "nil", "closed", "err"}]
    /\ server \in [Component -> {"up", "draining", "drained", "forced"}]
    /\ inflight \in [Component -> 0..MaxInflight]
    /\ errCh \in Seq(Component) /\ Len(errCh) <= NComponents
    /\ chClosed \in BOOLEAN
    /\ pc \in {"select", "stopping", "wait", "done"}
    /\ k \in 1..PlanLength + 1
    /\ busy \in BOOLEAN
    /\ deadline \in {"unset", "armed", "expired"}
    /\ runErr \in SUBSET Errors
    /\ shutdownErr \in SUBSET Errors

\* A goroutine never sends on the closed channel, which would panic: close(errCh)
\* (app.go:106) happens only when every Serve has returned.
NoSendOnClosedChannel == chClosed => \A c \in Component : serve[c] = "exited"

\* shutdown() has returned from every component's Shutdown.
ComponentsAsked == k > NBefore + NComponents

\* A handler that is still running when the cleanups release its resources
\* belongs to a component whose Shutdown reported an error (app.go:124-135):
\* no request outlives its database pool or producer unnoticed.
OrphansReported ==
    ComponentsAsked => \A c \in Component :
        inflight[c] > 0 => <<"component", c>> \in shutdownErr

\* When Run returns nil everything it started is over: each Serve returned
\* without a failure and no handler is running (app.go:113).
NilMeansStopped ==
    pc = "done" /\ runErr \cup shutdownErr = {} =>
        \A c \in Component :
            /\ serve[c] = "exited"
            /\ outcome[c] \in {"nil", "closed"}
            /\ inflight[c] = 0

\* A failure of Serve is either part of what Run returns or Run says that it
\* did not wait for every component (app.go:98-112).
NoFailureLostSilently ==
    pc = "done" => \A c \in Component :
        outcome[c] = "err" => <<"serve", c>> \in runErr \/ <<"wait", 0>> \in shutdownErr

\* A component is told to stop only when every earlier one has stopped or was
\* given up on (app.go:67, "shut down in registration order").
StopsInRegistrationOrder ==
    \A c, d \in Component :
        c < d /\ server[d] # "up" => server[c] \in {"drained", "forced"}

\* Cancellation, or the return of one component, makes Run return, although
\* no handler is assumed to finish (app.go:80-113).
RunReturns == (ctxDone \/ errCh # <<>>) ~> (pc = "done")

\* Once Run is told to stop no component is left serving for ever: a graceful
\* stop that does not finish is forced (server.go:87-93).
EveryServeReturns == ctxDone ~> (\A c \in Component : serve[c] = "exited")

\* What service.go:77 says of the cleanup hooks: they run after the managed
\* components have stopped, that is, when none of them handles a request.
CleanupsAfterComponentsStop ==
    (IsHookCall /\ busy /\ Plan[k][1] = "cleanup") =>
        \A c \in Component : inflight[c] = 0
=============================================================================
