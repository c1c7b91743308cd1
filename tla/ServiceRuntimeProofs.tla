------------------------ MODULE ServiceRuntimeProofs ------------------------
(* Proofs about ServiceRuntime, for any set of requests, any hooks and      *)
(* cleanups of the user, any checks, gateway options and handler errors.    *)
EXTENDS ServiceRuntime, FiniteSetTheorems, WellFoundedInduction, TLAPS

-----------------------------------------------------------------------------
(* What the operators of Errx make of a chain, whatever its links.           *)

\* The smallest of some natural numbers is one of them.
LEMMA MinNat ==
    ASSUME NEW I \in SUBSET Nat, I # {}
    PROVE  Min(I) \in I
<1> DEFINE R == OpToRel(<, Nat)
<1>1. PICK x \in I : \A y \in I : ~(<<y, x>> \in R)
  <2>1. IsWellFoundedOn(R, Nat)
    BY NatLessThanWellFounded
  <2> HIDE DEF R
  <2>. QED
    BY <2>1, WFMin
<1>2. \A y \in I : <<y, x>> \in R <=> y < x
  BY DEF OpToRel
<1>3. \A y \in I : ~(y < x)
  BY <1>1, <1>2, Zenon
<1>4. \A y \in I : x <= y
  BY <1>3
<1>. QED
  BY <1>4 DEF Min

\* FirstLink finds a link of the kind where there is one.
LEMMA FirstLinkFound ==
    ASSUME NEW chain, NEW kind, Len(chain) \in Nat, FirstLink(chain, kind) # 0
    PROVE  /\ FirstLink(chain, kind) \in 1..Len(chain)
           /\ chain[FirstLink(chain, kind)].kind = kind
<1> DEFINE I == {j \in 1..Len(chain) : chain[j].kind = kind}
<1>1. FirstLink(chain, kind) = IF I # {} THEN Min(I) ELSE 0
  BY DEF FirstLink, SelectInSeq
<1>2. I \in SUBSET Nat
  OBVIOUS
<1>3. I # {} => Min(I) \in I
  BY <1>2, MinNat
<1>. QED
  BY <1>1, <1>3

LEMMA FirstLinkSingle ==
    ASSUME NEW link, NEW kind
    PROVE  FirstLink(<<link>>, kind) = IF link.kind = kind THEN 1 ELSE 0
<1> DEFINE I == {j \in 1..Len(<<link>>) : <<link>>[j].kind = kind}
<1>1. FirstLink(<<link>>, kind) = IF I # {} THEN Min(I) ELSE 0
  BY DEF FirstLink, SelectInSeq
<1>2. I = IF link.kind = kind THEN {1} ELSE {}
  OBVIOUS
<1>3. Min({1}) = 1
  BY MinNat
<1>. QED
  BY <1>1, <1>2, <1>3

OrDefault(text) == IF text = "" THEN "default" ELSE text
FirstText(text, other) == IF text = "" THEN other ELSE text

\* finalizeMessages leaves the code alone and the public text never empty.
LEMMA Finalized ==
    ASSUME NEW e, IsRecord(e)
    PROVE  /\ IsRecord(FinalizeMessages(e))
           /\ FinalizeMessages(e).code = e.code
           /\ FinalizeMessages(e).public = OrDefault(e.public)
<1> DEFINE public  == OrDefault(e.public)
           message == IF e.message = "" THEN ErrorText(e.cause) ELSE e.message
           text == IF message = "" THEN public ELSE message
<1>1. FinalizeMessages(e) = [e EXCEPT !.public = public, !.message = text]
  BY DEF FinalizeMessages, OrDefault
<1> HIDE DEF public, text
<1>2. FinalizeMessages(e) = [code |-> e.code, message |-> text, public |-> public,
                             fields |-> e.fields, cause |-> e.cause]
  BY <1>1 DEF IsRecord
<1>. QED
  BY <1>2 DEF public, IsRecord

\* The public text of a status: that of its metadata, or its message.
StatusText(st) ==
    LET metadata == IF HasErrxDetails(st) THEN CHOOSE m \in st.details : TRUE ELSE NoMetadata
    IN  IF metadata.public = "" THEN st.message ELSE metadata.public

LEMMA FromStatusFacts ==
    ASSUME NEW st, NEW chain
    PROVE  /\ IsRecord(FromStatus(st, chain))
           /\ FromStatus(st, chain).code = NormalizeCode(st.code)
           /\ FromStatus(st, chain).public = OrDefault(StatusText(st))
<1> DEFINE metadata == IF HasErrxDetails(st) THEN CHOOSE m \in st.details : TRUE ELSE NoMetadata
           OrStatus(text) == IF text = "" THEN st.message ELSE text
           e == [code |-> NormalizeCode(st.code), message |-> OrStatus(metadata.message),
                 public |-> OrStatus(metadata.public), fields |-> DecodeFields(metadata),
                 cause |-> chain]
<1>1. FromStatus(st, chain) = FinalizeMessages(e)
  BY DEF FromStatus
<1>2. OrStatus(metadata.public) = StatusText(st)
  BY DEF StatusText
<1> HIDE DEF metadata, OrStatus
<1>3. /\ IsRecord(e)
      /\ e.code = NormalizeCode(st.code) /\ e.public = StatusText(st)
  BY <1>2 DEF IsRecord
<1> HIDE DEF e
<1>. QED
  BY <1>1, <1>3, Finalized

\* Wrap without fields: a code other than OK and a public text are kept, and
\* those of the wrapped error stand in for missing ones.
LEMMA WrapFacts ==
    ASSUME NEW chain, NEW code, NEW message, NEW public
    PROVE  /\ IsRecord(Wrap(chain, code, message, public, <<>>))
           /\ Wrap(chain, code, message, public, <<>>).code = PickCode(code, FromError(chain).code)
           /\ Wrap(chain, code, message, public, <<>>).public
                = OrDefault(FirstText(public, FromError(chain).public))
<1> DEFINE base == FromError(chain)
           text == IF public = "" THEN base.public ELSE public
           e == [code    |-> PickCode(code, base.code),
                 message |-> IF message = "" THEN base.message ELSE message,
                 public  |-> text,
                 fields  |-> MergeFields(base.fields, <<>>),
                 cause   |-> chain]
<1>1. Wrap(chain, code, message, public, <<>>) = FinalizeMessages(e)
  BY DEF Wrap
<1>2. IsRecord(e) /\ e.code = PickCode(code, base.code) /\ e.public = text
  <2> HIDE DEF base, text
  <2>. QED
    BY DEF IsRecord
<1> HIDE DEF e
<1>. QED
  BY <1>1, <1>2, Finalized DEF FirstText

\* A chain of one status.
LEMMA SingleStatus ==
    ASSUME NEW link, link.kind = "status"
    PROVE  /\ ~HasLink(<<link>>, "app") /\ HasLink(<<link>>, "status")
           /\ StatusOf(<<link>>) = [code |-> link.code, details |-> link.details,
                                    message |-> link.message]
           /\ FromError(<<link>>) = FromStatus(StatusOf(<<link>>), <<link>>)
<1> DEFINE chain == <<link>>
<1>1. FirstLink(chain, "app") = 0 /\ FirstLink(chain, "status") = 1 /\ chain[1] = link
  BY FirstLinkSingle
<1> HIDE DEF chain
<1>2. ~HasLink(chain, "app") /\ HasLink(chain, "status")
  BY <1>1 DEF HasLink
<1>3. StatusOf(chain) = [code |-> link.code, details |-> link.details, message |-> link.message]
  BY <1>1 DEF StatusOf
<1>4. FromError(chain) = FromStatus(StatusOf(chain), chain)
  BY <1>2 DEF FromError
<1>. QED
  BY <1>2, <1>3, <1>4 DEF chain

\* What the client interceptor makes of the status that left the server.
Seen(code, text) ==
    Normalize(Received([code |-> code, message |-> text, details |-> {NoMetadata}]), <<>>)

LEMMA ClientSees ==
    ASSUME NEW code, NEW text, code # "OK", text # ""
    PROVE  Seen(code, text).code = code /\ Seen(code, text).public = text
<1> DEFINE link == [kind |-> "status", code |-> code, message |-> text, details |-> {NoMetadata}]
           st == [code |-> link.code, details |-> link.details, message |-> link.message]
<1>1. Received([code |-> code, message |-> text, details |-> {NoMetadata}]) = <<link>>
  BY DEF Received
<1>2. link.kind = "status" /\ st.code = code /\ st.details = {NoMetadata} /\ st.message = text
  OBVIOUS
<1> HIDE DEF link, st
<1>3. FromError(<<link>>) = FromStatus(st, <<link>>)
  BY <1>2, SingleStatus DEF st
<1>4. StatusText(st) = text
  <2>1. (CHOOSE m \in {NoMetadata} : TRUE) = NoMetadata /\ NoMetadata.public = ""
    BY DEF NoMetadata
  <2>. QED
    BY <1>2, <2>1 DEF StatusText
<1>5. FromError(<<link>>).code = code /\ FromError(<<link>>).public = text
  BY <1>2, <1>3, <1>4, FromStatusFacts DEF NormalizeCode, OrDefault
<1>. QED
  BY <1>1, <1>5 DEF Normalize, Seen

\* What errx.Code and the server interceptor make of a chain: the same code,
\* and a public text that is not empty.  It is the text of the whole chain only
\* where that is the message of a wrapped status.
LEMMA ServerErrorFacts ==
    ASSUME NEW chain, IsChain(chain)
    PROVE  LET e == ServerError(chain) IN
           /\ NormalizeCode(e.code) = FromError(chain).code
           /\ e.public # ""
           /\ HasLink(chain, "app") => e.public = AppOf(chain).public
           /\ e.public = "internal" => FirstLink(chain, "status") > 1
<1>1. CASE HasLink(chain, "app")
  <2>1. /\ IsError(AppOf(chain))
        /\ AppOf(chain).public = "internal" => FirstLink(chain, "status") > 1
    <3> DEFINE i == FirstLink(chain, "app")
    <3>1. i \in 1..Len(chain) /\ Len(chain) \in Nat /\ chain[i].kind = "app"
      BY <1>1, FirstLinkFound DEF HasLink, IsChain
    <3>2. /\ IsError(chain[i].error)
          /\ chain[i].error.public = "internal" => FirstLink(chain, "status") > i
      BY <3>1 DEF IsChain
    <3>3. FirstLink(chain, "status") \in Nat
      BY FirstLinkFound DEF IsChain
    <3>. QED
      BY <3>1, <3>2, <3>3 DEF AppOf
  <2>2. ServerError(chain) = FinalizeMessages(AppOf(chain)) /\ FromError(chain) = AppOf(chain)
    BY <1>1 DEF ServerError, FromError
  <2>. QED
    BY <2>1, <2>2, Finalized DEF IsError, NormalizeCode, OrDefault
<1>2. CASE ~HasLink(chain, "app") /\ ~HasLink(chain, "status")
  <2> DEFINE e == [code |-> CodeFromError(chain), message |-> ErrorText(chain), public |-> "",
                   fields |-> <<>>, cause |-> chain]
  <2>1. /\ ServerError(chain) = Wrap(chain, CodeFromError(chain), ErrorText(chain), "", <<>>)
        /\ FromError(chain) = FinalizeMessages(e)
    BY <1>2 DEF ServerError, FromError
  <2>2. /\ IsRecord(e)
        /\ e.code = CodeFromError(chain) /\ e.public = ""
    BY DEF IsRecord
  <2>3. CodeFromError(chain) # "OK"
    BY <1>2 DEF CodeFromError
  <2> HIDE DEF e
  <2>4. FromError(chain).code = CodeFromError(chain) /\ FromError(chain).public = "default"
    BY <2>1, <2>2, Finalized DEF OrDefault
  <2> DEFINE w == Wrap(chain, CodeFromError(chain), ErrorText(chain), "", <<>>)
  <2>5. /\ w.code = PickCode(CodeFromError(chain), FromError(chain).code)
        /\ w.public = OrDefault(FirstText("", FromError(chain).public))
    BY WrapFacts
  <2>6. w.code = CodeFromError(chain) /\ w.public = "default"
    <3> HIDE DEF w
    <3>. QED
      BY <2>3, <2>4, <2>5 DEF PickCode, NormalizeCode, OrDefault, FirstText
  <2>. QED
    BY <1>2, <2>1, <2>3, <2>4, <2>6 DEF NormalizeCode
<1>3. CASE ~HasLink(chain, "app") /\ HasLink(chain, "status")
  <2> DEFINE i == FirstLink(chain, "status")
             st == StatusOf(chain)
             base == FromStatus(st, chain)
  <2>1. i \in 1..Len(chain) /\ Len(chain) \in Nat /\ chain[i].kind = "status"
    BY <1>3, FirstLinkFound DEF HasLink, IsChain
  <2>2. /\ st.code = chain[i].code /\ st.details = chain[i].details
        /\ i = 1 => st.message = chain[i].message
    BY DEF StatusOf
  <2>3. FromError(chain) = base
    BY <1>3 DEF FromError
  <2>4. base.code = NormalizeCode(st.code) /\ base.public = OrDefault(StatusText(st))
    BY FromStatusFacts
  <2>5. i = 1 => st.message # "internal" /\ StatusText(st) # "internal"
    <3>1. /\ chain[i].message # "internal"
          /\ \A m \in chain[i].details : m.public # "internal"
      BY <2>1 DEF IsChain
    <3>2. NoMetadata.public = ""
      BY DEF NoMetadata
    <3>3. HasErrxDetails(st) => (CHOOSE m \in st.details : TRUE) \in st.details
      BY DEF HasErrxDetails
    <3>. QED
      BY <2>2, <3>1, <3>2, <3>3 DEF StatusText
  <2>8. i # 1 => i > 1
    BY <2>1
  <2> HIDE DEF i, st, base
  <2>6. CASE HasErrxDetails(st)
    <3>1. ServerError(chain) = FinalizeMessages(base)
      BY <1>3, <2>6 DEF ServerError, st, base
    <3>2. IsRecord(base)
      BY FromStatusFacts DEF base
    <3>3. /\ ServerError(chain).code = base.code
          /\ ServerError(chain).public = OrDefault(base.public)
      BY <3>1, <3>2, Finalized
    <3>4. NormalizeCode(base.code) = base.code /\ OrDefault(base.public) = base.public
      BY <2>4 DEF OrDefault, NormalizeCode
    <3>5. OrDefault(base.public) # ""
      BY DEF OrDefault
    <3>6. OrDefault(base.public) = "internal" => i > 1
      BY <2>4, <2>5, <2>8, <3>4 DEF OrDefault
    <3>. QED
      BY <1>3, <2>3, <3>3, <3>4, <3>5, <3>6 DEF i
  <2>7. CASE ~HasErrxDetails(st)
    <3>1. ServerError(chain) = Wrap(chain, st.code, st.message, st.message, <<>>)
      BY <1>3, <2>7 DEF ServerError, st
    <3> DEFINE text == FirstText(st.message, base.public)
    <3>2. /\ ServerError(chain).code = PickCode(st.code, base.code)
          /\ ServerError(chain).public = OrDefault(text)
      BY <2>3, <3>1, WrapFacts
    <3>3. NormalizeCode(PickCode(st.code, base.code)) = base.code
      BY <2>4 DEF NormalizeCode, PickCode
    <3>4. OrDefault(text) # ""
      BY DEF OrDefault
    <3>5. OrDefault(text) = "internal" => i > 1
      BY <2>4, <2>5, <2>8 DEF OrDefault, FirstText
    <3> HIDE DEF text
    <3>. QED
      BY <1>3, <2>3, <3>2, <3>3, <3>4, <3>5 DEF i
  <2>. QED
    BY <2>6, <2>7
<1>. QED
  BY <1>1, <1>2, <1>3

-----------------------------------------------------------------------------
\* What is proved of the App, for the App that New configures.
AppProofs == INSTANCE AppLifecycleProofs WITH
    NBefore <- 1 + UserHooks, NComponents <- 2, NCleanups <- 1 + UserCleanups,
    Kind <- <<"grpc", "http">>, MaxInflight <- Cardinality(Req)

AppInv == AppProofs!IInv

\* The constants the runtime gives the App are the ones its proofs ask for.
LEMMA AppAssumption == AppProofs!LifecycleAssumption
<1>1. Cardinality(Req) \in Nat
  BY ServiceAssumption, FS_CardinalityType
<1>2. <<"grpc", "http">> \in [1..2 -> {"grpc", "http"}]
  OBVIOUS
<1>. QED
  BY <1>1, <1>2, ServiceAssumption DEF AppProofs!LifecycleAssumption, AppProofs!Component

-----------------------------------------------------------------------------
(* The runtime implements the App.                                         *)

\* Every step of the runtime is a step of the App or leaves the App alone.
LEMMA AppNext == [Next]_vars => [App!Next]_(App!vars)
<1> SUFFICES ASSUME [Next]_vars PROVE [App!Next]_(App!vars)
  OBVIOUS
<1>1. ASSUME UNCHANGED appVars PROVE UNCHANGED App!vars
  BY <1>1 DEF appVars, App!vars, App!componentVars, App!runVars
<1>2. Grpc \in App!Component /\ Rest \in App!Component
  BY DEF Grpc, Rest, App!Component
<1>3. CASE NewRefused \/ NewTelemetry \/ NewGRPC \/ NewREST \/ CircuitCloses
  BY <1>1, <1>3 DEF NewRefused, NewTelemetry, NewGRPC, NewREST, CircuitCloses
<1>4. CASE \E c \in {Grpc, Rest} : AppServes(c)
  BY <1>2, <1>4 DEF AppServes, App!Next, App!ComponentStep
<1>5. CASE AppRuns \/ HookReturns
  BY <1>5 DEF AppRuns, HookReturns, App!Next, App!RunStep
<1>6. CASE \E kind \in Probes \cup {"api"} : Turn(kind)
  BY <1>1, <1>6 DEF Turn
<1>7. CASE \E r \in Req : Request(r)
  <2>1. ASSUME NEW c \in {Grpc, Rest}, App!Accept(c) \/ App!Finish(c)
        PROVE  App!Next
    BY <1>2, <2>1 DEF App!Next, App!ComponentStep
  <2>2. PICK r \in Req : Request(r)
    BY <1>7
  <2>3. CASE \E kind \in Probes \cup {"api"} : Arrive(r, kind)
    BY <2>1, <2>3 DEF Arrive
  <2>4. CASE Forward(r)
    BY <2>1, <2>4 DEF Forward
  <2>5. CASE Backend(r)
    BY <2>1, <2>5 DEF Backend, BackendDone
  <2>6. ASSUME NEW status, NEW by, Answer(r, status, by) PROVE App!Next
    BY <2>1, <2>6 DEF Answer
  <2>7. CASE \E result \in Checks[req[r].kind] : Probe(r, result)
    <3>1. \E status : Answer(r, status, "probe")
      BY <2>7 DEF Probe
    <3>. QED
      BY <2>6, <3>1
  <2>8. CASE Relay(r)
    BY <2>6, <2>8, Zenon DEF Relay
  <2>9. CASE Outage(r)
    BY <2>6, <2>9, Zenon DEF Outage
  <2>. QED
    BY <2>2, <2>3, <2>4, <2>5, <2>7, <2>8, <2>9 DEF Request
<1>8. CASE OrphanFinishes
  BY <1>2, <1>8 DEF OrphanFinishes, App!Next, App!ComponentStep
<1>9. CASE UNCHANGED vars
  BY <1>1, <1>9 DEF vars
<1>. QED
  BY <1>3, <1>4, <1>5, <1>6, <1>7, <1>8, <1>9 DEF Next

\* The runtime runs the App and does nothing to it that the App does not allow:
\* the requests, the probes and the hooks of the service are steps of the
\* lifecycle (service.go:146-227, app.go:62-135).
THEOREM RuntimeImplementsApp == Spec => App!Spec
<1>1. Init => App!Init
  BY DEF Init
<1>. QED
  BY <1>1, AppNext, PTL DEF Spec, App!Spec

\* So every invariant of the lifecycle holds of the App inside the service.
THEOREM AppInvariance == Spec => []AppInv
<1>1. AppProofs!Spec => []AppProofs!IInv
  BY AppAssumption, AppProofs!Invariance
<1>2. App!Init => AppProofs!Init
  BY DEF App!Init, App!Component, AppProofs!Init, AppProofs!Component
<1>3. [App!Next]_(App!vars) => [AppProofs!Next]_(AppProofs!vars)
  <2>1. ASSUME NEW c, App!ComponentStep(c)
        PROVE  AppProofs!ComponentStep(c)
    BY <2>1 DEF App!ComponentStep, AppProofs!ComponentStep, App!ServeStart, AppProofs!ServeStart,
           App!ServeFail, AppProofs!ServeFail, App!ServeReturn, AppProofs!ServeReturn,
           App!Accept, AppProofs!Accept, App!Finish, AppProofs!Finish, App!Drain,
           AppProofs!Drain, App!Exit, AppProofs!Exit, App!runVars, AppProofs!runVars
  <2>2. App!SelectResult \/ App!SelectCtx => AppProofs!RunStep
    BY DEF AppProofs!RunStep, App!SelectResult, AppProofs!SelectResult,
           App!SelectCtx, AppProofs!SelectCtx, App!BeginShutdown, AppProofs!BeginShutdown,
           App!ServeErrors, AppProofs!ServeErrors, App!componentVars, AppProofs!componentVars
  <2>3. App!IsHookCall = AppProofs!IsHookCall /\ App!IsComponentCall = AppProofs!IsComponentCall
        /\ App!Plan = AppProofs!Plan /\ App!PlanLength = AppProofs!PlanLength
    BY DEF App!IsHookCall, AppProofs!IsHookCall, App!IsComponentCall,
           AppProofs!IsComponentCall, App!Plan, AppProofs!Plan, App!PlanLength,
           AppProofs!PlanLength
  <2>4. App!CallHook \/ App!CallComponent \/ App!EndShutdown => AppProofs!RunStep
    BY <2>3 DEF AppProofs!RunStep, App!CallHook, AppProofs!CallHook,
           App!CallComponent, AppProofs!CallComponent, App!EndShutdown,
           AppProofs!EndShutdown, App!componentVars, AppProofs!componentVars
  <2>5. App!HookReturn \/ App!ComponentDrained \/ App!ComponentTimeout => AppProofs!RunStep
    BY <2>3 DEF AppProofs!RunStep, App!HookReturn, AppProofs!HookReturn,
           App!ComponentDrained, AppProofs!ComponentDrained, App!ComponentTimeout,
           AppProofs!ComponentTimeout, App!Return, AppProofs!Return
  <2>6. App!WaitAll \/ App!WaitTimeout => AppProofs!RunStep
    BY DEF AppProofs!RunStep, App!WaitAll, AppProofs!WaitAll, App!WaitTimeout,
           AppProofs!WaitTimeout, App!ServeErrors, AppProofs!ServeErrors, App!Component,
           AppProofs!Component, App!componentVars, AppProofs!componentVars
  <2>7. App!Cancel \/ App!Expire => AppProofs!Cancel \/ AppProofs!Expire
    BY DEF App!Cancel, AppProofs!Cancel, App!Expire, AppProofs!Expire, App!componentVars,
           AppProofs!componentVars, App!runVars, AppProofs!runVars
  <2>8. App!Component = AppProofs!Component /\ (UNCHANGED App!vars => UNCHANGED AppProofs!vars)
    BY DEF App!Component, AppProofs!Component, App!vars, AppProofs!vars, App!componentVars,
           AppProofs!componentVars, App!runVars, AppProofs!runVars
  <2>. QED
    BY <2>1, <2>2, <2>4, <2>5, <2>6, <2>7, <2>8
       DEF App!Next, App!RunStep, AppProofs!Next
<1>. QED
  BY <1>1, <1>2, <1>3, RuntimeImplementsApp, PTL DEF App!Spec, AppProofs!Spec, AppInv
-----------------------------------------------------------------------------
(* The inductive invariant of the runtime.                                 *)

Backends == {r \in Req : req[r].at = "backend"}

\* New, and what it holds: telemetry, from its first step on until the last
\* cleanup has returned.
NewInv ==
    /\ new \in {"begin", "grpc", "rest", "running", "failed", "crashed"}
    /\ held \subseteq Telemetry \cup {"exporter", "grpcListener", "restListener"}
    /\ authKept \in BOOLEAN
    /\ new \in {"grpc", "rest", "running"} /\ k <= App!PlanLength => Telemetry \subseteq held

\* Past its first call shutdown() has withdrawn readiness, and startup stays
\* latched once a probe was told so.
HealthInv ==
    /\ shuttingDown \in BOOLEAN /\ startupComplete \in BOOLEAN /\ startupOk \in BOOLEAN
    /\ k > 1 => shuttingDown
    /\ startupOk => startupComplete

\* The gRPC server stops serving because it was told to, or because it failed.
ServeInv ==
    serve[Grpc] = "exited" => server[Grpc] # "up" \/ outcome[Grpc] = "err"

BreakerInv ==
    breaker \in [n : 0..(IF Failures = 0 THEN 0 ELSE Failures - 1), open : BOOLEAN]

\* The states of a request.
RequestState ==
    [at : {"idle", "checks", "forward", "backend", "relay"},
     kind : Probes \cup {"api", ""}, late : BOOLEAN, down : BOOLEAN,
     latched : BOOLEAN, failed : BOOLEAN]

\* A request knows what its probe must know, and only a call of the API goes
\* through to the gRPC server.
ReqInv ==
    /\ req \in [Req -> RequestState]
    /\ \A r \in Req :
         /\ req[r].late => req[r].kind \in {"ready", "startup"}
         /\ req[r].late /\ req[r].kind = "ready" => req[r].down
         /\ req[r].late /\ req[r].kind = "startup" => req[r].latched
         /\ req[r].at \in {"forward", "backend", "relay"} => req[r].kind = "api"

\* The counters of the two servers, and the requests they count.
CountInv ==
    /\ inflight[Rest] = Cardinality(Inside)
    /\ inflight[Grpc] >= Cardinality(Backends)

ReplyInv == ProbesKnow /\ OutageAfterWithdrawal

RInv == NewInv /\ HealthInv /\ ServeInv /\ BreakerInv /\ ReqInv /\ CountInv /\ ReplyInv
-----------------------------------------------------------------------------
(* Lemmas.                                                                 *)

\* What the runtime needs to know of the App.
LEMMA AppFacts ==
    ASSUME AppInv
    PROVE  /\ serve \in [1..2 -> {"new", "serving", "exited"}]
           /\ outcome \in [1..2 -> {"none", "nil", "closed", "err"}]
           /\ server \in [1..2 -> {"up", "draining", "drained", "forced"}]
           /\ inflight \in [1..2 -> Nat]
           /\ k \in Nat /\ k >= 1
           /\ server[Grpc] # "up" => k > 1
           /\ pc = "select" => k = 1
           /\ k > App!PlanLength /\ inflight[Rest] > 0 => <<"component", Rest>> \in shutdownErr
<1> USE ServiceAssumption
<1>1. /\ serve \in [1..2 -> {"new", "serving", "exited"}]
      /\ outcome \in [1..2 -> {"none", "nil", "closed", "err"}]
      /\ server \in [1..2 -> {"up", "draining", "drained", "forced"}]
      /\ inflight \in [1..2 -> 0..Cardinality(Req)]
      /\ k \in 1..App!PlanLength + 1
  BY DEF AppInv, AppProofs!IInv, AppProofs!TypeOK, AppProofs!Component, App!PlanLength,
         AppProofs!PlanLength
<1>2. k \in Nat /\ k >= 1
  BY <1>1 DEF App!PlanLength
<1>3. server[Grpc] # "up" => k > 1
  BY <1>2 DEF AppInv, AppProofs!IInv, AppProofs!PositionInv, AppProofs!Component, Grpc
<1>4. pc = "select" => k = 1
  BY DEF AppInv, AppProofs!IInv, AppProofs!PositionInv
<1>5. ASSUME k > App!PlanLength, inflight[Rest] > 0
      PROVE  <<"component", Rest>> \in shutdownErr
  <2>1. server[Rest] \in {"drained", "forced"}
    BY <1>2, <1>5 DEF AppInv, AppProofs!IInv, AppProofs!PositionInv, AppProofs!Component, Rest,
                      App!PlanLength
  <2>2. inflight[Rest] # 0
    BY <1>1, <1>5 DEF Rest
  <2>. QED
    BY <2>1, <2>2 DEF AppInv, AppProofs!IInv, AppProofs!DrainInv, AppProofs!Component, Rest
<1>6. inflight \in [1..2 -> Nat]
  BY <1>1
<1>. QED
  BY <1>1, <1>2, <1>3, <1>4, <1>5, <1>6

\* The first call of shutdown() withdraws readiness and the last one ends
\* telemetry (service.go:146-168, app.go:115-135).
LEMMA PlanEnds ==
    ASSUME NEW i \in 1..App!PlanLength
    PROVE  /\ i = 1 => App!Plan[i] = MarkHook
           /\ App!Plan[i] = TelemetryCleanup => i = App!PlanLength
           /\ App!Plan[i][1] = "component" => i > 1
<1> USE ServiceAssumption
<1>1. CASE i <= 1 + UserHooks
  <2>1. App!Plan[i] = <<"before", i>>
    BY <1>1 DEF App!Plan, App!PlanLength
  <2>. QED
    BY <1>1, <2>1 DEF MarkHook, TelemetryCleanup
<1>2. CASE i > 1 + UserHooks /\ i <= 1 + UserHooks + 2
  <2>1. App!Plan[i] = <<"component", i - (1 + UserHooks)>>
    BY <1>2 DEF App!Plan, App!PlanLength
  <2>. QED
    BY <1>2, <2>1 DEF TelemetryCleanup
<1>3. CASE i > 1 + UserHooks + 2
  <2>1. App!Plan[i] = <<"cleanup", App!PlanLength + 1 - i>>
    BY <1>3 DEF App!Plan, App!PlanLength
  <2>2. i > 1 /\ App!PlanLength \in Nat
    BY <1>3 DEF App!PlanLength
  <2>. QED
    BY <2>1, <2>2 DEF TelemetryCleanup
<1>. QED
  BY <1>1, <1>2, <1>3 DEF App!PlanLength

\* The steps of the App other than the return of a hook go past no hook.
LEMMA AppFrame ==
    ASSUME AppInv, RInv, AppRuns \/ (\E c \in {Grpc, Rest} : AppServes(c))
    PROVE  /\ inflight' = inflight
           /\ k' = k \/ (k' = k + 1 /\ k > 1)
           /\ ServeInv'
<1> USE AppFacts DEF App!componentVars, App!runVars
<1>1. ASSUME NEW c \in {Grpc, Rest}, AppServes(c)
      PROVE  inflight' = inflight /\ k' = k /\ ServeInv'
  <2>1. CASE App!ServeStart(c)
    BY <1>1, <2>1 DEF App!ServeStart, App!Exit, RInv, ServeInv, Grpc, Rest
  <2>2. CASE App!ServeFail(c)
    BY <1>1, <2>2 DEF App!ServeFail, App!Exit, RInv, ServeInv, Grpc, Rest
  <2>3. CASE App!ServeReturn(c)
    BY <1>1, <2>3 DEF App!ServeReturn, App!Exit, RInv, ServeInv, Grpc, Rest
  <2>4. CASE App!Drain(c)
    BY <1>1, <2>4 DEF App!Drain, RInv, ServeInv, Grpc, Rest
  <2>. QED
    BY <1>1, <2>1, <2>2, <2>3, <2>4 DEF AppServes
<1>2. CASE App!Cancel \/ App!Expire \/ App!SelectResult \/ App!SelectCtx \/ App!CallHook
             \/ App!EndShutdown \/ App!WaitAll \/ App!WaitTimeout
  BY <1>2 DEF App!Cancel, App!Expire, App!SelectResult, App!SelectCtx, App!BeginShutdown,
              App!CallHook, App!EndShutdown, App!WaitAll, App!WaitTimeout, RInv, ServeInv
<1>3. CASE App!CallComponent
  BY <1>3 DEF App!CallComponent, RInv, ServeInv, Grpc
<1>4. CASE App!ComponentDrained \/ App!ComponentTimeout
  <2>1. App!IsComponentCall
    BY <1>4 DEF App!ComponentDrained, App!ComponentTimeout
  <2>2. k \in 1..App!PlanLength /\ App!Plan[k][1] = "component"
    <3>1. App!PlanLength \in Nat
      BY ServiceAssumption DEF App!PlanLength
    <3>. QED
      BY <2>1, <3>1 DEF App!IsComponentCall
  <2>3. k > 1
    BY <2>2, PlanEnds
  <2>. QED
    BY <1>4, <2>3 DEF App!ComponentDrained, App!ComponentTimeout, App!Return, RInv, ServeInv, Grpc
<1>. QED
  BY <1>1, <1>2, <1>3, <1>4 DEF AppRuns

\* What gateway.New may end with.
LEMMA GatewayResults ==
    ASSUME NEW opts, NEW out \in GatewayNew(opts)
    PROVE  out.result \in {"ok", "error", "panic"} /\ (out.bound => out.result = "ok")
<1>1. out \in {Error, Panic} \cup Listen(opts)
  BY DEF GatewayNew
<1>2. CASE out \in {Error, Panic}
  BY <1>2 DEF Error, Panic
<1>3. CASE out \in Listen(opts) /\ out # Error
  <2>1. PICK tls \in ServerConfig(opts.tls) :
              out = [result |-> IF tls = Failed THEN "error" ELSE "ok",
                     bound |-> tls # Failed, tls |-> tls]
    BY <1>3 DEF Listen
  <2>. QED
    BY <2>1
<1>. QED
  BY <1>1, <1>2, <1>3
\* Where gateway.New succeeds its listener has the TLS settings of the options.
LEMMA GatewayListens ==
    ASSUME NEW opts, NEW out \in GatewayNew(opts), out.result = "ok"
    PROVE  out.tls \in ServerConfig(opts.tls) /\ out.tls # Failed
<1>1. out \in {Error, Panic} \cup Listen(opts)
  BY DEF GatewayNew
<1>2. out \notin {Error, Panic}
  BY DEF Error, Panic
<1>3. PICK tls \in ServerConfig(opts.tls) :
            out = [result |-> IF tls = Failed THEN "error" ELSE "ok",
                   bound |-> tls # Failed, tls |-> tls]
  BY <1>1, <1>2 DEF Listen
<1>. QED
  BY <1>3

\* A finite set without one of its elements.
LEMMA OneLess ==
    ASSUME NEW S, IsFiniteSet(S), NEW x \in S
    PROVE  Cardinality(S \ {x}) = Cardinality(S) - 1
  BY FS_RemoveElement

\* The requests inside the gateway and inside the gRPC server are finitely many.
LEMMA CountsFinite ==
    /\ IsFiniteSet(Inside) /\ Cardinality(Inside) \in Nat
    /\ IsFiniteSet(Backends) /\ Cardinality(Backends) \in Nat
<1>1. Inside \subseteq Req /\ Backends \subseteq Req
  BY DEF Inside, Backends
<1>. QED
  BY <1>1, ServiceAssumption, FS_Subset, FS_CardinalityType

-----------------------------------------------------------------------------
(* The invariant is inductive.                                             *)

LEMMA InitRInv == Init => RInv
<1> SUFFICES ASSUME Init PROVE RInv
  OBVIOUS
<1> USE ServiceAssumption
<1>0. k = 1 /\ serve = [c \in 1..2 |-> "new"] /\ inflight = [c \in 1..2 |-> 0]
  BY DEF Init, App!Init, App!Component
<1>1. NewInv
  <2>1. new = "begin" /\ held = {} /\ authKept = TRUE
    BY DEF Init
  <2>. QED
    BY <2>1, Zenon DEF NewInv
<1>2. HealthInv
  <2>1. ~(k > 1)
    BY <1>0
  <2>2. shuttingDown = FALSE /\ startupComplete = FALSE /\ startupOk = FALSE
    BY DEF Init
  <2>. QED
    BY <2>1, <2>2, Zenon DEF HealthInv
<1>3. ServeInv
  BY <1>0 DEF ServeInv, Grpc
<1>4. BreakerInv
  BY DEF Init, BreakerInv
<1>5. ReqInv
  BY DEF Init, ReqInv, RequestState, NoReq
<1>6. CountInv
  <2>1. Inside = {} /\ Backends = {}
    BY DEF Init, Inside, Backends, NoReq
  <2>. QED
    BY <1>0, <2>1, FS_EmptySet DEF CountInv, Grpc, Rest
<1>7. ReplyInv
  <2>1. reply.late = FALSE /\ reply.by # "outage"
    BY DEF Init, NoReply
  <2>. QED
    BY <2>1, Zenon DEF ReplyInv, ProbesKnow, OutageAfterWithdrawal
<1>. QED
  BY <1>1, <1>2, <1>3, <1>4, <1>5, <1>6, <1>7 DEF RInv

\* Without an answer there is nothing to say about one.
LEMMA NoAnswerReply == NoAnswer => ReplyInv'
<1> SUFFICES ASSUME NoAnswer PROVE ReplyInv'
  OBVIOUS
<1>1. reply'.late = FALSE /\ reply'.by # "outage"
  BY DEF NoAnswer, NoReply
<1>. QED
  BY <1>1, Zenon DEF ReplyInv, ProbesKnow, OutageAfterWithdrawal

\* The steps of New.
LEMMA NewRInv ==
    ASSUME RInv, NewRefused \/ NewTelemetry \/ NewGRPC \/ NewREST
    PROVE  RInv'
<1>1. UNCHANGED <<appVars, healthVars, breaker, req>> /\ NoAnswer
  BY DEF NewRefused, NewTelemetry, NewGRPC, NewREST
<1>2. HealthInv' /\ ServeInv' /\ BreakerInv' /\ ReqInv' /\ CountInv'
  BY <1>1 DEF appVars, healthVars, RInv, HealthInv, ServeInv, BreakerInv, ReqInv, CountInv,
              Inside, Backends
<1>3. NewInv'
  <2> USE DEF RInv, NewInv, appVars
  <2>1. CASE NewRefused
    BY <2>1 DEF NewRefused
  <2>2. CASE NewTelemetry
    BY <2>2 DEF NewTelemetry
  <2>3. CASE NewGRPC
    BY <1>1, <2>3 DEF NewGRPC, App!PlanLength
  <2>4. CASE NewREST
    <3>0. PICK opts \in RestOptions : \E out \in GatewayNew(opts) :
            /\ new' = CASE out.result = "ok" -> "running"
                        [] out.result = "error" -> "failed"
                        [] out.result = "panic" -> "crashed"
            /\ held' = IF out.bound THEN held \cup {"restListener"} ELSE held
            /\ authKept' = (out.result = "ok" =>
                              opts.asked = (IF out.tls = Nil THEN "none" ELSE out.tls.auth))
      BY <2>4 DEF NewREST
    <3>1. PICK out \in GatewayNew(opts) :
            /\ new' = CASE out.result = "ok" -> "running"
                        [] out.result = "error" -> "failed"
                        [] out.result = "panic" -> "crashed"
            /\ held' = IF out.bound THEN held \cup {"restListener"} ELSE held
            /\ authKept' = (out.result = "ok" =>
                              opts.asked = (IF out.tls = Nil THEN "none" ELSE out.tls.auth))
      BY <3>0
    <3>2. new' \in {"running", "failed", "crashed"}
      BY <3>1, GatewayResults
    <3>3. /\ held' \subseteq Telemetry \cup {"exporter", "grpcListener", "restListener"}
          /\ held \subseteq held'
      BY <3>1
    <3>4. authKept' \in BOOLEAN
      BY <3>1
    <3>. QED
      BY <1>1, <2>4, <3>2, <3>3, <3>4 DEF NewREST, App!PlanLength
  <2>. QED
    BY <2>1, <2>2, <2>3, <2>4
<1>. QED
  BY <1>1, <1>2, <1>3, NoAnswerReply DEF RInv

\* The steps of the App, and what the hooks of the runtime do.
LEMMA AppRInv ==
    ASSUME AppInv, RInv, AppRuns \/ (\E c \in {Grpc, Rest} : AppServes(c))
    PROVE  RInv'
<1>1. UNCHANGED <<newVars, healthVars, breaker, req>> /\ NoAnswer
  BY DEF AppRuns, AppServes
<1>2. BreakerInv' /\ ReqInv' /\ Inside' = Inside /\ Backends' = Backends
  BY <1>1 DEF RInv, BreakerInv, ReqInv, Inside, Backends
<1>3. CountInv'
  BY <1>2, AppFrame DEF RInv, CountInv
<1>4. NewInv' /\ HealthInv'
  <2>1. k \in Nat /\ (k' = k \/ (k' = k + 1 /\ k > 1)) /\ App!PlanLength \in Nat
    BY AppFacts, AppFrame, ServiceAssumption DEF App!PlanLength
  <2>2. k' <= App!PlanLength => k <= App!PlanLength
    BY <2>1
  <2>3. k' > 1 => k > 1
    BY <2>1
  <2>. QED
    BY <1>1, <2>2, <2>3, Zenon DEF newVars, healthVars, RInv, NewInv, HealthInv, App!PlanLength
<1>. QED
  BY <1>1, <1>2, <1>3, <1>4, AppFrame, NoAnswerReply DEF RInv

LEMMA HookRInv ==
    ASSUME AppInv, RInv, HookReturns
    PROVE  RInv'
<1> USE ServiceAssumption
<1>1. /\ UNCHANGED <<new, authKept, startupComplete, startupOk, breaker, req>> /\ NoAnswer
      /\ UNCHANGED <<serve, outcome, server, inflight>>
      /\ k' = k + 1
      /\ shuttingDown' = (shuttingDown \/ App!Plan[k] = MarkHook)
      /\ held' = IF App!Plan[k] = TelemetryCleanup THEN held \ Telemetry ELSE held
  BY DEF HookReturns, MarkShuttingDown, App!HookReturn, App!Return
<1>2. BreakerInv' /\ ReqInv' /\ ServeInv' /\ CountInv'
  BY <1>1 DEF RInv, BreakerInv, ReqInv, ServeInv, CountInv, Inside, Backends
<1>3. k \in 1..App!PlanLength /\ App!PlanLength \in Nat
  <2>1. App!PlanLength \in Nat /\ k <= App!PlanLength
    BY DEF App!PlanLength, HookReturns, App!HookReturn, App!IsHookCall
  <2>. QED
    BY <2>1, AppFacts
<1>4. HealthInv'
  <2>1. shuttingDown'
    <3>1. k = 1 => App!Plan[k] = MarkHook
      BY <1>3, PlanEnds
    <3>2. k = 1 \/ k > 1
      BY <1>3
    <3>. QED
      BY <1>1, <3>1, <3>2, Zenon DEF RInv, HealthInv
  <2>. QED
    BY <1>1, <2>1 DEF RInv, HealthInv
<1>5. NewInv'
  <2>1. CASE App!Plan[k] = TelemetryCleanup
    <3>1. ~(k' <= App!PlanLength)
      BY <1>1, <1>3, <2>1, PlanEnds
    <3>. QED
      BY <1>1, <2>1, <3>1 DEF RInv, NewInv, App!PlanLength
  <2>2. CASE App!Plan[k] # TelemetryCleanup
    <3>1. k <= App!PlanLength
      BY <1>3
    <3>. QED
      BY <1>1, <2>2, <3>1 DEF RInv, NewInv, App!PlanLength
  <2>. QED
    BY <2>1, <2>2
<1>. QED
  BY <1>1, <1>2, <1>4, <1>5, NoAnswerReply DEF RInv
-----------------------------------------------------------------------------
(* The requests.                                                           *)

\* The verdict of Do keeps the count below the threshold, whatever the status.
LEMMA VerdictInv ==
    ASSUME BreakerInv, NEW status, Verdict(status)
    PROVE  BreakerInv'
<1> USE ServiceAssumption
<1>1. breaker.n \in Nat /\ breaker.open \in BOOLEAN
  BY DEF BreakerInv
<1>2. CASE Failures = 0
  BY <1>2 DEF Verdict, BreakerInv
<1>3. CASE Failures # 0
  <2>1. \/ breaker' = [n |-> 0, open |-> FALSE]
        \/ breaker' = [n |-> 0, open |-> TRUE]
        \/ ~(breaker.n + 1 >= Failures) /\ breaker' = [breaker EXCEPT !.n = @ + 1]
    BY <1>3 DEF Verdict
  <2>2. CASE breaker' = [n |-> 0, open |-> FALSE] \/ breaker' = [n |-> 0, open |-> TRUE]
    <3>1. PICK b \in BOOLEAN : breaker' = [n |-> 0, open |-> b]
      BY <2>2, Zenon
    <3>. QED
      BY <1>3, <3>1 DEF BreakerInv
  <2>3. CASE ~(breaker.n + 1 >= Failures) /\ breaker' = [breaker EXCEPT !.n = @ + 1]
    <3>1. breaker.n + 1 \in 0..(Failures - 1)
      BY <1>1, <1>3, <2>3
    <3>2. breaker' = [n |-> breaker.n + 1, open |-> breaker.open]
      BY <2>3 DEF BreakerInv
    <3>. QED
      BY <1>1, <1>3, <3>1, <3>2 DEF BreakerInv
  <2>. QED
    BY <2>1, <2>2, <2>3
<1>. QED
  BY <1>2, <1>3

\* A step that leaves New, the hooks and the servers' states alone.
LEMMA QuietRInv ==
    ASSUME RInv, UNCHANGED newVars, UNCHANGED <<serve, outcome, server, k>>
    PROVE  NewInv' /\ ServeInv'
  BY DEF newVars, RInv, NewInv, ServeInv, App!PlanLength

\* A request is answered: its handler leaves the gateway, and what it tells the
\* client is right by the hypotheses.
LEMMA AnswerRInv ==
    ASSUME AppInv, RInv, NEW r \in Req, NEW status, NEW by, Answer(r, status, by),
           req[r].at # "idle", UNCHANGED newVars, HealthInv', shuttingDown' = shuttingDown,
           req[r].late => IF req[r].kind = "ready" THEN status # 200 ELSE status = 200,
           by = "outage" => shuttingDown \/ outcome[Grpc] = "err"
    PROVE  RInv'
<1>1. /\ inflight[Rest] > 0
      /\ inflight' = [inflight EXCEPT ![Rest] = @ - 1]
      /\ UNCHANGED <<serve, outcome, server, k>>
      /\ req' = [req EXCEPT ![r] = NoReq]
      /\ Verdict(status)
  BY DEF Answer, App!Finish, App!runVars
<1>2. NewInv' /\ ServeInv' /\ BreakerInv'
  BY <1>1, QuietRInv, VerdictInv DEF RInv
<1>3. ReqInv'
  <2>1. ReqInv
    BY DEF RInv
  <2>. QED
    BY <1>1, <2>1 DEF ReqInv, RequestState, NoReq
<1>4. CountInv'
  <2>0. ReqInv /\ CountInv
    BY DEF RInv
  <2>1. Inside' = Inside \ {r} /\ r \in Inside
    BY <1>1, <2>0 DEF ReqInv, Inside, NoReq
  <2>2. Backends' = Backends \ {r}
    BY <1>1, <2>0 DEF ReqInv, Backends, NoReq
  <2>3. Cardinality(Inside') = Cardinality(Inside) - 1
    <3>1. IsFiniteSet(Inside)
      BY CountsFinite
    <3>2. Cardinality(Inside \ {r}) = Cardinality(Inside) - 1
      BY <2>1, <3>1, OneLess
    <3>. QED
      BY <2>1, <3>2
  <2>4. Cardinality(Backends') <= Cardinality(Backends) /\ Cardinality(Backends') \in Nat
    <3>1. Backends' \in SUBSET Backends
      BY <2>2
    <3>. QED
      BY <3>1, CountsFinite, FS_Subset, FS_CardinalityType
  <2>5. inflight'[Rest] = inflight[Rest] - 1 /\ inflight'[Grpc] = inflight[Grpc]
    BY <1>1, AppFacts DEF Rest, Grpc
  <2>6. inflight[Grpc] \in Nat
    BY AppFacts DEF Grpc
  <2>. QED
    BY <2>0, <2>3, <2>4, <2>5, <2>6, CountsFinite DEF CountInv
<1>5. ReplyInv'
  <2>1. CASE reply' = NoReply
    BY <2>1, NoAnswerReply DEF NoAnswer
  <2>2. CASE reply' = [NoReply EXCEPT !.kind = req[r].kind, !.by = by, !.late = req[r].late,
                                      !.status = status]
    <3>1. /\ reply'.kind = req[r].kind /\ reply'.by = by /\ reply'.late = req[r].late
          /\ reply'.status = status
      BY <2>2 DEF NoReply
    <3>. QED
      BY <1>1, <3>1, Zenon DEF ReplyInv, ProbesKnow, OutageAfterWithdrawal
  <2>. QED
    BY <2>1, <2>2 DEF Answer
<1>. QED
  BY <1>2, <1>3, <1>4, <1>5 DEF RInv

\* A request is admitted.
LEMMA ArriveRInv ==
    ASSUME AppInv, RInv, NEW r \in Req, NEW kind \in Probes \cup {"api"}, Arrive(r, kind)
    PROVE  RInv'
<1> DEFINE q == [at |-> IF kind = "api" THEN "forward" ELSE "checks",
                 kind |-> kind,
                 late |-> Late(kind),
                 down |-> kind = "ready" /\ shuttingDown,
                 latched |-> kind = "startup" /\ startupComplete,
                 failed |-> FALSE]
<1>1. /\ req[r].at = "idle"
      /\ inflight' = [inflight EXCEPT ![Rest] = @ + 1]
      /\ UNCHANGED <<serve, outcome, server, k>>
      /\ req' = [req EXCEPT ![r] = q]
      /\ UNCHANGED <<newVars, healthVars, breaker>> /\ NoAnswer
  BY DEF Arrive, App!Accept, App!runVars
<1>0. NewInv /\ HealthInv /\ BreakerInv /\ ReqInv /\ CountInv
  BY DEF RInv
<1>2. NewInv' /\ ServeInv' /\ BreakerInv' /\ HealthInv'
  <2>1. BreakerInv' /\ HealthInv'
    BY <1>0, <1>1 DEF healthVars, BreakerInv, HealthInv
  <2>. QED
    BY <1>1, <2>1, QuietRInv
<1>3. /\ Late(kind) \in BOOLEAN
      /\ Late(kind) => kind \in {"ready", "startup"}
      /\ Late(kind) /\ kind = "ready" => shuttingDown
      /\ Late(kind) /\ kind = "startup" => startupComplete
  BY <1>0 DEF Late, HealthInv
<1>4. ReqInv'
  <2>1. q \in RequestState
    <3>1. (kind = "ready" /\ shuttingDown) \in BOOLEAN
          /\ (kind = "startup" /\ startupComplete) \in BOOLEAN
      OBVIOUS
    <3>. QED
      BY <1>3, <3>1 DEF RequestState
  <2>2. /\ q.late => q.kind \in {"ready", "startup"}
        /\ q.late /\ q.kind = "ready" => q.down
        /\ q.late /\ q.kind = "startup" => q.latched
        /\ q.at \in {"forward", "backend", "relay"} => q.kind = "api"
    BY <1>3
  <2> HIDE DEF q
  <2>. QED
    BY <1>0, <1>1, <2>1, <2>2 DEF ReqInv
<1>5. CountInv'
  <2>1. q.at # "idle" /\ q.at # "backend"
    OBVIOUS
  <2> HIDE DEF q
  <2>2. Inside' = Inside \cup {r} /\ r \notin Inside
    BY <1>0, <1>1, <2>1 DEF ReqInv, Inside
  <2>3. Backends' = Backends
    BY <1>0, <1>1, <2>1 DEF ReqInv, Backends
  <2>4. Cardinality(Inside') = Cardinality(Inside) + 1
    BY <2>2, CountsFinite, FS_AddElement
  <2>5. inflight'[Rest] = inflight[Rest] + 1 /\ inflight'[Grpc] = inflight[Grpc]
    BY <1>1, AppFacts DEF Rest, Grpc
  <2>. QED
    BY <1>0, <2>3, <2>4, <2>5 DEF CountInv
<1>. QED
  BY <1>1, <1>2, <1>4, <1>5, NoAnswerReply DEF RInv

\* A probe is answered.
LEMMA ProbeRInv ==
    ASSUME AppInv, RInv, NEW r \in Req, NEW result, Probe(r, result)
    PROVE  RInv'
<1> DEFINE q == req[r]
           status == IF q.kind = "ready" /\ q.down /\ result # "panic" THEN 503
                     ELSE IF q.kind = "startup" /\ q.latched THEN 200
                     ELSE CheckStatus(result)
           ok == q.kind = "startup" /\ status = 200
<1>1. /\ q.at = "checks"
      /\ startupComplete' = (startupComplete \/ ok)
      /\ startupOk' = (startupOk \/ ok)
      /\ Answer(r, status, "probe")
      /\ UNCHANGED <<newVars, shuttingDown>>
  BY DEF Probe
<1>2. q.late => IF q.kind = "ready" THEN status # 200 ELSE status = 200
  <2>1. /\ q.late => q.kind \in {"ready", "startup"}
        /\ q.late /\ q.kind = "ready" => q.down
        /\ q.late /\ q.kind = "startup" => q.latched
    BY DEF RInv, ReqInv
  <2>2. CheckStatus("panic") = 500
    BY DEF CheckStatus
  <2>. QED
    BY <2>1, <2>2
<1>3. k' = k
  BY <1>1 DEF Answer, App!Finish, App!runVars
<1> HIDE DEF status
<1>4. HealthInv'
  BY <1>1, <1>3 DEF RInv, HealthInv
<1>5. shuttingDown' = shuttingDown /\ UNCHANGED newVars
  BY <1>1
<1>6. q.at # "idle" /\ "probe" # "outage"
  BY <1>1
<1>7. Answer(r, status, "probe")
  BY <1>1
<1>. QED
  BY <1>2, <1>4, <1>5, <1>6, <1>7, AnswerRInv

\* A request of the API goes on to its next step.
LEMMA RequestMoves ==
    ASSUME ReqInv, NEW r \in Req, NEW q \in RequestState, req' = [req EXCEPT ![r] = q],
           req[r].kind = "api", q.kind = req[r].kind, q.late = req[r].late,
           q.down = req[r].down, q.latched = req[r].latched
    PROVE  ReqInv'
<1>1. req' \in [Req -> RequestState] /\ req'[r] = q /\ \A s \in Req : s # r => req'[s] = req[s]
  BY DEF ReqInv
<1>. QED
  BY <1>1 DEF ReqInv

\* A call of the API goes through the gRPC server and back, or finds it gone.
LEMMA CallRInv ==
    ASSUME AppInv, RInv, NEW r \in Req, Forward(r) \/ Backend(r) \/ Relay(r) \/ Outage(r)
    PROVE  RInv'
<1>0. NewInv /\ HealthInv /\ ServeInv /\ BreakerInv /\ ReqInv /\ CountInv
  BY DEF RInv
<1>1. ASSUME Forward(r) \/ Backend(r), UNCHANGED <<newVars, healthVars, breaker>>,
             UNCHANGED <<serve, outcome, server, k>>
      PROVE  NewInv' /\ ServeInv' /\ BreakerInv' /\ HealthInv'
  <2>1. BreakerInv' /\ HealthInv'
    BY <1>0, <1>1 DEF healthVars, BreakerInv, HealthInv
  <2>. QED
    BY <1>1, <2>1, QuietRInv
<1>2. CASE Forward(r)
  <2>1. /\ req[r].at = "forward"
        /\ inflight' = [inflight EXCEPT ![Grpc] = @ + 1]
        /\ UNCHANGED <<serve, outcome, server, k>>
        /\ req' = [req EXCEPT ![r].at = "backend"]
        /\ UNCHANGED <<newVars, healthVars, breaker>> /\ NoAnswer
    BY <1>2 DEF Forward, App!Accept, App!runVars
  <2>2. ReqInv'
    <3> DEFINE q == [req[r] EXCEPT !.at = "backend"]
    <3>1. /\ req[r].kind = "api" /\ q \in RequestState /\ q.kind = req[r].kind
          /\ q.late = req[r].late /\ q.down = req[r].down /\ q.latched = req[r].latched
      BY <1>0, <2>1 DEF ReqInv, RequestState
    <3>2. req' = [req EXCEPT ![r] = q]
      BY <2>1
    <3> HIDE DEF q
    <3>. QED
      BY <1>0, <3>1, <3>2, RequestMoves
  <2>3. Inside' = Inside /\ Backends' = Backends \cup {r} /\ r \notin Backends
    BY <1>0, <2>1 DEF ReqInv, Inside, Backends
  <2>4. Cardinality(Backends') = Cardinality(Backends) + 1
    BY <2>3, CountsFinite, FS_AddElement
  <2>5. /\ inflight'[Rest] = inflight[Rest] /\ inflight'[Grpc] = inflight[Grpc] + 1
        /\ inflight[Grpc] \in Nat
    BY <2>1, AppFacts DEF Rest, Grpc
  <2>6. CountInv'
    BY <1>0, <2>3, <2>4, <2>5, CountsFinite DEF CountInv
  <2>. QED
    BY <1>1, <1>2, <2>1, <2>2, <2>6, NoAnswerReply DEF RInv
<1>3. CASE Backend(r)
  <2>1. PICK chain : BackendDone(r, chain)
    BY <1>3 DEF Backend
  <2>2. PICK failed \in BOOLEAN : req' = [req EXCEPT ![r].at = "relay", ![r].failed = failed]
    <3> DEFINE st == IF chain = <<>> THEN [code |-> "OK", message |-> ""] ELSE GrpcAnswer(chain)
               failed == HTTPStatusFromCode(st.code) >= 500
    <3>1. req' = [req EXCEPT ![r].at = "relay", ![r].failed = failed]
      BY <2>1 DEF BackendDone
    <3>2. failed \in BOOLEAN
      OBVIOUS
    <3> HIDE DEF failed
    <3>. QED
      BY <3>1, <3>2
  <2>3. /\ req[r].at = "backend"
        /\ inflight' = [inflight EXCEPT ![Grpc] = @ - 1]
        /\ UNCHANGED <<serve, outcome, server, k>>
        /\ UNCHANGED <<newVars, healthVars, breaker>>
    BY <2>1 DEF BackendDone, App!Finish, App!runVars
  <2>4. ReplyInv'
    <3>1. reply'.late = FALSE /\ reply'.by # "outage"
      BY <2>1 DEF BackendDone, NoReply
    <3>. QED
      BY <3>1, Zenon DEF ReplyInv, ProbesKnow, OutageAfterWithdrawal
  <2>5. ReqInv'
    <3> DEFINE q == [req[r] EXCEPT !.at = "relay", !.failed = failed]
    <3>1. /\ req[r].kind = "api" /\ q \in RequestState /\ q.kind = req[r].kind
          /\ q.late = req[r].late /\ q.down = req[r].down /\ q.latched = req[r].latched
      BY <1>0, <2>3 DEF ReqInv, RequestState
    <3>2. req' = [req EXCEPT ![r] = q]
      BY <2>2
    <3> HIDE DEF q
    <3>. QED
      BY <1>0, <3>1, <3>2, RequestMoves
  <2>6. Inside' = Inside /\ Backends' = Backends \ {r} /\ r \in Backends
    BY <1>0, <2>2, <2>3 DEF ReqInv, Inside, Backends
  <2>7. Cardinality(Backends') = Cardinality(Backends) - 1
    BY <2>6, CountsFinite, FS_RemoveElement
  <2>8. /\ inflight'[Rest] = inflight[Rest] /\ inflight'[Grpc] = inflight[Grpc] - 1
        /\ inflight[Grpc] \in Nat
    BY <2>3, AppFacts DEF Rest, Grpc
  <2>9. CountInv'
    BY <1>0, <2>6, <2>7, <2>8, CountsFinite DEF CountInv
  <2>. QED
    BY <1>1, <1>3, <2>3, <2>4, <2>5, <2>9 DEF RInv
<1>4. ASSUME NEW status, NEW by, Answer(r, status, by), UNCHANGED <<newVars, healthVars>>,
             req[r].at \in {"forward", "backend", "relay"},
             by = "outage" => shuttingDown \/ outcome[Grpc] = "err"
      PROVE  RInv'
  <2>1. ~req[r].late /\ req[r].at # "idle"
    BY <1>0, <1>4 DEF ReqInv
  <2>2. HealthInv'
    BY <1>0, <1>4 DEF healthVars, HealthInv, Answer, App!Finish, App!runVars
  <2>3. shuttingDown' = shuttingDown /\ UNCHANGED newVars
    BY <1>4 DEF healthVars
  <2>. QED
    BY <1>4, <2>1, <2>2, <2>3, AnswerRInv, Zenon
<1>5. CASE Relay(r)
  BY <1>4, <1>5 DEF Relay
<1>6. CASE Outage(r)
  <2>1. shuttingDown \/ outcome[Grpc] = "err"
    BY <1>0, <1>6, AppFacts DEF Outage, HealthInv, ServeInv
  <2>. QED
    BY <1>4, <1>6, <2>1 DEF Outage
<1>. QED
  BY <1>2, <1>3, <1>5, <1>6

\* The rest: a request that is turned away, a call whose client is gone, and
\* the circuit.
LEMMA OtherRInv ==
    ASSUME AppInv, RInv,
           (\E kind \in Probes \cup {"api"} : Turn(kind)) \/ OrphanFinishes \/ CircuitCloses
    PROVE  RInv'
<1>0. NewInv /\ HealthInv /\ ServeInv /\ BreakerInv /\ ReqInv /\ CountInv
  BY DEF RInv
<1>1. CASE \E kind \in Probes \cup {"api"} : Turn(kind)
  <2>1. PICK kind \in Probes \cup {"api"} : Turn(kind)
    BY <1>1
  <2>2. UNCHANGED <<appVars, newVars, healthVars, breaker, req>>
    BY <2>1 DEF Turn
  <2>3. reply'.late = FALSE /\ reply'.by # "outage"
    BY <2>1 DEF Turn, NoReply
  <2>4. ReplyInv'
    BY <2>3, Zenon DEF ReplyInv, ProbesKnow, OutageAfterWithdrawal
  <2>. QED
    BY <1>0, <2>2, <2>4 DEF appVars, newVars, healthVars, RInv, NewInv, HealthInv, ServeInv,
                            BreakerInv, ReqInv, CountInv, Inside, Backends, App!PlanLength
<1>2. CASE OrphanFinishes
  <2>1. /\ inflight[Grpc] > Cardinality(Backends)
        /\ inflight' = [inflight EXCEPT ![Grpc] = @ - 1]
        /\ UNCHANGED <<serve, outcome, server, k>>
        /\ UNCHANGED <<newVars, healthVars, breaker, req>> /\ NoAnswer
    BY <1>2 DEF OrphanFinishes, App!Finish, App!runVars, Backends
  <2>2. HealthInv' /\ BreakerInv' /\ ReqInv' /\ Inside' = Inside /\ Backends' = Backends
    BY <1>0, <2>1 DEF healthVars, HealthInv, BreakerInv, ReqInv, Inside, Backends
  <2>3. /\ inflight'[Rest] = inflight[Rest] /\ inflight'[Grpc] = inflight[Grpc] - 1
        /\ inflight[Grpc] \in Nat
    BY <2>1, AppFacts DEF Rest, Grpc
  <2>4. CountInv'
    BY <1>0, <2>1, <2>2, <2>3, CountsFinite DEF CountInv
  <2>. QED
    BY <2>1, <2>2, <2>4, QuietRInv, NoAnswerReply DEF RInv
<1>3. CASE CircuitCloses
  <2>1. UNCHANGED <<appVars, newVars, healthVars, req>> /\ NoAnswer
    BY <1>3 DEF CircuitCloses
  <2>2. BreakerInv'
    BY <1>0, <1>3 DEF CircuitCloses, BreakerInv
  <2>3. NewInv' /\ HealthInv' /\ ServeInv' /\ ReqInv' /\ CountInv'
    BY <1>0, <2>1 DEF appVars, newVars, healthVars, NewInv, HealthInv, ServeInv, ReqInv,
                      CountInv, Inside, Backends, App!PlanLength
  <2>. QED
    BY <2>1, <2>2, <2>3, NoAnswerReply DEF RInv
<1>. QED
  BY <1>1, <1>2, <1>3

\* Every step keeps the invariant.
LEMMA NextRInv == AppInv /\ RInv /\ [Next]_vars => RInv'
<1> SUFFICES ASSUME AppInv, RInv, [Next]_vars PROVE RInv'
  OBVIOUS
<1>1. CASE \E r \in Req : Request(r)
  BY <1>1, ArriveRInv, ProbeRInv, CallRInv DEF Request
<1>2. CASE UNCHANGED vars
  <2> USE <1>2 DEF vars, appVars, newVars, healthVars
  <2>1. NewInv' /\ HealthInv' /\ ServeInv' /\ BreakerInv'
    BY DEF RInv, NewInv, HealthInv, ServeInv, BreakerInv, App!PlanLength
  <2>2. ReqInv'
    BY DEF RInv, ReqInv
  <2>3. CountInv'
    BY DEF RInv, CountInv, Inside, Backends
  <2>4. ReplyInv'
    BY DEF RInv, ReplyInv, ProbesKnow, OutageAfterWithdrawal
  <2>. QED
    BY <2>1, <2>2, <2>3, <2>4 DEF RInv
<1>. QED
  BY <1>1, <1>2, NewRInv, AppRInv, HookRInv, OtherRInv DEF Next

\* The inductive invariant holds in every behaviour of the runtime.
THEOREM Invariance == Spec => []RInv
  BY InitRInv, NextRInv, AppInvariance, PTL DEF Spec

-----------------------------------------------------------------------------
\* Types, a gateway that counts exactly the requests inside it, and a breaker
\* whose count stays below its threshold (policy.go:413).
THEOREM TypeCorrect == Spec => []TypeOK
<1>1. RInv => TypeOK
  BY DEF RInv, NewInv, HealthInv, BreakerInv, ReqInv, RequestState, CountInv, Backends, TypeOK
<1>. QED
  BY <1>1, Invariance, PTL

\* However probes, hooks and the walk of shutdown() interleave, no late
\* readiness probe is told that the service is ready and no late startup probe
\* is refused (health.go:83-128, service.go:160-168).
THEOREM ProbesAreTold == Spec => []ProbesKnow
<1>1. RInv => ProbesKnow
  BY DEF RInv, ReplyInv
<1>. QED
  BY <1>1, Invariance, PTL

\* Readiness is withdrawn before the gRPC server turns a request away, and
\* telemetry ends when no cleanup is left and every request that is still
\* inside has been reported (service.go:146-207, app.go:115-135).
THEOREM ShutdownIsOrdered == Spec => []ShutdownOrder
<1>1. AppInv /\ RInv => ShutdownOrder
  <2> SUFFICES ASSUME AppInv, RInv PROVE TelemetryLast
    BY DEF RInv, ReplyInv, ShutdownOrder
  <2> SUFFICES ASSUME new = "running", held \cap Telemetry = {}
               PROVE  /\ k > App!PlanLength
                      /\ Inside # {} => <<"component", Rest>> \in shutdownErr
    BY DEF TelemetryLast
  <2>1. k > App!PlanLength
    <3>1. ~(Telemetry \subseteq held)
      BY ServiceAssumption
    <3>2. ~(k <= App!PlanLength)
      BY <3>1 DEF RInv, NewInv
    <3>3. k \in Nat /\ App!PlanLength \in Nat
      BY AppFacts, ServiceAssumption DEF App!PlanLength
    <3>. QED
      BY <3>2, <3>3
  <2>2. Inside # {} => inflight[Rest] > 0
    <3>1. Cardinality(Inside) = 0 <=> Inside = {}
      BY CountsFinite, FS_EmptySet
    <3>. QED
      BY <3>1, CountsFinite DEF RInv, CountInv
  <2>. QED
    BY <2>1, <2>2, AppFacts
<1>. QED
  BY <1>1, Invariance, AppInvariance, PTL
-----------------------------------------------------------------------------
(* The errors on the wire.                                                 *)

\* The answer of the gRPC server to a handler that returned an error.
LEMMA GrpcAnswerFacts ==
    ASSUME NEW chain, IsChain(chain)
    PROVE  LET st == GrpcAnswer(chain)
               replaced == GrpcPolicy /\ HasLink(chain, "deadline")
           IN  /\ st.code = IF replaced THEN "DeadlineExceeded" ELSE FromError(chain).code
               /\ ~replaced /\ HasLink(chain, "app") => st.message = AppOf(chain).public
               /\ st.message = "internal" => replaced \/ FirstLink(chain, "status") > 1
               /\ st.code # "OK" /\ st.message # ""
<1> DEFINE replaced == GrpcPolicy /\ HasLink(chain, "deadline")
<1>1. CASE ~replaced
  <2>1. GRPCUnaryServerInterceptor(chain) = chain
    BY <1>1 DEF GRPCUnaryServerInterceptor, GrpcError
  <2>2. /\ GrpcAnswer(chain).code = NormalizeCode(ServerError(chain).code)
        /\ GrpcAnswer(chain).message = ServerError(chain).public
    BY <2>1 DEF GrpcAnswer, GRPCStatus
  <2>3. NormalizeCode(ServerError(chain).code) # "OK"
    BY DEF NormalizeCode
  <2>. QED
    BY <1>1, <2>2, <2>3, ServerErrorFacts
<1>2. CASE replaced
  <2> DEFINE text == ErrorText(chain)
             link == [kind |-> "status", code |-> "DeadlineExceeded", message |-> text,
                      details |-> {}]
             st == [code |-> link.code, details |-> link.details, message |-> link.message]
  <2>1. GRPCUnaryServerInterceptor(chain) = <<link>>
    BY <1>2 DEF GRPCUnaryServerInterceptor, GrpcError
  <2>2. /\ link.kind = "status"
        /\ st.code = "DeadlineExceeded" /\ st.details = {} /\ st.message = text
    OBVIOUS
  <2> HIDE DEF text, link, st
  <2>3. /\ ~HasLink(<<link>>, "app") /\ HasLink(<<link>>, "status")
        /\ StatusOf(<<link>>) = st
        /\ FromError(<<link>>) = FromStatus(st, <<link>>)
    BY <2>2, SingleStatus DEF st
  <2>4. ServerError(<<link>>) = Wrap(<<link>>, st.code, st.message, st.message, <<>>)
    BY <2>2, <2>3 DEF ServerError, HasErrxDetails
  <2> DEFINE base == FromError(<<link>>)
  <2>5. /\ ServerError(<<link>>).code = PickCode(st.code, base.code)
        /\ ServerError(<<link>>).public = OrDefault(FirstText(st.message, base.public))
    BY <2>4, WrapFacts
  <2> HIDE DEF base
  <2>6. /\ ServerError(<<link>>).code = "DeadlineExceeded"
        /\ ServerError(<<link>>).public # ""
    BY <2>2, <2>5 DEF PickCode, NormalizeCode, OrDefault
  <2>. QED
    BY <1>2, <2>1, <2>6 DEF GrpcAnswer, GRPCStatus, NormalizeCode
<1>. QED
  BY <1>1, <1>2

\* The errors of authorize are as well formed as those of the handlers.
LEMMA AuthorizeChain ==
    ASSUME NEW key
    PROVE  IsChain(Authorize(key))
<1>1. CASE ~AuthEnabled \/ key = "known"
  BY <1>1 DEF Authorize, IsChain
<1>2. CASE ~(~AuthEnabled \/ key = "known")
  <2>1. ASSUME NEW code \in {"Unauthenticated", "PermissionDenied"}
        PROVE  LET e == NewError(code, "internal", "public", <<>>) IN
               IsError(e) /\ e.public = "public"
    <3> DEFINE e == [code |-> NormalizeCode(code), message |-> "internal", public |-> "public",
                     fields |-> MergeFields(<<>>, <<>>), cause |-> <<>>]
               n == FinalizeMessages(e)
    <3>1. NewError(code, "internal", "public", <<>>) = n
      BY DEF NewError
    <3>2. /\ IsRecord(e)
          /\ e.code = code /\ e.public = "public"
      BY <2>1 DEF NormalizeCode, IsRecord
    <3> HIDE DEF e
    <3>3. IsRecord(n) /\ n.code = code /\ n.public = "public"
      BY <3>2, Finalized DEF OrDefault
    <3> HIDE DEF n
    <3>. QED
      BY <2>1, <3>1, <3>3 DEF IsError
  <2>2. PICK e : Authorize(key) = <<[kind |-> "app", error |-> e]>> /\ IsError(e)
                   /\ e.public = "public"
    BY <1>2, <2>1 DEF Authorize
  <2>3. /\ Len(Authorize(key)) = 1
        /\ Authorize(key)[1].kind = "app" /\ Authorize(key)[1].error = e
    BY <2>2
  <2>. QED
    BY <2>2, <2>3 DEF IsChain
<1>. QED
  BY <1>1, <1>2

\* What a handler's error becomes for a gRPC client: the code errx.Code reports
\* on the server, the public text and nothing of the internal one, except where
\* the policy interceptor or a wrapped status puts the text of the whole chain
\* in its place; the client interceptor loses neither (errx.go:180-352,
\* policy.go:270-300, auth.go:60-110).
THEOREM ErrorsOnTheWire == Spec => []WireErrors
<1>1. Init => WireErrors
  <2>1. ASSUME Init PROVE reply.by # "grpc"
    BY <2>1 DEF Init, NoReply
  <2>. QED
    BY <2>1, Zenon DEF WireErrors
<1>2. WireErrors /\ [Next]_vars => WireErrors'
  <2> SUFFICES ASSUME WireErrors, [Next]_vars PROVE WireErrors'
    OBVIOUS
  <2>1. ASSUME reply'.by # "grpc" PROVE WireErrors'
    BY <2>1 DEF WireErrors
  <2>2. ASSUME NoAnswer PROVE WireErrors'
    BY <2>1, <2>2 DEF NoAnswer, NoReply
  <2>3. ASSUME NEW r, NEW status, NEW by \in {"probe", "relay", "outage"}, Answer(r, status, by)
        PROVE  WireErrors'
    BY <2>1, <2>3 DEF Answer, NoReply
  <2>4. ASSUME NEW r \in Req, Backend(r) PROVE WireErrors'
    <3>1. PICK chain \in {Authorize(key) : key \in {"missing", "unknown"}}
                           \cup HandlerErrors \cup {<<>>} : BackendDone(r, chain)
      BY <2>4 DEF Backend
    <3>2. CASE chain = <<>>
      <4>1. reply'.chain = <<>>
        BY <3>1, <3>2 DEF BackendDone, NoReply
      <4>. QED
        BY <4>1 DEF WireErrors
    <3>3. CASE chain # <<>>
      <4>1. IsChain(chain)
        BY <3>3, ErrorsAssumption, AuthorizeChain
      <4> DEFINE st == GrpcAnswer(chain)
      <4>2. reply' = [NoReply EXCEPT !.kind = "api", !.by = "grpc", !.chain = chain,
                                     !.text = st.message, !.code = st.code]
        BY <3>1, <3>3 DEF BackendDone
      <4> HIDE DEF st
      <4>3. reply'.chain = chain /\ reply'.text = st.message /\ reply'.code = st.code
        BY <4>2 DEF NoReply
      <4>4. st.code # "OK" /\ st.message # ""
        BY <4>1, GrpcAnswerFacts DEF st
      <4> DEFINE replaced == GrpcPolicy /\ HasLink(chain, "deadline")
                 seen == Seen(st.code, st.message)
      <4>5. /\ st.code = (IF replaced THEN "DeadlineExceeded" ELSE FromError(chain).code)
            /\ ~replaced /\ HasLink(chain, "app") => st.message = AppOf(chain).public
            /\ st.message = "internal" => replaced \/ FirstLink(chain, "status") > 1
        BY <4>1, GrpcAnswerFacts, Zenon DEF st
      <4>6. seen.code = st.code /\ seen.public = st.message
        <5>1. PICK code, text : code = st.code /\ text = st.message
          OBVIOUS
        <5>2. code # "OK" /\ text # ""
          BY <4>4, <5>1
        <5>3. Seen(code, text).code = code /\ Seen(code, text).public = text
          BY <5>2, ClientSees, Zenon
        <5>. QED
          BY <5>1, <5>3
      <4>. QED
        BY <4>3, <4>5, <4>6, Zenon DEF WireErrors, Seen
    <3>. QED
      BY <3>2, <3>3
  <2>5. CASE NewRefused \/ NewTelemetry \/ NewGRPC \/ NewREST \/ AppRuns \/ HookReturns
               \/ OrphanFinishes \/ CircuitCloses \/ \E c \in {Grpc, Rest} : AppServes(c)
    BY <2>2, <2>5 DEF NewRefused, NewTelemetry, NewGRPC, NewREST, AppRuns, HookReturns,
                      OrphanFinishes, CircuitCloses, AppServes
  <2>6. CASE \E kind \in Probes \cup {"api"} : Turn(kind)
    <3>1. PICK kind \in Probes \cup {"api"} : Turn(kind)
      BY <2>6
    <3>2. reply'.by # "grpc"
      BY <3>1 DEF Turn, NoReply
    <3>. QED
      BY <2>1, <3>2
  <2>7. CASE \E r \in Req : Request(r)
    <3>1. PICK r \in Req : Request(r)
      BY <2>7
    <3>2. CASE \E kind \in Probes \cup {"api"} : Arrive(r, kind)
      BY <2>2, <3>2 DEF Arrive
    <3>3. CASE \E result \in Checks[req[r].kind] : Probe(r, result)
      BY <2>3, <3>3 DEF Probe
    <3>4. CASE Forward(r) \/ Relay(r) \/ Outage(r)
      BY <2>2, <2>3, <3>4 DEF Forward, Relay, Outage
    <3>. QED
      BY <2>4, <3>1, <3>2, <3>3, <3>4 DEF Request
  <2>8. CASE UNCHANGED vars
    BY <2>8 DEF vars, WireErrors
  <2>. QED
    BY <2>5, <2>6, <2>7, <2>8 DEF Next
<1>. QED
  BY <1>1, <1>2, PTL DEF Spec
-----------------------------------------------------------------------------
(* What New leaves behind.                                                 *)

\* What New holds at each of its steps.
HeldInv ==
    /\ new = "begin" => held = {}
    /\ new = "grpc" => held = Telemetry
    /\ new = "rest" => held = Telemetry \cup {"grpcListener"}
    /\ new = "failed" =>
         held \in {{}, {"exporter"}, Telemetry, Telemetry \cup {"grpcListener"}}
    /\ new = "crashed" => held = Telemetry \cup {"grpcListener"}
    /\ "exporter" \in held => new = "failed"
    /\ new = "running" => authKept

\* The client policy a configuration message asks for.
AskedAuth(proto) == IF proto = Nil THEN "none" ELSE proto.auth

\* No conversion between the message and the listener loses the client policy
\* (tlsconfig.go:127-144, 194-230, 359-370).
LEMMA AuthSurvives ==
    ASSUME NilIsNoRecord, NEW proto, AskedAuth(proto) \in ClientAuthModes,
           NEW tls \in ServerConfig(ServerOptionsFromProto(proto)), tls # Failed
    PROVE  AskedAuth(proto) = IF tls = Nil THEN "none" ELSE tls.auth
<1> DEFINE opts == ServerOptionsFromProto(proto)
<1>1. CASE proto = Nil
  BY <1>1 DEF ServerOptionsFromProto, ServerConfig, AskedAuth
<1>2. CASE proto # Nil
  <2> DEFINE out == [cert      |-> MaterialFromProto(proto.cert),
                     key       |-> MaterialFromProto(proto.key),
                     ca        |-> MaterialFromProto(proto.ca),
                     client_ca |-> MaterialFromProto(proto.client_ca),
                     name      |-> proto.name,
                     auth      |-> ClientAuthModeFromProto(proto.auth)]
  <2>1. out.auth = proto.auth /\ proto.auth \in ClientAuthModes
    BY <1>2 DEF AskedAuth, ClientAuthModeFromProto
  <2>2. out # Nil
    BY DEF NilIsNoRecord
  <2>3. opts = out \/ (opts = Nil /\ out.auth = "none")
    BY <1>2 DEF ServerOptionsFromProto
  <2> HIDE DEF out, opts
  <2>4. CASE opts = Nil
    BY <1>2, <2>1, <2>2, <2>3, <2>4 DEF ServerConfig, AskedAuth, opts
  <2>5. CASE opts # Nil
    <3>1. opts.auth = proto.auth
      BY <2>1, <2>3, <2>5
    <3>2. EffectiveClientAuth(opts.auth) = proto.auth
      BY <2>1, <3>1 DEF EffectiveClientAuth, ClientAuthModes
    <3>3. \E pool : tls = [auth |-> proto.auth, pool |-> pool]
      BY <2>5, <3>2 DEF ServerConfig, opts
    <3>4. tls # Nil /\ tls.auth = proto.auth
      BY <3>3 DEF NilIsNoRecord
    <3>. QED
      BY <1>2, <3>4 DEF AskedAuth
  <2>. QED
    BY <2>4, <2>5
<1>. QED
  BY <1>1, <1>2

-----------------------------------------------------------------------------
(* The clients.                                                             *)

\* A TLS configuration that was built is there if and only if options were given,
\* and has their InsecureSkipVerify (tlsconfig.go:359-397).
LEMMA ClientTLS ==
    ASSUME NilIsNoRecord, NEW opts, NEW tls \in ClientConfig(opts), tls # Failed
    PROVE  /\ opts = Nil => tls = Nil
           /\ opts # Nil => tls # Nil /\ tls.skip = opts.skip
<1>1. CASE opts = Nil
  BY <1>1 DEF ClientConfig
<1>2. CASE opts # Nil
  <2>1. \E pool, certificate :
          tls = [pool |-> pool, certificate |-> certificate, name |-> opts.name, skip |-> opts.skip]
    BY <1>2 DEF ClientConfig
  <2>. QED
    BY <1>2, <2>1 DEF NilIsNoRecord
<1>. QED
  BY <1>1, <1>2

\* The outcome of a constructor that got past its TLS settings.
UsesTLS(o, spec) ==
    \E tls \in ClientConfig(ClientOptionsFromProto(spec.tls)) \ {Failed} :
        o.client # Nil /\ (tls # Nil => o.client.tls = tls)

LEMMA SoundOutcomes ==
    ASSUME NilIsNoRecord, NEW outcomes, NEW spec,
           \A o \in outcomes : o = NoClient \/ UsesTLS(o, spec)
    PROVE  Sound(outcomes, spec)
<1> DEFINE options == ClientOptionsFromProto(spec.tls)
<1> SUFFICES ASSUME NEW o \in outcomes
             PROVE  /\ o.client = Nil => ~o.open
                    /\ o.client # Nil /\ options # Nil => o.client.tls \in ClientConfig(options) \ {Failed}
  BY DEF Sound
<1>1. CASE o = NoClient
  BY <1>1 DEF NoClient
<1>2. CASE UsesTLS(o, spec)
  BY <1>2, ClientTLS DEF UsesTLS
<1>. QED
  BY <1>1, <1>2

\* A mode other than allow and prefer asks for one attempt, which is in the clear
\* for disable only (pgxpool.ParseConfig).
LEMMA Attempts ==
    ASSUME NilIsNoRecord, NEW mode
    PROVE  /\ mode \notin {"allow", "prefer"} => Tail(SSLModeAttempts(mode)) = <<>>
           /\ Head(SSLModeAttempts(mode)) = Nil => mode \in {"disable", "allow"}
<1> DEFINE tls == [verify |-> mode \in {"verify-ca", "verify-full"}]
<1>1. tls # Nil
  BY DEF NilIsNoRecord
<1> HIDE DEF tls
<1>2. SSLModeAttempts(mode) = CASE mode = "disable" -> <<Nil>>
                                [] mode = "allow"   -> <<Nil, tls>>
                                [] mode = "prefer"  -> <<tls, Nil>>
                                [] OTHER            -> <<tls>>
  BY DEF SSLModeAttempts, tls
<1>3. Tail(<<Nil>>) = <<>> /\ Tail(<<tls>>) = <<>> /\ Head(<<tls>>) = tls /\ Head(<<tls, Nil>>) = tls
  OBVIOUS
<1>4. CASE mode = "disable"
  BY <1>2, <1>3, <1>4
<1>5. CASE mode = "allow"
  BY <1>5
<1>6. CASE mode = "prefer"
  BY <1>1, <1>2, <1>3, <1>6
<1>7. CASE mode \notin {"disable", "allow", "prefer"}
  BY <1>1, <1>2, <1>3, <1>7
<1>. QED
  BY <1>4, <1>5, <1>6, <1>7

\* A pool has the TLS of the configuration in the place of what the mode asks the
\* first attempt for, the other attempts of the mode, and limits that fit
\* (postgres.go:53-108).
LEMMA PoolSound ==
    ASSUME NilIsNoRecord, NEW s \in Specs.postgres
    PROVE  PoolIsSound(s)
<1> DEFINE mode == SSLMode(s.sslmode)
           Client(tls) == [addr      |-> <<s.host, PostgresDSN(s).port>>,
                           tls       |-> Default(tls, Head(SSLModeAttempts(mode))),
                           fallbacks |-> Tail(SSLModeAttempts(mode)),
                           limits    |-> PoolLimits(s.conn)]
           Open(tls) == {NoClient} \cup IF Overflows(s.conn) THEN {} ELSE {OpenClient(Client(tls))}
           Built == ClientConfig(ClientOptionsFromProto(s.tls))
<1>0. PostgresDSN(s).sslmode = mode
  BY DEF PostgresDSN
<1>1. NewPool(s) = IF s = Nil THEN {}
                   ELSE IF ~ValidPort(PostgresDSN(s).port) THEN {NoClient}
                   ELSE UNION {IF tls = Failed THEN {NoClient} ELSE Open(tls) : tls \in Built}
  BY <1>0 DEF NewPool, WithTLS
<1>2. \A tls : /\ Client(tls) # Nil
               /\ Client(tls).limits = PoolLimits(s.conn)
               /\ Client(tls).fallbacks = Tail(SSLModeAttempts(mode))
               /\ Client(tls).tls = IF tls = Nil THEN Head(SSLModeAttempts(mode)) ELSE tls
  BY DEF NilIsNoRecord, Default
<1> HIDE DEF Client, Built, mode
<1>3. ASSUME NEW o \in NewPool(s)
      PROVE  /\ s # Nil
             /\ o # NoClient => /\ ~Overflows(s.conn)
                                /\ \E tls \in Built \ {Failed} : o = OpenClient(Client(tls))
  BY <1>1
<1>4. ASSUME NEW o \in NewPool(s), o # NoClient PROVE UsesTLS(o, s)
  BY <1>2, <1>3, <1>4 DEF OpenClient, UsesTLS, Built
<1>5. ASSUME NEW o \in NewPool(s), o.client # Nil
      PROVE  /\ mode \notin {"allow", "prefer"} => o.client.fallbacks = <<>>
             /\ o.client.tls = Nil => mode \in {"disable", "allow"}
             /\ s.conn # Nil =>
                  o.client.limits.max = s.conn.max_open /\ s.conn.max_open <= MaxInt
  <2>1. o # NoClient
    BY <1>5 DEF NoClient
  <2>2. PICK tls : o.client = Client(tls)
    BY <1>3, <2>1 DEF OpenClient
  <2>3. mode \notin {"allow", "prefer"} => o.client.fallbacks = <<>>
    BY <1>2, <2>2, Attempts
  <2>4. o.client.tls = Nil => mode \in {"disable", "allow"}
    BY <1>2, <2>2, Attempts
  <2>5. ASSUME s.conn # Nil
        PROVE  o.client.limits.max = s.conn.max_open /\ s.conn.max_open <= MaxInt
    <3>1. o.client.limits = PoolLimits(s.conn)
      BY <1>2, <2>2
    <3>2. s.conn.max_open \in Nat /\ ~(s.conn.max_open > MaxInt)
      BY <1>3, <2>1, <2>5, SpecsAssumption DEF Overflows
    <3>. QED
      BY <2>5, <3>1, <3>2, WidthAssumption DEF PoolLimits
  <2>. QED
    BY <2>3, <2>4, <2>5
<1>. QED
  BY <1>4, <1>5, SoundOutcomes DEF PoolIsSound, mode

\* The other constructors have their settings in one record each.
LEMMA RedisSound ==
    ASSUME NilIsNoRecord, NEW s
    PROVE  Sound(RedisNew(s), s)
<1> DEFINE Built == ClientConfig(ClientOptionsFromProto(s.tls))
<1>1. RedisNew(s) = IF s = Nil THEN {NoClient}
                    ELSE UNION {IF tls = Failed THEN {NoClient}
                                ELSE {NoClient, OpenClient(RedisOptions(s, tls))} : tls \in Built}
  BY DEF RedisNew, WithTLS
<1>2. \A tls : RedisOptions(s, tls) # Nil /\ (tls # Nil => RedisOptions(s, tls).tls = tls)
  BY DEF NilIsNoRecord, RedisOptions
<1> HIDE DEF Built
<1>3. ASSUME NEW o \in RedisNew(s)
      PROVE  o = NoClient \/ \E tls \in Built \ {Failed} : o = OpenClient(RedisOptions(s, tls))
  BY <1>1
<1>4. ASSUME NEW o \in RedisNew(s) PROVE o = NoClient \/ UsesTLS(o, s)
  BY <1>2, <1>3 DEF OpenClient, UsesTLS, Built
<1>. QED
  BY <1>4, SoundOutcomes

LEMMA OracleSound ==
    ASSUME NilIsNoRecord, NEW s
    PROVE  Sound(OracleConnect(s), s)
<1> DEFINE Built == ClientConfig(ClientOptionsFromProto(s.tls))
           Client(tls) == [addr |-> OracleDSN(s), tls |-> tls]
<1>1. OracleConnect(s) = IF ~OracleValid(s) THEN {NoClient}
                         ELSE UNION {IF tls = Failed THEN {NoClient}
                                     ELSE {NoClient, OpenClient(Client(tls))} : tls \in Built}
  BY DEF OracleConnect, WithTLS
<1>2. \A tls : Client(tls) # Nil /\ Client(tls).tls = tls
  BY DEF NilIsNoRecord
<1> HIDE DEF Built, Client
<1>3. ASSUME NEW o \in OracleConnect(s)
      PROVE  o = NoClient \/ \E tls \in Built \ {Failed} : o = OpenClient(Client(tls))
  BY <1>1
<1>4. ASSUME NEW o \in OracleConnect(s) PROVE o = NoClient \/ UsesTLS(o, s)
  BY <1>2, <1>3 DEF OpenClient, UsesTLS, Built
<1>. QED
  BY <1>4, SoundOutcomes

\* The session of Cassandra checks its peer unless the configuration says not to.
LEMMA CassandraSound ==
    ASSUME NilIsNoRecord, NEW s
    PROVE  /\ Sound(CassandraConnect(s), s)
           /\ \A o \in CassandraConnect(s) :
                o.client # Nil /\ o.client.tls # Nil => o.client.verify = ~s.tls.skip
<1> DEFINE options == ClientOptionsFromProto(s.tls)
           Built == ClientConfig(options)
           Client(tls) == [addr   |-> IF s.addrs = <<>> THEN <<"localhost:9042">> ELSE s.addrs,
                           verify |-> tls # Nil /\ ~tls.skip,
                           tls    |-> tls]
<1>1. CassandraConnect(s) = IF s = Nil THEN {NoClient}
                            ELSE UNION {IF tls = Failed THEN {NoClient}
                                        ELSE {NoClient, OpenClient(Client(tls))} : tls \in Built}
  BY DEF CassandraConnect, WithTLS
<1>2. \A tls : Client(tls) # Nil /\ Client(tls).tls = tls /\ Client(tls).verify = (tls # Nil /\ ~tls.skip)
  BY DEF NilIsNoRecord
<1>3. options # Nil => options.skip = s.tls.skip
  BY DEF ClientOptionsFromProto
<1>4. \A tls \in Built \ {Failed} : tls # Nil => tls.skip = s.tls.skip
  <2> SUFFICES ASSUME NEW tls \in Built, tls # Failed, tls # Nil PROVE tls.skip = s.tls.skip
    OBVIOUS
  <2>1. options # Nil /\ tls.skip = options.skip
    BY ClientTLS
  <2>. QED
    BY <1>3, <2>1
<1> HIDE DEF options, Built, Client
<1>5. ASSUME NEW o \in CassandraConnect(s)
      PROVE  o = NoClient \/ \E tls \in Built \ {Failed} : o = OpenClient(Client(tls))
  BY <1>1
<1>6. ASSUME NEW o \in CassandraConnect(s) PROVE o = NoClient \/ UsesTLS(o, s)
  BY <1>2, <1>5 DEF OpenClient, UsesTLS, Built, options
<1>7. ASSUME NEW o \in CassandraConnect(s), o.client # Nil, o.client.tls # Nil
      PROVE  o.client.verify = ~s.tls.skip
  <2>1. o # NoClient
    BY <1>7 DEF NoClient
  <2>2. PICK tls \in Built \ {Failed} : o.client = Client(tls)
    BY <1>5, <2>1 DEF OpenClient
  <2>. QED
    BY <1>2, <1>4, <1>7, <2>2
<1>. QED
  BY <1>6, <1>7, SoundOutcomes

LEMMA S3Sound ==
    ASSUME NilIsNoRecord, NEW s
    PROVE  Sound(S3NewClient(s), s)
<1> DEFINE Built == ClientConfig(ClientOptionsFromProto(s.tls))
<1>1. S3NewClient(s) = IF s = Nil THEN {NoClient}
                       ELSE UNION {IF tls = Failed THEN {NoClient}
                                   ELSE {NoClient, PlainClient(LoadAWSConfig(s, tls))} : tls \in Built}
  BY DEF S3NewClient, WithTLS
<1>2. \A tls : LoadAWSConfig(s, tls) # Nil /\ LoadAWSConfig(s, tls).tls = tls
  BY DEF NilIsNoRecord, LoadAWSConfig
<1> HIDE DEF Built
<1>3. ASSUME NEW o \in S3NewClient(s)
      PROVE  o = NoClient \/ \E tls \in Built \ {Failed} : o = PlainClient(LoadAWSConfig(s, tls))
  BY <1>1
<1>4. ASSUME NEW o \in S3NewClient(s) PROVE o = NoClient \/ UsesTLS(o, s)
  BY <1>2, <1>3 DEF PlainClient, UsesTLS, Built
<1>. QED
  BY <1>4, SoundOutcomes

LEMMA NatsSound ==
    ASSUME NilIsNoRecord, NEW s
    PROVE  Sound(NatsConnect(s), s)
<1> DEFINE Built == ClientConfig(ClientOptionsFromProto(s.tls))
<1>1. NatsConnect(s) = IF s = Nil THEN {NoClient}
                       ELSE UNION {IF tls = Failed THEN {NoClient}
                                   ELSE {NoClient, OpenClient(NatsOptions(s, tls))} : tls \in Built}
  BY DEF NatsConnect, WithTLS
<1>2. \A tls : NatsOptions(s, tls) # Nil /\ NatsOptions(s, tls).tls = tls
  BY DEF NilIsNoRecord, NatsOptions
<1> HIDE DEF Built
<1>3. ASSUME NEW o \in NatsConnect(s)
      PROVE  o = NoClient \/ \E tls \in Built \ {Failed} : o = OpenClient(NatsOptions(s, tls))
  BY <1>1
<1>4. ASSUME NEW o \in NatsConnect(s) PROVE o = NoClient \/ UsesTLS(o, s)
  BY <1>2, <1>3 DEF OpenClient, UsesTLS, Built
<1>. QED
  BY <1>4, SoundOutcomes

LEMMA RabbitSound ==
    ASSUME NilIsNoRecord, NEW s
    PROVE  Sound(RabbitConnect(s), s)
<1> DEFINE Built == ClientConfig(ClientOptionsFromProto(s.tls))
           Client(tls) == [addr |-> s.addrs, tls |-> tls]
<1>1. RabbitConnect(s) = IF s = Nil \/ s.addrs = <<>> THEN {NoClient}
                         ELSE UNION {IF tls = Failed THEN {NoClient}
                                     ELSE {PlainClient(Client(tls))} : tls \in Built}
  BY DEF RabbitConnect, WithTLS
<1>2. \A tls : Client(tls) # Nil /\ Client(tls).tls = tls
  BY DEF NilIsNoRecord
<1> HIDE DEF Built, Client
<1>3. ASSUME NEW o \in RabbitConnect(s)
      PROVE  o = NoClient \/ \E tls \in Built \ {Failed} : o = PlainClient(Client(tls))
  BY <1>1
<1>4. ASSUME NEW o \in RabbitConnect(s) PROVE o = NoClient \/ UsesTLS(o, s)
  BY <1>2, <1>3 DEF PlainClient, UsesTLS, Built
<1>. QED
  BY <1>4, SoundOutcomes

\* Without TLS settings nothing can fail before the client is dialled.
LEMMA NoTLS ==
    ClientConfig(ClientOptionsFromProto(Nil)) = {Nil}
BY DEF ClientConfig, ClientOptionsFromProto

\* The port of an environment is a port, and the helpers of the development
\* make a client for every port and for nothing else (postgres.go:139-170,
\* redis.go:17-39, s3.go:104-145).
LEMMA PortsSound ==
    ASSUME NilIsNoRecord, NEW port
    PROVE  /\ ValidPort(PortFromEnv(port, 1))
           /\ {PoolConfigFromPort("host", port) # Nil}
              \cup {\E o \in RedisClientFromPort("", port, 0) : o.open}
              \cup {\E o \in ClientFromMinIO("", port) : o.client # Nil} = {ValidPort(port)}
<1>1. ValidPort(PortFromEnv(port, 1))
  BY WidthAssumption DEF PortFromEnv, ValidPort
<1>2. (PoolConfigFromPort("host", port) # Nil) = ValidPort(port)
  BY DEF PoolConfigFromPort, ValidPort, NilIsNoRecord
<1>3. (\E o \in RedisClientFromPort("", port, 0) : o.open) = ValidPort(port)
  <2> DEFINE spec == [url |-> "", addrs |-> <<"localhost">>, db |-> 0, tls |-> Nil]
  <2>1. 0 \in 0..MaxInt
    BY WidthAssumption
  <2>2. RedisClientFromPort("", port, 0) = IF ~ValidPort(port) THEN {NoClient} ELSE RedisNew(spec)
    BY <2>1 DEF RedisClientFromPort
  <2>3. spec # Nil /\ spec.tls = Nil
    BY DEF NilIsNoRecord
  <2> HIDE DEF spec
  <2>4. RedisNew(spec) = {NoClient, OpenClient(RedisOptions(spec, Nil))}
    BY <2>3, NoTLS, SpecsAssumption DEF RedisNew, WithTLS
  <2>5. CASE ValidPort(port)
    <3>1. OpenClient(RedisOptions(spec, Nil)).open
      BY DEF OpenClient
    <3>2. \E o \in RedisClientFromPort("", port, 0) : o.open
      BY <2>2, <2>4, <2>5, <3>1
    <3>. QED
      BY <2>5, <3>2 DEF ValidPort
  <2>6. CASE ~ValidPort(port)
    <3>1. ~NoClient.open
      BY DEF NoClient
    <3>2. ~\E o \in RedisClientFromPort("", port, 0) : o.open
      BY <2>2, <2>6, <3>1
    <3>. QED
      BY <2>6, <3>2 DEF ValidPort
  <2>. QED
    BY <2>5, <2>6
<1>4. (\E o \in ClientFromMinIO("", port) : o.client # Nil) = ValidPort(port)
  <2> DEFINE spec == [endpoint |-> <<"localhost", port>>, region |-> "us-east-1",
                      timeout |-> Nil, tls |-> Nil]
  <2>1. ClientFromMinIO("", port) = IF ~ValidPort(port) THEN {NoClient} ELSE S3NewClient(spec)
    BY DEF ClientFromMinIO
  <2>2. spec # Nil /\ spec.tls = Nil
    BY DEF NilIsNoRecord
  <2> HIDE DEF spec
  <2>3. S3NewClient(spec) = {NoClient, PlainClient(LoadAWSConfig(spec, Nil))}
    BY <2>2, NoTLS, SpecsAssumption DEF S3NewClient, WithTLS
  <2>4. LoadAWSConfig(spec, Nil) # Nil
    BY DEF LoadAWSConfig, NilIsNoRecord
  <2>5. CASE ValidPort(port)
    <3>1. PlainClient(LoadAWSConfig(spec, Nil)).client # Nil
      BY <2>4 DEF PlainClient
    <3>2. \E o \in ClientFromMinIO("", port) : o.client # Nil
      BY <2>1, <2>3, <2>5, <3>1
    <3>. QED
      BY <2>5, <3>2 DEF ValidPort
  <2>6. CASE ~ValidPort(port)
    <3>1. NoClient.client = Nil
      BY DEF NoClient
    <3>2. ~\E o \in ClientFromMinIO("", port) : o.client # Nil
      BY <2>1, <2>6, <3>1
    <3>. QED
      BY <2>6, <3>2 DEF ValidPort
  <2>. QED
    BY <2>5, <2>6
<1>. QED
  BY <1>1, <1>2, <1>3, <1>4, Zenon

LEMMA NatsDefaultOpens ==
    ASSUME NilIsNoRecord
    PROVE  \E o \in NatsConnectDefault : o.open
<1> DEFINE spec == [addrs |-> <<"nats://127.0.0.1:4222">>, tls |-> Nil]
<1>1. NatsConnectDefault = NatsConnect(spec)
  BY DEF NatsConnectDefault
<1>2. spec # Nil /\ spec.tls = Nil
  BY DEF NilIsNoRecord
<1> HIDE DEF spec
<1>3. NatsConnect(spec) = {NoClient, OpenClient(NatsOptions(spec, Nil))}
  BY <1>2, NoTLS, SpecsAssumption DEF NatsConnect, WithTLS
<1>. QED
  BY <1>1, <1>3 DEF OpenClient

\* Spans leave the process in the clear only where the endpoint or the
\* environment says so, the ratio is one, whatever the configuration holds, and
\* an exporter without a tracer is one that dials (tracing.go:52-141).
LEMMA TracingHolds ==
    ASSUME NilIsNoRecord, NEW cfg \in Specs.tracing, NEW env
    PROVE  TracingSound(cfg, env)
<1> DEFINE options == ClientOptionsFromProto(cfg.tls)
           Built == ClientConfig(options)
           endpoint == Endpoint(cfg, env)
           Dials == cfg # Nil /\ endpoint # Nil
           insecure == endpoint.scheme = "http" \/ env.insecure
           Exporter(tls) == [addr |-> endpoint.host, protocol |-> cfg.protocol, plain |-> insecure,
                             tls  |-> IF insecure THEN Nil ELSE tls]
           ratio == SamplingRatio(cfg, env)
<1>1. ratio \in 0..100
  BY SpecsAssumption DEF SamplingRatio
<1>2. NewTraceExporter(cfg, env) =
        IF ~Dials THEN {NoClient, PlainClient(Stdout)}
        ELSE UNION {IF tls = Failed THEN {NoClient}
                    ELSE {NoClient, OpenClient(Exporter(tls))} : tls \in Built}
  BY DEF NewTraceExporter, WithTLS
<1>3. \A tls : /\ Exporter(tls).plain = insecure
               /\ ~insecure => Exporter(tls).tls = tls
  OBVIOUS
<1> HIDE DEF Exporter, Built, ratio, Dials
<1>4. ASSUME NEW o \in NewTraceExporter(cfg, env)
      PROVE  /\ o.open => Dials
             /\ o.client # Nil /\ Dials => \E tls \in Built \ {Failed} : o.client = Exporter(tls)
             /\ o.open => o.client # Nil
  <2>1. CASE ~Dials
    BY <1>2, <2>1 DEF NoClient, PlainClient
  <2>2. CASE Dials
    <3>1. o = NoClient \/ \E tls \in Built \ {Failed} : o = OpenClient(Exporter(tls))
      BY <1>2, <2>2
    <3>2. \A tls : Exporter(tls) # Nil
      BY DEF NilIsNoRecord, Exporter
    <3>. QED
      BY <2>2, <3>1, <3>2 DEF NoClient, OpenClient
  <2>. QED
    BY <2>1, <2>2
<1> SUFFICES ASSUME NEW t \in InitTracer(cfg, env)
             PROVE  /\ t.open => Dials /\ Built # {Failed}
                    /\ t.client # Nil =>
                         /\ t.client.ratio \in 0..100
                         /\ Dials =>
                              /\ Built # {Failed}
                              /\ t.client.exporter.plain => env.insecure \/ endpoint.scheme = "http"
                              /\ ~t.client.exporter.plain /\ options # Nil =>
                                   t.client.exporter.tls \in Built \ {Failed}
  BY DEF TracingSound, Built, Dials
<1>5. PICK o \in NewTraceExporter(cfg, env) :
        t \in IF o.client = Nil THEN {NoClient}
              ELSE {[client |-> [exporter |-> o.client, ratio |-> ratio], open |-> o.open],
                    [client |-> Nil, open |-> o.open]}
  BY DEF InitTracer, ratio
<1>6. t.open => o.open /\ o.client # Nil
  BY <1>4, <1>5 DEF NoClient
<1>7. t.client # Nil => /\ o.client # Nil
                       /\ t.client.exporter = o.client
                       /\ t.client.ratio = ratio
  BY <1>5 DEF NoClient
<1>8. ASSUME o.client # Nil, Dials
      PROVE  /\ Built # {Failed}
             /\ o.client.plain => env.insecure \/ endpoint.scheme = "http"
             /\ ~o.client.plain /\ options # Nil => o.client.tls \in Built \ {Failed}
  <2>1. PICK tls \in Built \ {Failed} : o.client = Exporter(tls)
    BY <1>4, <1>8
  <2>. QED
    BY <1>3, <2>1
<1>. QED
  BY <1>1, <1>4, <1>6, <1>7, <1>8

\* Every constructor of a client is sound, for every configuration considered.
LEMMA ClientsAreSound ==
    ASSUME NilIsNoRecord
    PROVE  ClientsSound
BY PoolSound, RedisSound, OracleSound, CassandraSound, S3Sound, NatsSound, RabbitSound,
   PortsSound, NatsDefaultOpens, TracingHolds, Zenon DEF ClientsSound

-----------------------------------------------------------------------------
\* Whatever configuration message the gateway is given: where New gives up it
\* holds no REST listener and telemetry wholly or not at all, an exporter without
\* a tracer only by itself, and where it succeeds the listener asks its clients
\* for what the message asks for (service.go:120-207, gateway.go:102-107,
\* tlsconfig.go:127-230).  And every client it is given was built with the TLS
\* settings of its configuration, or not at all; a pool is left with an attempt
\* to connect that has none of them by the modes allow and prefer only
\* (sdk/transport/db, queue and storage, tracing.go).
THEOREM ConstructionIsSound ==
    ASSUME NilIsNoRecord,
           \A opts \in RestOptions : \E proto :
             /\ AskedAuth(proto) \in ClientAuthModes
             /\ opts.asked = AskedAuth(proto)
             /\ opts.tls = ServerOptionsFromProto(proto)
    PROVE  Spec => []ConstructionSound
<1>1. Init => HeldInv
  <2>1. ASSUME Init PROVE new = "begin" /\ held = {}
    BY <2>1 DEF Init
  <2>. QED
    BY <2>1 DEF HeldInv
<1>2. HeldInv /\ [Next]_vars => HeldInv'
  <2> SUFFICES ASSUME HeldInv, [Next]_vars PROVE HeldInv'
    OBVIOUS
  <2>1. CASE NewRefused \/ NewTelemetry \/ NewGRPC
    BY <2>1, ServiceAssumption DEF NewRefused, NewTelemetry, NewGRPC, HeldInv
  <2>2. CASE NewREST
    <3>1. PICK opts \in RestOptions : \E out \in GatewayNew(opts) :
            /\ new' = CASE out.result = "ok" -> "running"
                        [] out.result = "error" -> "failed"
                        [] out.result = "panic" -> "crashed"
            /\ held' = IF out.bound THEN held \cup {"restListener"} ELSE held
            /\ authKept' = (out.result = "ok" =>
                              opts.asked = (IF out.tls = Nil THEN "none" ELSE out.tls.auth))
      BY <2>2 DEF NewREST
    <3>2. PICK out \in GatewayNew(opts) :
            /\ new' = CASE out.result = "ok" -> "running"
                        [] out.result = "error" -> "failed"
                        [] out.result = "panic" -> "crashed"
            /\ held' = IF out.bound THEN held \cup {"restListener"} ELSE held
            /\ authKept' = (out.result = "ok" =>
                              opts.asked = (IF out.tls = Nil THEN "none" ELSE out.tls.auth))
      BY <3>1
    <3>3. out.result \in {"ok", "error", "panic"} /\ (out.bound => out.result = "ok")
      BY GatewayResults
    <3>4. CASE out.result = "ok"
      <4>1. PICK proto : /\ AskedAuth(proto) \in ClientAuthModes
                         /\ opts.asked = AskedAuth(proto)
                         /\ opts.tls = ServerOptionsFromProto(proto)
        OBVIOUS
      <4>2. out.tls \in ServerConfig(opts.tls) /\ out.tls # Failed
        BY <3>4, GatewayListens
      <4>3. opts.asked = IF out.tls = Nil THEN "none" ELSE out.tls.auth
        BY <4>1, <4>2, AuthSurvives
      <4>4. authKept' /\ new' = "running"
        BY <3>2, <3>4, <4>3
      <4>5. "exporter" \notin held'
        BY <2>2, <3>2, ServiceAssumption DEF NewREST, HeldInv
      <4>. QED
        BY <4>4, <4>5 DEF HeldInv
    <3>5. CASE out.result # "ok"
      <4>1. new' \in {"failed", "crashed"} /\ held' = held
        BY <3>2, <3>3, <3>5
      <4>. QED
        BY <2>2, <4>1 DEF NewREST, HeldInv
    <3>. QED
      BY <3>4, <3>5
  <2>3. CASE HookReturns
    BY <2>3 DEF HookReturns, HeldInv
  <2>4. ASSUME UNCHANGED newVars PROVE HeldInv'
    BY <2>4 DEF newVars, HeldInv
  <2>5. CASE AppRuns \/ OrphanFinishes \/ CircuitCloses \/ (\E c \in {Grpc, Rest} : AppServes(c))
               \/ (\E kind \in Probes \cup {"api"} : Turn(kind)) \/ UNCHANGED vars
    BY <2>4, <2>5 DEF AppRuns, OrphanFinishes, CircuitCloses, AppServes, Turn, vars
  <2>6. CASE \E r \in Req : Request(r)
    <3>1. PICK r \in Req : Request(r)
      BY <2>6
    <3>2. CASE \E result \in Checks[req[r].kind] : Probe(r, result)
      BY <2>4, <3>2 DEF Probe
    <3>3. CASE \E kind \in Probes \cup {"api"} : Arrive(r, kind)
      BY <2>4, <3>3 DEF Arrive
    <3>4. CASE Forward(r) \/ Backend(r) \/ Relay(r) \/ Outage(r)
      BY <2>4, <3>4 DEF Forward, Backend, BackendDone, Relay, Outage
    <3>. QED
      BY <3>1, <3>2, <3>3, <3>4 DEF Request
  <2>. QED
    BY <2>1, <2>2, <2>3, <2>5, <2>6 DEF Next
<1>3. HeldInv => ConstructionSound
  <2>1. HeldInv => NewIsSound
    BY ServiceAssumption DEF HeldInv, NewIsSound
  <2>. QED
    BY <2>1, ClientsAreSound DEF ConstructionSound
<1>. QED
  BY <1>1, <1>2, <1>3, PTL DEF Spec
=============================================================================
