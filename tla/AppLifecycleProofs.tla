------------------------- MODULE AppLifecycleProofs -------------------------
(* Proofs about AppLifecycle, for any number of hooks, components and        *)
(* cleanups and any bound on the requests.                                   *)
EXTENDS AppLifecycle, FiniteSets, FiniteSetTheorems, TLAPS

Exited == {c \in Component : serve[c] = "exited"}

\* What the position of shutdown() says about the components.
PositionInv ==
    /\ pc = "select" => k = 1 /\ ~busy /\ runErr = {}
    /\ pc \in {"wait", "done"} => k = PlanLength + 1 /\ ~busy
    /\ busy => k <= PlanLength
    /\ \A c \in Component :
         /\ NBefore + c < k => server[c] \in {"drained", "forced"}
         /\ k < NBefore + c => server[c] = "up"
         /\ k = NBefore + c /\ ~busy => server[c] = "up"
         /\ k = NBefore + c /\ busy => server[c] \in {"draining", "drained"}

\* A drained component has no handler; a component stopped by force was reported.
DrainInv ==
    \A c \in Component :
        /\ server[c] = "drained" => inflight[c] = 0
        /\ server[c] = "forced" => <<"component", c>> \in shutdownErr

\* Where the result of every Serve that returned is.
ResultInv ==
    /\ Len(errCh) <= Cardinality(Exited)
    /\ \A c \in Component :
         /\ serve[c] = "exited" <=> outcome[c] # "none"
         /\ outcome[c] = "err" =>
              \/ <<"serve", c>> \in runErr
              \/ \E i \in 1..Len(errCh) : errCh[i] = c
    /\ chClosed => pc = "done" /\ errCh = <<>> /\ \A c \in Component : serve[c] = "exited"
    /\ pc = "done" => chClosed \/ <<"wait", 0>> \in shutdownErr

IInv == TypeOK /\ PositionInv /\ DrainInv /\ ResultInv

-----------------------------------------------------------------------------
\* Where the components are in Plan, and that every entry is a possible error.
LEMMA PlanShape ==
    ASSUME NEW i \in 1..PlanLength
    PROVE  /\ Plan[i] \in Errors
           /\ Plan[i][1] = "component" =>
                /\ Plan[i] = <<"component", i - NBefore>>
                /\ Plan[i][2] = i - NBefore
                /\ i - NBefore \in Component
           /\ Plan[i][1] # "component" =>
                \A c \in Component : i # NBefore + c
<1> USE LifecycleAssumption
<1>1. CASE i <= NBefore
  <2>1. Plan[i] = <<"before", i>>
    BY <1>1 DEF Plan, PlanLength
  <2>. QED
    BY <1>1, <2>1 DEF Errors, Component, PlanLength
<1>2. CASE i > NBefore /\ i <= NBefore + NComponents
  <2>1. Plan[i] = <<"component", i - NBefore>>
    BY <1>2 DEF Plan, PlanLength
  <2>. QED
    BY <1>2, <2>1 DEF Errors, Component, PlanLength
<1>3. CASE i > NBefore + NComponents
  <2>1. Plan[i] = <<"cleanup", PlanLength + 1 - i>>
    BY <1>3 DEF Plan, PlanLength
  <2>2. PlanLength + 1 - i \in 1..NCleanups
    BY <1>3 DEF PlanLength
  <2>. QED
    BY <1>3, <2>1, <2>2 DEF Errors, Component, PlanLength
<1>. QED
  BY <1>1, <1>2, <1>3 DEF PlanLength

\* The exited goroutines are finitely many, at most one per component.
LEMMA ExitedCardinality ==
    /\ IsFiniteSet(Exited)
    /\ Cardinality(Exited) \in Nat
    /\ Cardinality(Exited) <= NComponents
<1>1. IsFiniteSet(Component) /\ Cardinality(Component) = NComponents
  BY FS_Interval, LifecycleAssumption DEF Component
<1>2. Exited \subseteq Component
  BY DEF Exited
<1>. QED
  BY <1>1, <1>2, FS_Subset, FS_CardinalityType

\* A goroutine that exits leaves room for its result in the channel.
LEMMA ExitGrows ==
    ASSUME NEW c \in Component, serve \in [Component -> {"new", "serving", "exited"}],
           serve[c] # "exited", serve' = [serve EXCEPT ![c] = "exited"]
    PROVE  /\ Cardinality(Exited') = Cardinality(Exited) + 1
           /\ Cardinality(Exited') <= NComponents
<1>1. Exited' = Exited \cup {c} /\ c \notin Exited
  BY DEF Exited
<1>2. Cardinality(Exited \cup {c}) = Cardinality(Exited) + 1
  BY <1>1, ExitedCardinality, FS_AddElement
<1>3. IsFiniteSet(Component) /\ Cardinality(Component) = NComponents
  BY FS_Interval, LifecycleAssumption DEF Component
<1>4. Exited' \subseteq Component
  BY DEF Exited
<1>. QED
  BY <1>1, <1>2, <1>3, <1>4, FS_Subset

-----------------------------------------------------------------------------
\* The initial state satisfies the invariant.
LEMMA InitIInv == Init => IInv
<1> SUFFICES ASSUME Init PROVE IInv
  OBVIOUS
<1> USE LifecycleAssumption
<1>1. TypeOK
  <2>1. errCh \in Seq(Component) /\ Len(errCh) = 0
    BY DEF Init
  <2>2. k \in 1..PlanLength + 1
    BY DEF Init, PlanLength
  <2>3. inflight \in [Component -> 0..MaxInflight]
    BY DEF Init
  <2>4. /\ serve \in [Component -> {"new", "serving", "exited"}]
        /\ outcome \in [Component -> {"none", "nil", "closed", "err"}]
        /\ server \in [Component -> {"up", "draining", "drained", "forced"}]
    BY DEF Init
  <2>5. ctxDone \in BOOLEAN /\ chClosed \in BOOLEAN /\ busy \in BOOLEAN
    BY Zenon DEF Init
  <2>6. Len(errCh) <= NComponents
    BY <2>1
  <2>7. runErr \in SUBSET Errors /\ shutdownErr \in SUBSET Errors
    BY DEF Init
  <2>. QED
    BY <2>1, <2>2, <2>3, <2>4, <2>5, <2>6, <2>7 DEF Init, TypeOK
<1>2. PositionInv
  BY DEF Init, PositionInv, PlanLength, Component
<1>3. DrainInv
  BY DEF Init, DrainInv
<1>4. ResultInv
  BY ExitedCardinality DEF Init, ResultInv
<1>. QED
  BY <1>1, <1>2, <1>3, <1>4 DEF IInv

\* A goroutine that exits adds its result to the channel.
LEMMA ExitIInv ==
    ASSUME IInv, NEW c \in Component, NEW r \in {"nil", "closed", "err"},
           serve[c] # "exited", Exit(c, r),
           UNCHANGED <<ctxDone, server, inflight, runVars, deadline>>
    PROVE  IInv'
<1> USE LifecycleAssumption DEF runVars
<1>1. Len(errCh') = Len(errCh) + 1 /\ errCh' \in Seq(Component)
  BY DEF Exit, IInv, TypeOK
<1>2. Len(errCh') <= Cardinality(Exited') /\ Len(errCh') <= NComponents
  <2>1. Cardinality(Exited') = Cardinality(Exited) + 1
        /\ Cardinality(Exited') <= NComponents
    BY ExitGrows DEF Exit, IInv, TypeOK
  <2>. QED
    BY <1>1, <2>1, ExitedCardinality DEF IInv, TypeOK, ResultInv
<1>3. TypeOK'
  BY <1>1, <1>2 DEF Exit, IInv, TypeOK, Component
<1>4. PositionInv' /\ DrainInv'
  BY DEF IInv, PositionInv, DrainInv
<1>5. ~chClosed
  BY DEF IInv, ResultInv
<1>6. ASSUME NEW d \in Component
      PROVE  /\ (serve[d] = "exited" <=> outcome[d] # "none")'
             /\ outcome'[d] = "err" =>
                  \/ <<"serve", d>> \in runErr'
                  \/ \E i \in 1..Len(errCh') : errCh'[i] = d
  <2>1. CASE d = c
    <3>1. errCh'[Len(errCh')] = c /\ Len(errCh') \in 1..Len(errCh')
      BY <1>1 DEF Exit, IInv, TypeOK
    <3>. QED
      BY <2>1, <3>1 DEF Exit, IInv, TypeOK
  <2>2. CASE d # c
    <3>1. serve'[d] = serve[d] /\ outcome'[d] = outcome[d]
      BY <2>2 DEF Exit, IInv, TypeOK
    <3>2. \A i \in 1..Len(errCh) : i \in 1..Len(errCh') /\ errCh'[i] = errCh[i]
      BY <1>1 DEF Exit, IInv, TypeOK
    <3>. QED
      BY <3>1, <3>2 DEF IInv, ResultInv
  <2>. QED
    BY <2>1, <2>2
<1>7. ResultInv'
  BY <1>2, <1>5, <1>6 DEF IInv, ResultInv
<1>. QED
  BY <1>3, <1>4, <1>7 DEF IInv

\* The steps of a component keep the invariant.
LEMMA ComponentIInv ==
    ASSUME IInv, NEW c \in Component, ComponentStep(c)
    PROVE  IInv'
<1> USE LifecycleAssumption DEF runVars, IInv
<1>1. CASE ServeStart(c)
  <2>1. CASE server[c] = "up"
    <3>1. Exited' = Exited
      BY <1>1, <2>1 DEF ServeStart, TypeOK, Exited
    <3>2. TypeOK'
      BY <1>1, <2>1 DEF ServeStart, TypeOK
    <3>3. PositionInv' /\ DrainInv'
      BY <1>1, <2>1 DEF ServeStart, PositionInv, DrainInv
    <3>4. ResultInv'
      BY <1>1, <2>1, <3>1 DEF ServeStart, ResultInv, TypeOK
    <3>. QED
      BY <3>2, <3>3, <3>4
  <2>2. CASE server[c] # "up"
    BY <1>1, <2>2, ExitIInv DEF ServeStart
  <2>. QED
    BY <2>1, <2>2
<1>2. CASE ServeFail(c)
  BY <1>2, ExitIInv DEF ServeFail
<1>3. CASE ServeReturn(c)
  BY <1>3, ExitIInv DEF ServeReturn
<1>4. CASE Accept(c) \/ Finish(c)
  <2>1. TypeOK' /\ Exited' = Exited
    <3>1. inflight' \in [Component -> 0..MaxInflight]
      <4>1. CASE Accept(c)
        BY <4>1 DEF Accept, TypeOK
      <4>2. CASE Finish(c)
        BY <4>2 DEF Finish, TypeOK
      <4>. QED
        BY <1>4, <4>1, <4>2
    <3>2. UNCHANGED <<ctxDone, serve, outcome, server, errCh, runVars, deadline>>
      BY <1>4 DEF Accept, Finish
    <3>. QED
      BY <3>1, <3>2 DEF TypeOK, Exited
  <2>2. PositionInv' /\ ResultInv'
    BY <1>4, <2>1 DEF Accept, Finish, PositionInv, ResultInv
  <2>3. server[c] # "drained"
    <3>1. CASE Accept(c)
      BY <3>1 DEF Accept
    <3>2. CASE Finish(c)
      <4>1. inflight[c] \in Int
        BY DEF TypeOK
      <4>2. inflight[c] > 0
        BY <3>2 DEF Finish
      <4>3. server[c] = "drained" => inflight[c] = 0
        BY DEF DrainInv
      <4>. QED
        BY <4>1, <4>2, <4>3
    <3>. QED
      BY <1>4, <3>1, <3>2
  <2>4. \A d \in Component : d # c => inflight'[d] = inflight[d]
    BY <1>4 DEF Accept, Finish, TypeOK
  <2>5. DrainInv'
    BY <1>4, <2>3, <2>4 DEF Accept, Finish, DrainInv
  <2>. QED
    BY <2>1, <2>2, <2>5
<1>5. CASE Drain(c)
  <2>1. TypeOK' /\ Exited' = Exited
    BY <1>5 DEF Drain, TypeOK, Exited
  <2>2. PositionInv'
    BY <1>5 DEF Drain, PositionInv, TypeOK, Component
  <2>3. DrainInv' /\ ResultInv'
    BY <1>5, <2>1 DEF Drain, DrainInv, ResultInv, TypeOK
  <2>. QED
    BY <2>1, <2>2, <2>3
<1>. QED
  BY <1>1, <1>2, <1>3, <1>4, <1>5 DEF ComponentStep
-----------------------------------------------------------------------------
\* Leaving the first select.
LEMMA SelectIInv ==
    ASSUME IInv, SelectResult \/ SelectCtx
    PROVE  IInv'
<1> USE LifecycleAssumption DEF IInv, componentVars, BeginShutdown
<1>1. CASE SelectResult
  <2>1. Exited' = Exited /\ pc = "select" /\ ~chClosed
    BY <1>1 DEF SelectResult, Exited, ResultInv
  <2>2. /\ Head(errCh) \in Component
        /\ errCh' \in Seq(Component)
        /\ Len(errCh') = Len(errCh) - 1
        /\ Len(errCh) \in Nat
        /\ \A i \in 1..Len(errCh) : i = 1 \/ errCh'[i - 1] = errCh[i]
        /\ Head(errCh) = errCh[1]
    BY <1>1 DEF SelectResult, TypeOK
  <2>3. runErr' \in SUBSET Errors
    BY <1>1, <2>2 DEF SelectResult, ServeErrors, Errors
  <2>4. TypeOK'
    <3>1. Len(errCh') <= NComponents
      BY <2>2 DEF TypeOK
    <3>. QED
      BY <1>1, <2>2, <2>3, <3>1 DEF SelectResult, TypeOK
  <2>5. PositionInv' /\ DrainInv'
    BY <1>1 DEF SelectResult, PositionInv, DrainInv
  <2>6. ASSUME NEW c \in Component, outcome[c] = "err"
        PROVE  <<"serve", c>> \in runErr' \/ \E i \in 1..Len(errCh') : errCh'[i] = c
    <3>1. CASE Head(errCh) = c
      BY <1>1, <2>6, <3>1 DEF SelectResult, ServeErrors
    <3>2. CASE Head(errCh) # c
      <4>1. PICK i \in 1..Len(errCh) : errCh[i] = c
        BY <2>1, <2>6 DEF ResultInv, PositionInv
      <4>2. i # 1 /\ i - 1 \in 1..Len(errCh') /\ errCh'[i - 1] = c
        BY <2>2, <3>2, <4>1
      <4>. QED
        BY <4>2
    <3>. QED
      BY <3>1, <3>2
  <2>7. Len(errCh') <= Cardinality(Exited')
    BY <2>1, <2>2, ExitedCardinality DEF ResultInv
  <2>8. ResultInv'
    BY <1>1, <2>1, <2>6, <2>7 DEF SelectResult, ResultInv
  <2>. QED
    BY <2>4, <2>5, <2>8
<1>2. CASE SelectCtx
  <2>1. Exited' = Exited /\ ~chClosed
    BY <1>2 DEF SelectCtx, Exited, ResultInv
  <2>2. TypeOK'
    BY <1>2 DEF SelectCtx, TypeOK
  <2>3. PositionInv' /\ DrainInv'
    BY <1>2 DEF SelectCtx, PositionInv, DrainInv
  <2>4. ResultInv'
    BY <1>2, <2>1 DEF SelectCtx, ResultInv
  <2>. QED
    BY <2>2, <2>3, <2>4
<1>. QED
  BY <1>1, <1>2
-----------------------------------------------------------------------------
\* The calls shutdown() makes, and their returns.
LEMMA StoppingIInv ==
    ASSUME IInv, CallHook \/ CallComponent \/ HookReturn \/ ComponentDrained
                   \/ ComponentTimeout \/ EndShutdown
    PROVE  IInv'
<1> USE LifecycleAssumption DEF IInv, componentVars
<1>1. CASE CallHook
  <2>1. k \in 1..PlanLength /\ Plan[k][1] # "component"
    BY <1>1 DEF CallHook, IsHookCall, TypeOK
  <2>2. \A c \in Component : k # NBefore + c
    BY <2>1, PlanShape
  <2>3. Exited' = Exited
    BY <1>1 DEF CallHook, Exited
  <2>4. TypeOK'
    BY <1>1 DEF CallHook, TypeOK
  <2>5. PositionInv'
    BY <1>1, <2>1, <2>2 DEF CallHook, IsHookCall, PositionInv
  <2>6. DrainInv' /\ ResultInv'
    BY <1>1, <2>3 DEF CallHook, DrainInv, ResultInv
  <2>. QED
    BY <2>4, <2>5, <2>6
<1>2. CASE CallComponent
  <2>1. k \in 1..PlanLength /\ Plan[k][1] = "component"
    BY <1>2 DEF CallComponent, IsComponentCall, TypeOK
  <2>2. Plan[k][2] = k - NBefore /\ k - NBefore \in Component
    BY <2>1, PlanShape
  <2>3. Exited' = Exited
    BY <1>2 DEF CallComponent, Exited
  <2>4. TypeOK'
    BY <1>2, <2>2 DEF CallComponent, TypeOK
  <2>5. \A c \in Component : server'[c] = IF NBefore + c = k THEN "draining" ELSE server[c]
    BY <1>2, <2>1, <2>2 DEF CallComponent, TypeOK, Component
  <2>6. PositionInv'
    BY <1>2, <2>1, <2>5 DEF CallComponent, IsComponentCall, PositionInv, Component
  <2>7. DrainInv' /\ ResultInv'
    BY <1>2, <2>3, <2>5 DEF CallComponent, DrainInv, ResultInv
  <2>. QED
    BY <2>4, <2>6, <2>7
<1>3. CASE HookReturn
  <2>1. k \in 1..PlanLength /\ Plan[k][1] # "component"
    BY <1>3 DEF HookReturn, IsHookCall, TypeOK
  <2>2. (\A c \in Component : k # NBefore + c) /\ Plan[k] \in Errors
    BY <2>1, PlanShape
  <2>3. PICK failed \in BOOLEAN : Return(failed)
    BY <1>3 DEF HookReturn
  <2>4. /\ Exited' = Exited
        /\ shutdownErr' \in SUBSET Errors
        /\ shutdownErr \subseteq shutdownErr'
    BY <2>2, <2>3 DEF Return, Exited, TypeOK
  <2>5. k' = k + 1 /\ k' \in 1..PlanLength + 1 /\ busy' = FALSE
    BY <2>1, <2>3 DEF Return, PlanLength
  <2>6. TypeOK'
    BY <1>3, <2>3, <2>4, <2>5 DEF HookReturn, Return, TypeOK
  <2>7. PositionInv'
    BY <1>3, <2>1, <2>2, <2>3, <2>5 DEF HookReturn, IsHookCall, Return, PositionInv, Component
  <2>8. DrainInv' /\ ResultInv'
    BY <1>3, <2>3, <2>4 DEF HookReturn, Return, DrainInv, ResultInv
  <2>. QED
    BY <2>6, <2>7, <2>8
<1>4. CASE ComponentDrained \/ ComponentTimeout
  <2>0. IsComponentCall
    BY <1>4 DEF ComponentDrained, ComponentTimeout
  <2>1. k \in 1..PlanLength /\ Plan[k][1] = "component"
    BY <2>0 DEF IsComponentCall, TypeOK
  <2> DEFINE c0 == k - NBefore
  <2>2. Plan[k] = <<"component", c0>> /\ Plan[k][2] = c0 /\ c0 \in Component /\ Plan[k] \in Errors
    BY <2>1, PlanShape
  <2>3. PICK failed \in BOOLEAN : Return(failed) /\ (ComponentTimeout => failed)
    BY <1>4 DEF ComponentDrained, ComponentTimeout
  <2>4. /\ Exited' = Exited
        /\ shutdownErr' \in SUBSET Errors
        /\ shutdownErr \subseteq shutdownErr'
        /\ failed => <<"component", c0>> \in shutdownErr'
    BY <2>2, <2>3 DEF Return, Exited, TypeOK
  <2>5. k' = k + 1 /\ k' \in 1..PlanLength + 1 /\ busy' = FALSE /\ busy
    BY <2>1, <2>3 DEF Return, PlanLength
  <2>6. /\ server' \in [Component -> {"up", "draining", "drained", "forced"}]
        /\ server'[c0] = "drained" \/ (server'[c0] = "forced" /\ failed)
        /\ server'[c0] = "drained" => server[c0] = "drained"
        /\ \A c \in Component : c # c0 => server'[c] = server[c]
    <3>1. CASE ComponentDrained
      BY <2>2, <3>1 DEF ComponentDrained, TypeOK
    <3>2. CASE ComponentTimeout
      BY <2>2, <2>3, <3>2 DEF ComponentTimeout, TypeOK
    <3>. QED
      BY <1>4, <3>1, <3>2
  <2>7. TypeOK'
    BY <2>3, <2>4, <2>5, <2>6 DEF Return, TypeOK
  <2>8. PositionInv'
    <3>1. pc' = "stopping"
      BY <1>4, <2>3 DEF Return, ComponentDrained, ComponentTimeout, IsComponentCall
    <3>2. ASSUME NEW c \in Component
          PROVE  /\ NBefore + c < k' => server'[c] \in {"drained", "forced"}
                 /\ k' <= NBefore + c => server'[c] = "up"
      BY <2>1, <2>2, <2>5, <2>6 DEF PositionInv, Component
    <3>. QED
      BY <2>5, <3>1, <3>2 DEF PositionInv, Component
  <2>9. DrainInv'
    BY <2>2, <2>3, <2>4, <2>6 DEF Return, DrainInv
  <2>10. ResultInv'
    BY <2>3, <2>4 DEF Return, ResultInv
  <2>. QED
    BY <2>7, <2>8, <2>9, <2>10
<1>5. CASE EndShutdown
  <2>1. Exited' = Exited /\ k = PlanLength + 1 /\ ~busy
    BY <1>5 DEF EndShutdown, Exited, TypeOK, PositionInv, PlanLength
  <2>2. TypeOK'
    BY <1>5 DEF EndShutdown, TypeOK
  <2>3. PositionInv' /\ DrainInv'
    BY <1>5, <2>1 DEF EndShutdown, PositionInv, DrainInv
  <2>4. ResultInv'
    BY <1>5, <2>1 DEF EndShutdown, ResultInv
  <2>. QED
    BY <2>2, <2>3, <2>4
<1>. QED
  BY <1>1, <1>2, <1>3, <1>4, <1>5
\* The second select.
LEMMA WaitIInv ==
    ASSUME IInv, WaitAll \/ WaitTimeout
    PROVE  IInv'
<1> USE LifecycleAssumption DEF IInv, componentVars
<1>1. CASE WaitAll
  <2>1. Exited' = Exited /\ errCh' \in Seq(Component) /\ Len(errCh') = 0
    BY <1>1 DEF WaitAll, Exited
  <2>2. runErr' \in SUBSET Errors /\ runErr \subseteq runErr'
    <3>1. \A i \in 1..Len(errCh) : errCh[i] \in Component
      BY DEF TypeOK
    <3>. QED
      BY <1>1, <3>1 DEF WaitAll, ServeErrors, TypeOK, Errors
  <2>3. Len(errCh') <= NComponents /\ chClosed' \in BOOLEAN
    BY <1>1, <2>1 DEF WaitAll
  <2>4. TypeOK'
    BY <1>1, <2>1, <2>2, <2>3 DEF WaitAll, TypeOK
  <2>5. PositionInv' /\ DrainInv'
    BY <1>1 DEF WaitAll, PositionInv, DrainInv
  <2>6. Len(errCh') <= Cardinality(Exited')
    BY <2>1, ExitedCardinality
  <2>7. ASSUME NEW c \in Component, outcome[c] = "err"
        PROVE  <<"serve", c>> \in runErr'
    BY <1>1, <2>2, <2>7 DEF WaitAll, ServeErrors, ResultInv
  <2>8. ResultInv'
    BY <1>1, <2>6, <2>7 DEF WaitAll, ResultInv
  <2>. QED
    BY <2>4, <2>5, <2>8
<1>2. CASE WaitTimeout
  <2>1. Exited' = Exited /\ shutdownErr' \in SUBSET Errors
    BY <1>2 DEF WaitTimeout, Exited, TypeOK, Errors
  <2>2. TypeOK'
    BY <1>2, <2>1 DEF WaitTimeout, TypeOK
  <2>3. PositionInv' /\ DrainInv'
    BY <1>2 DEF WaitTimeout, PositionInv, DrainInv
  <2>4. ResultInv'
    BY <1>2, <2>1 DEF WaitTimeout, ResultInv
  <2>. QED
    BY <2>2, <2>3, <2>4
<1>. QED
  BY <1>1, <1>2

\* Every step keeps the invariant.
LEMMA NextIInv == IInv /\ [Next]_vars => IInv'
<1> SUFFICES ASSUME IInv, [Next]_vars PROVE IInv'
  OBVIOUS
<1>1. CASE Cancel \/ Expire
  <2>1. Exited' = Exited /\ ctxDone' \in BOOLEAN /\ deadline' \in {"unset", "armed", "expired"}
    BY <1>1 DEF Cancel, Expire, componentVars, Exited, IInv, TypeOK
  <2>2. TypeOK'
    BY <1>1, <2>1 DEF Cancel, Expire, componentVars, runVars, IInv, TypeOK
  <2>3. PositionInv' /\ DrainInv' /\ ResultInv'
    BY <1>1, <2>1 DEF Cancel, Expire, componentVars, runVars, IInv,
                      PositionInv, DrainInv, ResultInv
  <2>. QED
    BY <2>2, <2>3 DEF IInv
<1>2. CASE RunStep
  BY <1>2, SelectIInv, StoppingIInv, WaitIInv DEF RunStep
<1>3. CASE \E c \in Component : ComponentStep(c)
  BY <1>3, ComponentIInv
<1>4. CASE UNCHANGED vars
  BY <1>4 DEF vars, componentVars, runVars, IInv, TypeOK, PositionInv, DrainInv,
              ResultInv, Exited
<1>. QED
  BY <1>1, <1>2, <1>3, <1>4 DEF Next

\* The inductive invariant holds in every behaviour of the lifecycle.
THEOREM Invariance == Spec => []IInv
  BY InitIInv, NextIInv, PTL DEF Spec

-----------------------------------------------------------------------------
\* Types, and a channel that always has room for the results (app.go:70).
THEOREM TypeCorrect == Spec => []TypeOK
<1>1. IInv => TypeOK
  BY DEF IInv
<1>. QED
  BY <1>1, Invariance, PTL

\* No goroutine sends on the closed channel (app.go:75, 106).
THEOREM ChannelSafe == Spec => []NoSendOnClosedChannel
<1>1. IInv => NoSendOnClosedChannel
  BY DEF IInv, ResultInv, NoSendOnClosedChannel
<1>. QED
  BY <1>1, Invariance, PTL

\* A handler the cleanups overtake belongs to a component whose Shutdown
\* returned an error (app.go:124-135).
THEOREM OrphansAreReported == Spec => []OrphansReported
<1>1. IInv => OrphansReported
  <2> SUFFICES ASSUME IInv, ComponentsAsked, NEW c \in Component, inflight[c] > 0
               PROVE  <<"component", c>> \in shutdownErr
    BY DEF OrphansReported
  <2>1. server[c] \in {"drained", "forced"}
    BY LifecycleAssumption DEF ComponentsAsked, IInv, PositionInv, Component, TypeOK
  <2>2. inflight[c] # 0
    BY DEF IInv, TypeOK
  <2>. QED
    BY <2>1, <2>2 DEF IInv, DrainInv
<1>. QED
  BY <1>1, Invariance, PTL

\* A failure of Serve is returned, or the wait is reported as given up
\* (app.go:98-112).
THEOREM FailuresAreReported == Spec => []NoFailureLostSilently
<1>1. IInv => NoFailureLostSilently
  BY DEF IInv, ResultInv, NoFailureLostSilently, TypeOK
<1>. QED
  BY <1>1, Invariance, PTL

\* Run returns nil only when everything it started is over (app.go:113).
THEOREM NilIsClean == Spec => []NilMeansStopped
<1>1. IInv => NilMeansStopped
  <2> SUFFICES ASSUME IInv, pc = "done", runErr \cup shutdownErr = {}, NEW c \in Component
               PROVE  serve[c] = "exited" /\ outcome[c] \in {"nil", "closed"} /\ inflight[c] = 0
    BY DEF NilMeansStopped
  <2>1. runErr = {} /\ shutdownErr = {}
    OBVIOUS
  <2>2. chClosed
    BY <2>1 DEF IInv, ResultInv
  <2>3. serve[c] = "exited" /\ outcome[c] # "none" /\ outcome[c] # "err"
    BY <2>1, <2>2 DEF IInv, ResultInv
  <2>4. server[c] = "drained"
    BY <2>1, LifecycleAssumption DEF IInv, PositionInv, DrainInv, Component, PlanLength
  <2>5. inflight[c] = 0
    BY <2>4 DEF IInv, DrainInv
  <2>. QED
    BY <2>3, <2>5 DEF IInv, TypeOK
<1>. QED
  BY <1>1, Invariance, PTL

\* Components stop one after the other, in registration order (app.go:124).
THEOREM RegistrationOrder == Spec => []StopsInRegistrationOrder
<1>1. IInv => StopsInRegistrationOrder
  BY LifecycleAssumption DEF IInv, PositionInv, TypeOK, Component, StopsInRegistrationOrder
<1>. QED
  BY <1>1, Invariance, PTL
=============================================================================
