-------------------- MODULE Jsonrpc2ConnLifecycleProofs --------------------
(***************************************************************************)
(* TLAPS proof that Jsonrpc2Conn implements CallLifecycle: the initial     *)
(* state maps to the initial state, and every step maps to a step of       *)
(* CallLifecycle or changes nothing there.                                 *)
(***************************************************************************)
EXTENDS Jsonrpc2ConnSafetyProofs

-----------------------------------------------------------------------------
(* What the mapping says of a call and of the connection *)

\* No call is pending once outgoingCalls is empty.
LEMMA EmptyMeansNonePending ==
    ASSUME outgoingCalls' = {}
    PROVE  Lifecycle!NonePending'
BY DEF Lifecycle!NonePending, stageOfCall, Tracked

\* The step that closes done leaves no call pending.
LEMMA PhaseStep ==
    ASSUME IInv, [Next]_vars
    PROVE  \/ phaseOfConn' = phaseOfConn
           \/ phaseOfConn = "open" /\ phaseOfConn' = "draining"
           \/ phaseOfConn # "closed" /\ phaseOfConn' = "closed" /\ Lifecycle!NonePending'
<1>1. CASE done
  BY <1>1, CloserStep DEF phaseOfConn
<1>2. CASE ~done /\ done'
  <2>1. outgoingCalls' = {}
    BY <1>2, CloserStep DEF idle, IInv, TypeOK, SettleTypeOK
  <2> QED BY <1>2, <2>1, EmptyMeansNonePending DEF phaseOfConn
<1>3. CASE ~done /\ ~done'
  BY <1>3, ShutdownStays DEF phaseOfConn
<1> QED BY <1>1, <1>2, <1>3

\* A step that leaves the calls alone drains or finishes the connection, or
\* changes nothing that CallLifecycle sees.
LEMMA QuietStep ==
    ASSUME IInv, [Next]_vars, UNCHANGED <<outgoingCalls, response>>
    PROVE  [Lifecycle!Next]_(Lifecycle!lifecycleVars)
<1>1. stageOfCall' = stageOfCall
  BY DEF stageOfCall, Tracked
<1>2. CASE phaseOfConn' = phaseOfConn
  BY <1>1, <1>2 DEF Lifecycle!lifecycleVars
<1>3. CASE phaseOfConn = "open" /\ phaseOfConn' = "draining"
  BY <1>1, <1>3 DEF Lifecycle!Next, Lifecycle!Drain
<1>4. CASE phaseOfConn # "closed" /\ phaseOfConn' = "closed" /\ Lifecycle!NonePending'
  <2>1. Lifecycle!NonePending
    BY <1>1, <1>4 DEF Lifecycle!NonePending
  <2>2. phaseOfConn \in {"open", "draining"}
    BY <1>4 DEF phaseOfConn
  <2> QED BY <1>1, <1>4, <2>1, <2>2 DEF Lifecycle!Next, Lifecycle!Drain, Lifecycle!Finish
<1> QED BY <1>2, <1>3, <1>4, PhaseStep

-----------------------------------------------------------------------------
(* The steps that change a call *)

\* A call before Call runs is idle: it has no response and is not tracked.
LEMMA IdleStage ==
    ASSUME IInv, NEW c \in Calls, pc[c] = "idle"
    PROVE  response[c] = "none" /\ c \notin outgoingCalls /\ stageOfCall[c] = "idle"
BY DEF IInv, TrackedUnresolved, stageOfCall, Tracked

\* Refusing a call, before it is tracked, is CallLifecycle's Refuse.
LEMMA RefuseStep ==
    ASSUME IInv, NEW c \in Calls, pc[c] = "idle", NEW resp \in Responses \ {"none", "peer"},
           response' = [response EXCEPT ![c] = resp], UNCHANGED outgoingCalls,
           phaseOfConn' = phaseOfConn
    PROVE  Lifecycle!Next
<1>1. stageOfCall' = [stageOfCall EXCEPT ![c] = "failed"]
  BY IdleStage DEF stageOfCall, Tracked, IInv, TypeOK, WorkTypeOK
<1>2. Lifecycle!Refuse(c)
  BY <1>1, IdleStage DEF Lifecycle!Refuse
<1> QED BY <1>2 DEF Lifecycle!Next

\* Registering a call is CallLifecycle's Issue.
LEMMA IssueStep ==
    ASSUME IInv, NEW c \in Calls, pc[c] = "idle", phaseOfConn = "open", phaseOfConn' = phaseOfConn,
           outgoingCalls' = outgoingCalls \cup {c}, UNCHANGED response
    PROVE  Lifecycle!Next
<1>1. stageOfCall' = [stageOfCall EXCEPT ![c] = "pending"]
  BY IdleStage DEF stageOfCall, Tracked
<1>2. Lifecycle!Issue(c)
  BY <1>1, IdleStage DEF Lifecycle!Issue
<1> QED BY <1>2 DEF Lifecycle!Next

\* Retiring a tracked call is CallLifecycle's Resolve; updateInFlight may then
\* find the connection idle and close done.
LEMMA ResolveStep ==
    ASSUME IInv, [Next]_vars, NEW c \in outgoingCalls, NEW resp \in Responses \ {"none"},
           outgoingCalls' = outgoingCalls \ {c}, response' = [response EXCEPT ![c] = resp],
           UNCHANGED stateVars
    PROVE  Lifecycle!Next
<1>a. c \in Calls /\ response \in [Calls -> Responses] /\ done \in BOOLEAN
  BY DEF IInv, TypeOK, ConnTypeOK, WorkTypeOK, SettleTypeOK
<1>b. response[c] = "none"
  BY <1>a DEF IInv, TrackedUnresolved
<1>1. stageOfCall[c] = "pending"
  BY <1>a, <1>b DEF stageOfCall, Tracked
<1>2. PICK o \in {"answered", "failed"} : stageOfCall' = [stageOfCall EXCEPT ![c] = o]
  <2>1. CASE resp = "peer"
    <3>1. stageOfCall' = [stageOfCall EXCEPT ![c] = "answered"]
      BY <1>a, <2>1 DEF stageOfCall, Tracked
    <3> QED BY <3>1
  <2>2. CASE resp # "peer"
    <3>1. stageOfCall' = [stageOfCall EXCEPT ![c] = "failed"]
      BY <1>a, <2>2 DEF stageOfCall, Tracked
    <3> QED BY <3>1
  <2> QED BY <2>1, <2>2
<1>3. Lifecycle!MayClose
  <2>1. shuttingDown' = shuttingDown
    BY DEF shuttingDown, stateVars
  <2>2. CASE done
    BY <2>2, CloserStep DEF phaseOfConn, Lifecycle!MayClose
  <2>3. CASE ~done /\ done'
    <3>1. shuttingDown /\ outgoingCalls' = {}
      BY <1>a, <2>1, <2>3, CloserStep DEF idle
    <3> QED BY <2>3, <3>1, EmptyMeansNonePending DEF phaseOfConn, Lifecycle!MayClose
  <2>4. CASE ~done /\ ~done'
    BY <2>1, <2>4 DEF phaseOfConn, Lifecycle!MayClose
  <2> QED BY <2>2, <2>3, <2>4
<1>4. Lifecycle!Resolve(c)
  BY <1>1, <1>2, <1>3 DEF Lifecycle!Resolve
<1> QED BY <1>a, <1>4 DEF Lifecycle!Next

\* The reader's exit, which retires every tracked call, is CallLifecycle's Break.
LEMMA BreakStep ==
    ASSUME IInv, ReadFail
    PROVE  Lifecycle!Next
<1>1. ~done /\ shuttingDown'
  BY FaultsAssumption DEF ReadFail, ReaderFree, IInv, DoneIsIdle, shuttingDown
<1>2. phaseOfConn # "closed" /\ phaseOfConn' \in {"draining", "closed"}
  BY <1>1 DEF phaseOfConn
<1>3. stageOfCall' = [c \in Calls |-> IF stageOfCall[c] = "pending" THEN "failed" ELSE stageOfCall[c]]
  <2>1. PICK e \in ReadFaults : response' = RetireAll(e) /\ outgoingCalls' = {}
    BY DEF ReadFail
  <2>2. e \notin {"none", "peer"}
    BY FaultsAssumption
  <2>3. \A c \in outgoingCalls : response[c] = "none"
    BY DEF IInv, TypeOK, ConnTypeOK, TrackedUnresolved
  <2> QED BY <2>1, <2>2, <2>3 DEF RetireAll, stageOfCall, Tracked
<1> QED BY <1>2, <1>3 DEF Lifecycle!Next, Lifecycle!Break

-----------------------------------------------------------------------------
(* The refinement *)

\* A refused call leaves the phase alone: an idle connection that shuts down
\* without a reader is done already.
LEMMA RefusedPhase ==
    ASSUME IInv, SInv, panic = "none", Settle("none"), UNCHANGED <<stateVars, outgoingCalls>>,
           UNCHANGED <<outgoingNotifications, incoming, handlerRunning>>
    PROVE  phaseOfConn' = phaseOfConn
<1>1. idle' = idle /\ shuttingDown' = shuttingDown /\ reading' = reading
  BY DEF idle, shuttingDown, stateVars
<1>2. idle /\ shuttingDown => done \/ reading
  BY DEF SInv, ShutdownOK
<1>3. done \in BOOLEAN /\ reading \in BOOLEAN
  BY DEF IInv, TypeOK, SettleTypeOK, ConnTypeOK
<1>4. done' = done
  <2>1. CASE done
    BY <2>1 DEF Settle
  <2>2. CASE ~done /\ idle /\ shuttingDown
    BY <1>1, <1>2, <1>3, <2>2 DEF Settle, readerExited
  <2>3. CASE ~done /\ ~(idle /\ shuttingDown)
    BY <1>1, <2>3 DEF Settle, settleVars
  <2> QED BY <2>1, <2>2, <2>3
<1> QED BY <1>1, <1>4 DEF phaseOfConn

\* Every step of the connection is a step of CallLifecycle or a stutter there.
LEMMA LifecycleStep ==
    ASSUME IInv, SInv, [Next]_vars
    PROVE  [Lifecycle!Next]_(Lifecycle!lifecycleVars)
<1> USE DEF At, stateVars, settleVars, outVars, inVars, reqVars, writeVars, apiVars
<1> DEFINE Refined == [Lifecycle!Next]_(Lifecycle!lifecycleVars)
<1>1. ASSUME NEW c \in Calls, CallStep(c) PROVE Refined
  <2>1. CASE CallMarshalError(c)
    <3>1. phaseOfConn' = phaseOfConn
      BY <2>1 DEF CallMarshalError, phaseOfConn, shuttingDown
    <3> QED BY <2>1, <3>1, RefuseStep DEF CallMarshalError, MayBegin, Responses
  <2>2. CASE CallBegin(c)
    <3>1. CASE shuttingDown
      <4>1. phaseOfConn' = phaseOfConn
        BY <2>2, <3>1, RefusedPhase DEF CallBegin, MayBegin
      <4> QED BY <2>2, <3>1, <4>1, RefuseStep DEF CallBegin, MayBegin, Responses
    <3>2. CASE ~shuttingDown
      <4>1. phaseOfConn = "open" /\ phaseOfConn' = phaseOfConn
        <5>1. ~shuttingDown' /\ ~done
          BY <2>2, <3>2 DEF CallBegin, shuttingDown, IInv, DoneIsIdle
        <5>2. ~done'
          BY <5>1, CloserStep DEF IInv, TypeOK, SettleTypeOK
        <5> QED BY <3>2, <5>1, <5>2 DEF phaseOfConn
      <4> QED BY <2>2, <3>2, <4>1, IssueStep DEF CallBegin, MayBegin
    <3> QED BY <3>1, <3>2
  <2>3. CASE CallRetire(c)
    <3>1. CASE Tracked(c)
      <4>1. response[c] = "none" /\ werr[c] # "none"
        BY <2>3, <3>1 DEF CallRetire, Tracked, IInv, TrackedUnresolved, SInv, CallOK
      <4>2. werr[c] \in Responses \ {"none"}
        BY <4>1 DEF IInv, TypeOK, WorkTypeOK, Responses, Procs, Outgoing
      <4> QED BY <2>3, <3>1, <4>1, <4>2, ResolveStep DEF CallRetire, RetireTracked, Tracked
    <3>2. CASE ~Tracked(c)
      BY <2>3, <3>2, QuietStep DEF CallRetire
    <3> QED BY <3>1, <3>2
  <2>4. CASE CallReturn(c)
    BY <2>4, QuietStep DEF CallReturn
  <2>5. CASE ReadResponse(c)
    <3>1. CASE c \in outgoingCalls
      <4>1. response[c] = "none" /\ "peer" \in Responses \ {"none"}
        BY <3>1 DEF IInv, TrackedUnresolved, Responses
      <4>2. outgoingCalls' = outgoingCalls \ {c} /\ response' = [response EXCEPT ![c] = "peer"]
        BY <2>5, <3>1, <4>1 DEF ReadResponse, RetireTracked
      <4> QED BY <2>5, <3>1, <4>1, <4>2, ResolveStep DEF ReadResponse
    <3>2. CASE c \notin outgoingCalls
      BY <2>5, <3>2, QuietStep DEF ReadResponse
    <3> QED BY <3>1, <3>2
  <2> QED BY <1>1, <2>1, <2>2, <2>3, <2>4, <2>5 DEF CallStep
<1>2. ASSUME NEW n \in Notifs, NotifyStep(n) PROVE Refined
  BY <1>2, QuietStep DEF NotifyStep, NotifyBegin, NotifyFinish
<1>3. ASSUME NEW p \in Procs, WriteStep(p) PROVE Refined
  BY <1>3, QuietStep DEF WriteStep, WriteCheck, WriteDeliver, WriteOk, WriteFail, WriteRecord
<1>4. ASSUME NEW r \in Reqs, RequestStep(r) PROVE Refined
  BY <1>4, QuietStep DEF RequestStep, AcceptRequest, Preempt, Enqueue, Deliver, Async, HandlerReturn,
                         ProcessResult, FinishRequest, Release
<1>5. ASSUME ConnStep PROVE Refined
  <2>1. CASE ReadFail
    BY <2>1, BreakStep
  <2>2. CASE Start \/ Dequeue \/ QueueExit \/ CloseBegin \/ CloseReturn \/ WaitReturn
    BY <2>2, QuietStep DEF Start, Dequeue, QueueExit, CloseBegin, CloseReturn, WaitReturn
  <2> QED BY <1>5, <2>1, <2>2 DEF ConnStep
<1>6. ASSUME NEW p \in Outgoing, CancelCtx(p) PROVE Refined
  BY <1>6, QuietStep DEF CancelCtx
<1>7. ASSUME NEW id \in IDs, Cancel(id) PROVE Refined
  BY <1>7, QuietStep DEF Cancel
<1>8. CASE UNCHANGED vars
  BY <1>8, QuietStep DEF vars
<1> QED BY <1>1, <1>2, <1>3, <1>4, <1>5, <1>6, <1>7, <1>8 DEF Next, Rest

\* A new connection is open and has issued no call.
LEMMA LifecycleInit == Init => Lifecycle!Init
BY DEF Init, Lifecycle!Init, phaseOfConn, stageOfCall, shuttingDown, Tracked

\* The connection implements CallLifecycle: every call is resolved once, none is
\* issued after a shutdown began, and done closes only when none is pending.
THEOREM ConnImplementsLifecycle == Spec => LifecycleSpec
<1>1. IInv /\ SInv /\ [Next]_vars => [Lifecycle!Next]_(Lifecycle!lifecycleVars)
  BY LifecycleStep
<1> QED BY LifecycleInit, <1>1, SafetyInvariant, PTL DEF Spec, LifecycleSpec, Lifecycle!Spec
=============================================================================
