--------------------- MODULE Jsonrpc2ConnSafetyProofs ---------------------
(***************************************************************************)
(* TLAPS proofs of the connection's other safety properties, and of the    *)
(* refinement of CallLifecycle.  They rest on the inductive invariant IInv *)
(* of Jsonrpc2ConnProofs and strengthen it with SInv.                      *)
(***************************************************************************)
EXTENDS Jsonrpc2ConnProofs

-----------------------------------------------------------------------------
(* Shutdown *)

\* No step revokes a shutdown.
LEMMA ShutdownStays == IInv /\ [Next]_vars /\ shuttingDown => shuttingDown'
<1> SUFFICES ASSUME IInv, [Next]_vars, shuttingDown PROVE shuttingDown'
    OBVIOUS
<1> USE DEF stateVars, shuttingDown
<1>1. ASSUME NEW c \in Calls, CallStep(c) PROVE shuttingDown'
  BY <1>1 DEF CallStep, CallMarshalError, CallBegin, CallRetire, CallReturn, ReadResponse
<1>2. ASSUME NEW n \in Notifs, NotifyStep(n) PROVE shuttingDown'
  BY <1>2 DEF NotifyStep, NotifyBegin, NotifyFinish
<1>3. ASSUME NEW p \in Procs, WriteStep(p) PROVE shuttingDown'
  BY <1>3 DEF WriteStep, WriteCheck, WriteDeliver, WriteOk, WriteFail, WriteRecord
<1>4. ASSUME NEW r \in Reqs, RequestStep(r) PROVE shuttingDown'
  BY <1>4 DEF RequestStep, AcceptRequest, Preempt, Enqueue, Deliver, Async, HandlerReturn,
              ProcessResult, FinishRequest, Release
<1>5. ASSUME ConnStep PROVE shuttingDown'
  BY <1>5, FaultsAssumption
     DEF ConnStep, Start, ReadFail, Dequeue, QueueExit, CloseBegin, CloseReturn, WaitReturn
<1>6. ASSUME NEW p \in Outgoing, CancelCtx(p) PROVE shuttingDown'
  BY <1>6 DEF CancelCtx
<1>7. ASSUME NEW id \in IDs, Cancel(id) PROVE shuttingDown'
  BY <1>7 DEF Cancel
<1>8. CASE UNCHANGED vars
  BY <1>8 DEF vars
<1> QED BY <1>1, <1>2, <1>3, <1>4, <1>5, <1>6, <1>7, <1>8 DEF Next, Rest

\* updateInFlight closes the transport, and then done, of an idle connection
\* that shuts down, and of no other.
LEMMA SettleShutdown ==
    ASSUME IInv, Settle("none"), closer = "closed" => shuttingDown, shuttingDown => shuttingDown',
           done => ~reading'
    PROVE  /\ closer' = "closed" => shuttingDown'
           /\ panic' = "none" /\ idle' /\ shuttingDown' => closer' = "closed" /\ (done' \/ reading')
<1>1. CASE done
  BY <1>1 DEF Settle, IInv, DoneIsIdle
<1>2. CASE ~done /\ idle' /\ shuttingDown'
  BY <1>2 DEF Settle, readerExited
<1>3. CASE ~done /\ ~(idle' /\ shuttingDown')
  BY <1>3 DEF Settle, settleVars
<1> QED BY <1>1, <1>2, <1>3

\* A step outside updateInFlight changes nothing that matters to a shutdown.
LEMMA ShutdownSame ==
    ASSUME ShutdownOK, TrackedCallsHaveReader,
           UNCHANGED <<stateVars, settleVars, outgoingCalls, outgoingNotifications, incoming,
                       handlerRunning>>
    PROVE  ShutdownOK' /\ TrackedCallsHaveReader'
BY DEF ShutdownOK, TrackedCallsHaveReader, idle, shuttingDown, stateVars, settleVars

\* An update that starts and stops no reader, and registers no call once the
\* connection shuts down, keeps the reader's part.
LEMMA ReaderKept ==
    ASSUME ShutdownOK, TrackedCallsHaveReader, shuttingDown => shuttingDown',
           UNCHANGED <<started, reading>>,
           outgoingCalls' \subseteq outgoingCalls \/ ~shuttingDown
    PROVE  (started' /\ ~reading' => shuttingDown') /\ TrackedCallsHaveReader'
BY DEF ShutdownOK, TrackedCallsHaveReader

\* An idle connection that shuts down is closed, and no call waits for a reader
\* that has exited.
LEMMA ShutdownStep ==
    IInv /\ ShutdownOK /\ TrackedCallsHaveReader /\ [Next]_vars
        => ShutdownOK' /\ TrackedCallsHaveReader'
<1> SUFFICES ASSUME IInv, ShutdownOK, TrackedCallsHaveReader, [Next]_vars
             PROVE  ShutdownOK' /\ TrackedCallsHaveReader'
    OBVIOUS
<1> USE DEF At, stateVars, settleVars, outVars, inVars, reqVars, writeVars, apiVars
<1>a. shuttingDown => shuttingDown'
  BY ShutdownStays
<1>b. (closer = "closed" => shuttingDown) /\ (done => ~reading /\ shuttingDown)
  BY DEF ShutdownOK, IInv, DoneIsIdle
<1>c. ASSUME Settle("none"), UNCHANGED <<started, reading>>,
             outgoingCalls' \subseteq outgoingCalls \/ ~shuttingDown
      PROVE  ShutdownOK' /\ TrackedCallsHaveReader'
  BY <1>a, <1>b, <1>c, SettleShutdown, ReaderKept DEF ShutdownOK
<1>d. ASSUME NEW fPanic \in Panics \ {"none"}, Settle(fPanic), UNCHANGED <<started, reading>>,
             outgoingCalls' \subseteq outgoingCalls
      PROVE  ShutdownOK' /\ TrackedCallsHaveReader'
  BY <1>a, <1>b, <1>d, ReaderKept DEF ShutdownOK, Settle
<1>1. ASSUME NEW c \in Calls, CallStep(c) PROVE ShutdownOK' /\ TrackedCallsHaveReader'
  <2>1. CASE CallMarshalError(c) \/ CallReturn(c)
    BY <2>1, ShutdownSame DEF CallMarshalError, CallReturn
  <2>2. CASE CallBegin(c)
    BY <1>c, <2>2 DEF CallBegin
  <2>3. CASE CallRetire(c) \/ ReadResponse(c)
    BY <1>c, <1>d, <2>3 DEF CallRetire, ReadResponse, RetireTracked, Panics
  <2> QED BY <1>1, <2>1, <2>2, <2>3 DEF CallStep
<1>2. ASSUME NEW n \in Notifs, NotifyStep(n) PROVE ShutdownOK' /\ TrackedCallsHaveReader'
  BY <1>2, <1>c DEF NotifyStep, NotifyBegin, NotifyFinish
<1>3. ASSUME NEW p \in Procs, WriteStep(p) PROVE ShutdownOK' /\ TrackedCallsHaveReader'
  <2>1. CASE WriteDeliver(p) \/ WriteOk(p) \/ WriteFail(p)
    BY <2>1, ShutdownSame DEF WriteDeliver, WriteOk, WriteFail
  <2>2. CASE WriteCheck(p) \/ WriteRecord(p)
    BY <1>c, <2>2 DEF WriteCheck, WriteRecord
  <2> QED BY <1>3, <2>1, <2>2 DEF WriteStep
<1>4. ASSUME NEW r \in Reqs, RequestStep(r) PROVE ShutdownOK' /\ TrackedCallsHaveReader'
  <2>1. CASE Preempt(r) \/ Deliver(r) \/ Async(r) \/ HandlerReturn(r) \/ Release(r)
    BY <2>1, ShutdownSame DEF Preempt, Deliver, Async, HandlerReturn, Release
  <2>2. CASE AcceptRequest(r) \/ Enqueue(r)
    BY <1>c, <2>2 DEF AcceptRequest, Enqueue
  <2>3. CASE ProcessResult(r) \/ FinishRequest(r)
    BY <1>c, <1>d, <2>3 DEF ProcessResult, FinishRequest, internalErrorf, Panics
  <2> QED BY <1>4, <2>1, <2>2, <2>3 DEF RequestStep
<1>5. ASSUME ConnStep PROVE ShutdownOK' /\ TrackedCallsHaveReader'
  <2>1. CASE Start
    <3>1. ~started' \/ reading' \/ shuttingDown'
      BY <1>a, <1>b, <2>1 DEF Start
    <3>2. TrackedCallsHaveReader'
      BY <2>1 DEF Start, TrackedCallsHaveReader, IInv, DoneIsIdle, idle
    <3> QED BY <1>a, <1>b, <2>1, <3>1, <3>2, SettleShutdown DEF Start, ShutdownOK
  <2>2. CASE ReadFail
    <3>1. shuttingDown' /\ outgoingCalls' = {}
      BY <2>2, FaultsAssumption DEF ReadFail, shuttingDown
    <3>2. Settle("none")
      BY <2>2 DEF ReadFail, IInv, TypeOK, ConnTypeOK, TrackedUnresolved
    <3> QED BY <1>a, <1>b, <2>2, <3>1, <3>2, SettleShutdown
            DEF ReadFail, ShutdownOK, TrackedCallsHaveReader
  <2>3. CASE Dequeue \/ QueueExit \/ CloseBegin \/ CloseReturn \/ WaitReturn
    BY <1>c, <2>3 DEF Dequeue, QueueExit, CloseBegin, CloseReturn, WaitReturn
  <2> QED BY <1>5, <2>1, <2>2, <2>3 DEF ConnStep
<1>6. ASSUME NEW p \in Outgoing, CancelCtx(p) PROVE ShutdownOK' /\ TrackedCallsHaveReader'
  BY <1>6, ShutdownSame DEF CancelCtx
<1>7. ASSUME NEW id \in IDs, Cancel(id) PROVE ShutdownOK' /\ TrackedCallsHaveReader'
  BY <1>7, <1>c DEF Cancel
<1>8. CASE UNCHANGED vars
  BY <1>8, ShutdownSame DEF vars
<1> QED BY <1>1, <1>2, <1>3, <1>4, <1>5, <1>6, <1>7, <1>8 DEF Next, Rest

-----------------------------------------------------------------------------
(* Who changes what *)

\* The steps that concern one request are its own, and its dequeueing.
LEMMA RequestFrame ==
    ASSUME IInv, [Next]_vars, NEW r \in Reqs, ~WriteStep(r), ~RequestStep(r),
           ~(Dequeue /\ r = Head(handlerQueue))
    PROVE  UNCHANGED <<pc[r], werr[r], reqID[r], runner[r], released[r], outcome[r], r \in sent>>
<1> USE DEF stateVars, settleVars, outVars, inVars, reqVars, writeVars, apiVars
<1> DEFINE Same == UNCHANGED <<pc[r], werr[r], reqID[r], runner[r], released[r], outcome[r], r \in sent>>
<1>a. PcTypeOK /\ ConnTypeOK /\ WorkTypeOK
  BY DEF IInv, TypeOK
<1>c. /\ Calls \subseteq Procs /\ Notifs \subseteq Procs /\ Reqs \subseteq Procs
      /\ Calls \cap Notifs = {} /\ Calls \cap Reqs = {} /\ Notifs \cap Reqs = {}
  BY FiniteSetsAssumption DEF Procs, Outgoing
<1>1. ASSUME NEW c \in Calls, CallStep(c) PROVE Same
  BY <1>a, <1>c, <1>1 DEF CallStep, CallMarshalError, CallBegin, CallRetire, CallReturn,
                          ReadResponse, Goto, PcTypeOK
<1>2. ASSUME NEW n \in Notifs, NotifyStep(n) PROVE Same
  BY <1>a, <1>c, <1>2 DEF NotifyStep, NotifyBegin, NotifyFinish, Goto, PcTypeOK
<1>3. ASSUME NEW p \in Procs, WriteStep(p) PROVE Same
  BY <1>a, <1>c, <1>3 DEF WriteStep, WriteCheck, WriteDeliver, WriteOk, WriteFail, WriteRecord, Goto,
                          PcTypeOK, WorkTypeOK
<1>4. ASSUME NEW q \in Reqs, RequestStep(q) PROVE Same
  <2>1. q # r
    BY <1>4
  <2>2. CASE AcceptRequest(q) \/ Preempt(q) \/ Enqueue(q) \/ Deliver(q)
    BY <1>a, <1>c, <2>1, <2>2 DEF AcceptRequest, Preempt, Enqueue, Deliver, Goto, PcTypeOK, WorkTypeOK
  <2>3. CASE Async(q) \/ HandlerReturn(q) \/ ProcessResult(q) \/ FinishRequest(q) \/ Release(q)
    BY <1>a, <1>c, <2>1, <2>3
       DEF Async, HandlerReturn, ProcessResult, FinishRequest, Release, SoftReleased, Goto, PcTypeOK,
           WorkTypeOK
  <2> QED BY <1>4, <2>2, <2>3 DEF RequestStep
<1>5. ASSUME ConnStep PROVE Same
  <2>1. CASE Dequeue
    BY <1>a, <1>c, <2>1, HeadTailProperties DEF Dequeue, Goto, PcTypeOK, ConnTypeOK
  <2>2. CASE Start \/ ReadFail \/ QueueExit \/ CloseBegin \/ CloseReturn \/ WaitReturn
    BY <2>2 DEF Start, ReadFail, QueueExit, CloseBegin, CloseReturn, WaitReturn
  <2> QED BY <1>5, <2>1, <2>2 DEF ConnStep
<1>6. ASSUME NEW p \in Outgoing, CancelCtx(p) PROVE Same
  BY <1>6 DEF CancelCtx
<1>7. ASSUME NEW id \in IDs, Cancel(id) PROVE Same
  BY <1>7 DEF Cancel
<1>8. CASE UNCHANGED vars
  BY <1>8 DEF vars
<1> QED BY <1>1, <1>2, <1>3, <1>4, <1>5, <1>6, <1>7, <1>8 DEF Next, Rest

\* The steps that concern one outgoing call are its own, and the reader's exit.
LEMMA CallFrame ==
    ASSUME IInv, [Next]_vars, NEW c \in Calls, ~WriteStep(c), ~CallStep(c), ~ReadFail
    PROVE  UNCHANGED <<pc[c], werr[c], response[c], c \in outgoingCalls, c \in sent>>
<1> USE DEF stateVars, settleVars, outVars, inVars, reqVars, writeVars, apiVars
<1> DEFINE Same == UNCHANGED <<pc[c], werr[c], response[c], c \in outgoingCalls, c \in sent>>
<1>a. PcTypeOK /\ ConnTypeOK /\ WorkTypeOK
  BY DEF IInv, TypeOK
<1>c. /\ Calls \subseteq Procs /\ Notifs \subseteq Procs /\ Reqs \subseteq Procs
      /\ Calls \cap Notifs = {} /\ Calls \cap Reqs = {} /\ Notifs \cap Reqs = {}
  BY FiniteSetsAssumption DEF Procs, Outgoing
<1>1. ASSUME NEW d \in Calls, CallStep(d) PROVE Same
  BY <1>a, <1>c, <1>1 DEF CallStep, CallMarshalError, CallBegin, CallRetire, CallReturn,
                          ReadResponse, RetireTracked, Goto, PcTypeOK, WorkTypeOK
<1>2. ASSUME NEW n \in Notifs, NotifyStep(n) PROVE Same
  BY <1>a, <1>c, <1>2 DEF NotifyStep, NotifyBegin, NotifyFinish, Goto, PcTypeOK
<1>3. ASSUME NEW p \in Procs, WriteStep(p) PROVE Same
  BY <1>a, <1>c, <1>3 DEF WriteStep, WriteCheck, WriteDeliver, WriteOk, WriteFail, WriteRecord, Goto,
                          PcTypeOK, WorkTypeOK
<1>4. ASSUME NEW r \in Reqs, RequestStep(r) PROVE Same
  BY <1>a, <1>c, <1>4 DEF RequestStep, AcceptRequest, Preempt, Enqueue, Deliver, Async, HandlerReturn,
                          ProcessResult, FinishRequest, Release, Goto, PcTypeOK
<1>5. ASSUME ConnStep PROVE Same
  <2>1. CASE Dequeue
    BY <1>a, <1>c, <2>1, HeadTailProperties DEF Dequeue, Goto, PcTypeOK, ConnTypeOK
  <2>2. CASE Start \/ QueueExit \/ CloseBegin \/ CloseReturn \/ WaitReturn
    BY <2>2 DEF Start, QueueExit, CloseBegin, CloseReturn, WaitReturn
  <2> QED BY <1>5, <2>1, <2>2 DEF ConnStep
<1>6. ASSUME NEW p \in Outgoing, CancelCtx(p) PROVE Same
  BY <1>6 DEF CancelCtx
<1>7. ASSUME NEW id \in IDs, Cancel(id) PROVE Same
  BY <1>7 DEF Cancel
<1>8. CASE UNCHANGED vars
  BY <1>8 DEF vars
<1> QED BY <1>1, <1>2, <1>3, <1>4, <1>5, <1>6, <1>7, <1>8 DEF Next, Rest

-----------------------------------------------------------------------------
(* Each call and each request on its own *)

\* Every step keeps what a call's position says of it.
LEMMA CallOKStep ==
    ASSUME IInv, [Next]_vars, NEW c \in Calls, CallOK(c)
    PROVE  CallOK(c)'
<1> USE DEF At, stateVars, settleVars, outVars, inVars, reqVars, writeVars, apiVars
<1>a. PcTypeOK /\ WorkTypeOK /\ TrackedUnresolved /\ c \in Procs /\ outgoingCalls \subseteq Calls
  BY DEF IInv, TypeOK, ConnTypeOK, Procs, Outgoing
<1>1. CASE CallStep(c)
  <2>1. CASE CallMarshalError(c)
    BY <1>a, <2>1 DEF CallMarshalError, CallOK, Goto, PcTypeOK, WorkTypeOK
  <2>2. CASE CallBegin(c)
    BY <1>a, <2>2 DEF CallBegin, CallOK, Goto, PcTypeOK, WorkTypeOK
  <2>3. CASE CallRetire(c)
    BY <1>a, <2>3 DEF CallRetire, RetireTracked, Tracked, CallOK, Goto, PcTypeOK, WorkTypeOK,
                      TrackedUnresolved
  <2>4. CASE CallReturn(c)
    BY <1>a, <2>4 DEF CallReturn, CallOK, Goto, PcTypeOK
  <2>5. CASE ReadResponse(c)
    BY <1>a, <2>5 DEF ReadResponse, RetireTracked, CallOK, WorkTypeOK, TrackedUnresolved
  <2> QED BY <1>1, <2>1, <2>2, <2>3, <2>4, <2>5 DEF CallStep
<1>2. CASE WriteStep(c)
  <2>1. CASE WriteCheck(c)
    BY <1>a, <2>1 DEF WriteCheck, CallOK, Goto, PcTypeOK, WorkTypeOK
  <2>2. CASE WriteDeliver(c) \/ WriteOk(c)
    BY <1>a, <2>2 DEF WriteDeliver, WriteOk, CallOK, Goto, PcTypeOK
  <2>3. CASE WriteFail(c)
    BY <1>a, <2>3, FaultsAssumption DEF WriteFail, WriteErrors, CallOK, Goto, PcTypeOK, WorkTypeOK
  <2>4. CASE WriteRecord(c)
    BY <1>a, <2>4 DEF WriteRecord, CallOK, Goto, PcTypeOK
  <2> QED BY <1>2, <2>1, <2>2, <2>3, <2>4 DEF WriteStep
<1>3. CASE ReadFail
  BY <1>a, <1>3, FaultsAssumption DEF ReadFail, RetireAll, CallOK
<1>4. CASE ~CallStep(c) /\ ~WriteStep(c) /\ ~ReadFail
  BY <1>4, CallFrame DEF CallOK
<1> QED BY <1>1, <1>2, <1>3, <1>4

\* Every step keeps what a request's position says of it.
LEMMA RequestOKStep ==
    ASSUME IInv, [Next]_vars, NEW r \in Reqs, RequestOK(r)
    PROVE  RequestOK(r)'
<1> USE DEF At, stateVars, settleVars, outVars, inVars, reqVars, writeVars, apiVars
<1>a. PcTypeOK /\ WorkTypeOK /\ r \in Procs /\ r \notin Calls /\ r \notin Outgoing
  BY FiniteSetsAssumption DEF IInv, TypeOK, Procs, Outgoing
<1>b. shuttingDown => shuttingDown'
  BY ShutdownStays
<1>1. CASE WriteStep(r)
  <2>1. CASE WriteCheck(r)
    BY <1>a, <1>b, <2>1 DEF WriteCheck, MayWrite, RequestOK, IsCall, Excused, Goto, PcTypeOK, WorkTypeOK
  <2>2. CASE WriteDeliver(r) \/ WriteOk(r)
    BY <1>a, <1>b, <2>2 DEF WriteDeliver, WriteOk, RequestOK, IsCall, Excused, Goto, PcTypeOK
  <2>3. CASE WriteFail(r)
    BY <1>a, <1>b, <2>3, FaultsAssumption
       DEF WriteFail, WriteErrors, RequestOK, IsCall, Excused, Goto, PcTypeOK, WorkTypeOK
  <2>4. CASE WriteRecord(r)
    <3>1. werr[r] = "rejected" \/ shuttingDown'
      BY <1>a, <1>b, <2>4 DEF WriteRecord, BreaksConnection, CtxErr, RequestOK, shuttingDown
    <3> QED BY <1>a, <1>b, <2>4, <3>1 DEF WriteRecord, RequestOK, IsCall, Excused, Goto, PcTypeOK
  <2> QED BY <1>1, <2>1, <2>2, <2>3, <2>4 DEF WriteStep
<1>2. CASE RequestStep(r)
  <2>1. CASE AcceptRequest(r)
    BY <1>a, <1>b, <2>1, IDsAssumption
       DEF AcceptRequest, RequestOK, IsCall, Goto, PcTypeOK, WorkTypeOK
  <2>2. CASE Preempt(r)
    BY <1>a, <1>b, <2>2 DEF Preempt, RequestOK, IsCall, Goto, PcTypeOK, WorkTypeOK
  <2>3. CASE Enqueue(r)
    BY <1>a, <1>b, <2>3 DEF Enqueue, MayEnqueue, RequestOK, IsCall, Goto, PcTypeOK, WorkTypeOK
  <2>4. CASE Deliver(r)
    BY <1>a, <1>b, <2>4 DEF Deliver, RequestOK, IsCall, Goto, PcTypeOK, WorkTypeOK
  <2>5. CASE Async(r) \/ HandlerReturn(r)
    BY <1>a, <1>b, <2>5 DEF Async, HandlerReturn, RequestOK, IsCall, Goto, PcTypeOK, WorkTypeOK
  <2>6. CASE ProcessResult(r)
    BY <1>a, <1>b, <2>6 DEF ProcessResult, Responds, RequestOK, IsCall, Excused, Goto, PcTypeOK
  <2>7. CASE FinishRequest(r) \/ Release(r)
    BY <1>a, <1>b, <2>7 DEF FinishRequest, Release, RequestOK, IsCall, Excused, Goto, PcTypeOK
  <2> QED BY <1>2, <2>1, <2>2, <2>3, <2>4, <2>5, <2>6, <2>7 DEF RequestStep
<1>3. CASE Dequeue /\ r = Head(handlerQueue)
  <2>1. pc[r] = "queued"
    BY <1>3 DEF Dequeue, IInv, TypeOK, ConnTypeOK, QueueOK
  <2> QED BY <1>a, <1>b, <1>3, <2>1 DEF Dequeue, RequestOK, IsCall, Goto, PcTypeOK
<1>4. CASE ~WriteStep(r) /\ ~RequestStep(r) /\ ~(Dequeue /\ r = Head(handlerQueue))
  BY <1>b, <1>4, RequestFrame DEF RequestOK, IsCall, Excused
<1> QED BY <1>1, <1>2, <1>3, <1>4

-----------------------------------------------------------------------------
(* The ID map, cancellation and the handler queue *)

\* acceptRequest and processResult are the only writers of incomingByID.
LEMMA MapFrame ==
    ASSUME [Next]_vars, \A q \in Reqs : ~AcceptRequest(q) /\ ~ProcessResult(q)
    PROVE  UNCHANGED incomingByID
<1> USE DEF stateVars, settleVars, outVars, inVars, reqVars, writeVars, apiVars
<1>1. ASSUME NEW c \in Calls, CallStep(c) PROVE UNCHANGED incomingByID
  BY <1>1 DEF CallStep, CallMarshalError, CallBegin, CallRetire, CallReturn, ReadResponse
<1>2. ASSUME NEW n \in Notifs, NotifyStep(n) PROVE UNCHANGED incomingByID
  BY <1>2 DEF NotifyStep, NotifyBegin, NotifyFinish
<1>3. ASSUME NEW p \in Procs, WriteStep(p) PROVE UNCHANGED incomingByID
  BY <1>3 DEF WriteStep, WriteCheck, WriteDeliver, WriteOk, WriteFail, WriteRecord
<1>4. ASSUME NEW r \in Reqs, RequestStep(r) PROVE UNCHANGED incomingByID
  BY <1>4 DEF RequestStep, Preempt, Enqueue, Deliver, Async, HandlerReturn, FinishRequest, Release
<1>5. ASSUME ConnStep PROVE UNCHANGED incomingByID
  BY <1>5 DEF ConnStep, Start, ReadFail, Dequeue, QueueExit, CloseBegin, CloseReturn, WaitReturn
<1>6. ASSUME NEW p \in Outgoing, CancelCtx(p) PROVE UNCHANGED incomingByID
  BY <1>6 DEF CancelCtx
<1>7. ASSUME NEW id \in IDs, Cancel(id) PROVE UNCHANGED incomingByID
  BY <1>7 DEF Cancel
<1>8. CASE UNCHANGED vars
  BY <1>8 DEF vars
<1> QED BY <1>1, <1>2, <1>3, <1>4, <1>5, <1>6, <1>7, <1>8 DEF Next, Rest

\* Only reading a request makes it unanswered.
LEMMA UnansweredBefore ==
    ASSUME IInv, [Next]_vars, NEW r \in Reqs, ~AcceptRequest(r),
           pc'[r] \in {"enqueue", "queued", "dequeued", "running", "result"}
    PROVE  /\ pc[r] \in {"enqueue", "queued", "dequeued", "running", "result"}
           /\ reqID'[r] = reqID[r] /\ ~ProcessResult(r)
<1> USE DEF At, reqVars
<1>a. PcTypeOK /\ WorkTypeOK /\ r \in Procs /\ r \notin Calls
  BY FiniteSetsAssumption DEF IInv, TypeOK, Procs, Outgoing
<1>1. CASE WriteStep(r)
  BY <1>a, <1>1 DEF WriteStep, WriteCheck, WriteDeliver, WriteOk, WriteFail, WriteRecord, Goto, PcTypeOK
<1>2. CASE RequestStep(r)
  BY <1>a, <1>2 DEF RequestStep, Preempt, Enqueue, Deliver, Async, HandlerReturn, ProcessResult,
                    FinishRequest, Release, Goto, PcTypeOK
<1>3. CASE Dequeue /\ r = Head(handlerQueue)
  <2>1. pc[r] = "queued"
    BY <1>3 DEF Dequeue, IInv, TypeOK, ConnTypeOK, QueueOK
  <2> QED BY <1>3, <2>1 DEF Dequeue, ProcessResult
<1>4. CASE ~WriteStep(r) /\ ~RequestStep(r) /\ ~(Dequeue /\ r = Head(handlerQueue))
  BY <1>4, RequestFrame DEF RequestStep
<1> QED BY <1>1, <1>2, <1>3, <1>4

\* Every step keeps unanswered calls in incomingByID, each under its own ID.
LEMMA FindableStep == IInv /\ LiveCallFindable /\ [Next]_vars => LiveCallFindable'
<1> SUFFICES ASSUME IInv, LiveCallFindable, [Next]_vars, NEW r \in Reqs,
                    pc'[r] \in {"enqueue", "queued", "dequeued", "running", "result"}, reqID'[r] # NoID
             PROVE  incomingByID'[reqID'[r]] = r
    BY DEF LiveCallFindable, IsCall
<1>a. ConnTypeOK /\ WorkTypeOK /\ MapOK
  BY DEF IInv, TypeOK
<1>1. CASE AcceptRequest(r)
  BY <1>a, <1>1 DEF AcceptRequest, MapOK, ConnTypeOK, WorkTypeOK
<1>2. CASE ~AcceptRequest(r)
  <2>1. incomingByID[reqID[r]] = r /\ reqID'[r] = reqID[r] /\ reqID[r] \in IDs /\ ~ProcessResult(r)
    BY <1>2, <1>a, UnansweredBefore DEF LiveCallFindable, IsCall, WorkTypeOK
  <2>2. ASSUME NEW q \in Reqs, AcceptRequest(q) PROVE incomingByID'[reqID[r]] = r
    <3>1. CASE incomingByID' = incomingByID
      BY <2>1, <3>1
    <3>2. CASE /\ IdOf[q] # NoID /\ ~DuplicateID(q)
               /\ incomingByID' = [incomingByID EXCEPT ![IdOf[q]] = q]
      <4>1. incomingByID[IdOf[q]] = NoReq /\ r # NoReq
        BY <3>2, IDsAssumption DEF DuplicateID
      <4> QED BY <1>a, <2>1, <3>2, <4>1 DEF ConnTypeOK
    <3> QED BY <2>2, <3>1, <3>2 DEF AcceptRequest
  <2>3. ASSUME NEW q \in Reqs, ProcessResult(q) PROVE incomingByID'[reqID[r]] = r
    <3>1. q # r /\ (IsCall(q) => incomingByID[reqID[q]] = q)
      BY <2>1, <2>3 DEF ProcessResult, At, LiveCallFindable
    <3> QED BY <1>a, <2>1, <2>3, <3>1 DEF ProcessResult, DeleteID, ConnTypeOK
  <2>4. CASE \A q \in Reqs : ~AcceptRequest(q) /\ ~ProcessResult(q)
    BY <2>1, <2>4, MapFrame
  <2> QED BY <2>1, <2>2, <2>3, <2>4
<1> QED BY <1>1, <1>2

\* A Context stays canceled, and writeErr is set by the step that cancels what
\* incomingByID holds.
LEMMA CancelFrame ==
    ASSUME IInv, [Next]_vars
    PROVE  /\ \A r \in Reqs : canceled[r] => canceled'[r]
           /\ \/ UNCHANGED writeErr
              \/ canceled' = CancelTracked /\ \E p \in Procs : WriteRecord(p)
<1> USE DEF stateVars, settleVars, outVars, inVars, reqVars, writeVars, apiVars
<1> DEFINE Same == UNCHANGED writeErr /\ \A r \in Reqs : canceled[r] => canceled'[r]
<1>a. WorkTypeOK
  BY DEF IInv, TypeOK
<1>1. ASSUME NEW c \in Calls, CallStep(c) PROVE Same
  BY <1>1 DEF CallStep, CallMarshalError, CallBegin, CallRetire, CallReturn, ReadResponse
<1>2. ASSUME NEW n \in Notifs, NotifyStep(n) PROVE Same
  BY <1>2 DEF NotifyStep, NotifyBegin, NotifyFinish
<1>3. ASSUME NEW p \in Procs, WriteStep(p)
      PROVE  \/ Same
             \/ /\ canceled' = CancelTracked /\ WriteRecord(p)
                /\ \A r \in Reqs : canceled[r] => canceled'[r]
  BY <1>3 DEF WriteStep, WriteCheck, WriteDeliver, WriteOk, WriteFail, WriteRecord, CancelTracked
<1>4. ASSUME NEW q \in Reqs, RequestStep(q) PROVE Same
  BY <1>a, <1>4 DEF RequestStep, AcceptRequest, Preempt, Enqueue, Deliver, Async, HandlerReturn,
                    ProcessResult, FinishRequest, Release, WorkTypeOK
<1>5. ASSUME ConnStep PROVE Same
  BY <1>5 DEF ConnStep, Start, ReadFail, Dequeue, QueueExit, CloseBegin, CloseReturn, WaitReturn
<1>6. ASSUME NEW p \in Outgoing, CancelCtx(p) PROVE Same
  BY <1>6 DEF CancelCtx
<1>7. ASSUME NEW id \in IDs, Cancel(id) PROVE Same
  BY <1>7 DEF Cancel
<1>8. CASE UNCHANGED vars
  BY <1>8 DEF vars
<1> QED BY <1>1, <1>2, <1>3, <1>4, <1>5, <1>6, <1>7, <1>8 DEF Next, Rest

\* Nothing is enqueued once the connection shuts down.
LEMMA EnqueuedBefore ==
    ASSUME IInv, [Next]_vars, shuttingDown, NEW r \in Reqs,
           pc'[r] \in {"queued", "dequeued", "running"}
    PROVE  pc[r] \in {"queued", "dequeued", "running"} /\ reqID'[r] = reqID[r]
<1> USE DEF At, reqVars
<1>a. PcTypeOK /\ WorkTypeOK /\ r \in Procs /\ r \notin Calls
  BY FiniteSetsAssumption DEF IInv, TypeOK, Procs, Outgoing
<1>1. CASE WriteStep(r)
  BY <1>a, <1>1 DEF WriteStep, WriteCheck, WriteDeliver, WriteOk, WriteFail, WriteRecord, Goto, PcTypeOK
<1>2. CASE RequestStep(r)
  BY <1>a, <1>2 DEF RequestStep, AcceptRequest, Preempt, Enqueue, MayEnqueue, Deliver, Async,
                    HandlerReturn, ProcessResult, FinishRequest, Release, Goto, PcTypeOK
<1>3. CASE Dequeue /\ r = Head(handlerQueue)
  <2>1. pc[r] = "queued"
    BY <1>3 DEF Dequeue, IInv, TypeOK, ConnTypeOK, QueueOK
  <2> QED BY <1>3, <2>1 DEF Dequeue
<1>4. CASE ~WriteStep(r) /\ ~RequestStep(r) /\ ~(Dequeue /\ r = Head(handlerQueue))
  BY <1>4, RequestFrame
<1> QED BY <1>1, <1>2, <1>3, <1>4

\* A write error cancels every call that waits for its handler or is handled.
LEMMA BrokenWriterStep ==
    IInv /\ LiveCallFindable /\ BrokenWriterCancels /\ [Next]_vars => BrokenWriterCancels'
<1> SUFFICES ASSUME IInv, LiveCallFindable, BrokenWriterCancels, [Next]_vars, writeErr' # "none",
                    NEW r \in Reqs, pc'[r] \in {"queued", "dequeued", "running"}, reqID'[r] # NoID
             PROVE  canceled'[r]
    BY DEF BrokenWriterCancels, IsCall
<1>1. CASE UNCHANGED writeErr
  <2>1. shuttingDown
    BY <1>1 DEF shuttingDown
  <2>2. pc[r] \in {"queued", "dequeued", "running"} /\ reqID[r] # NoID
    BY <2>1, EnqueuedBefore
  <2>3. canceled[r]
    BY <1>1, <2>2 DEF BrokenWriterCancels, IsCall
  <2> QED BY <2>3, CancelFrame
<1>2. ASSUME canceled' = CancelTracked, NEW p \in Procs, WriteRecord(p) PROVE canceled'[r]
  <2>1. pc[r] \in {"queued", "dequeued", "running"} /\ reqID[r] # NoID
    BY <1>2 DEF WriteRecord, At, Goto, IInv, TypeOK, PcTypeOK, reqVars, writeVars, Procs
  <2>2. incomingByID[reqID[r]] = r /\ reqID[r] \in IDs
    BY <2>1 DEF LiveCallFindable, IsCall, IInv, TypeOK, WorkTypeOK
  <2> QED BY <1>2, <2>2 DEF CancelTracked
<1> QED BY <1>1, <1>2, CancelFrame

\* handleAsync begins to hold or to wait for a request only by dequeueing it.
LEMMA WaitedBefore ==
    ASSUME IInv, [Next]_vars, NEW r \in Reqs, RequestOK(r), ~(Dequeue /\ r = Head(handlerQueue)),
           QueueWaitsFor(r)'
    PROVE  QueueWaitsFor(r)
<1> USE DEF At, reqVars
<1>a. PcTypeOK /\ WorkTypeOK /\ r \in Procs /\ r \notin Calls
  BY FiniteSetsAssumption DEF IInv, TypeOK, Procs, Outgoing
<1>1. CASE WriteStep(r)
  BY <1>a, <1>1 DEF WriteStep, WriteCheck, WriteDeliver, WriteOk, WriteFail, WriteRecord, Goto,
                    PcTypeOK, QueueWaitsFor
<1>2. CASE RequestStep(r)
  <2>1. CASE AcceptRequest(r) \/ Preempt(r) \/ Enqueue(r) \/ Deliver(r)
    BY <1>a, <2>1 DEF AcceptRequest, Preempt, Enqueue, Deliver, RequestOK, Goto, PcTypeOK, WorkTypeOK,
                      QueueWaitsFor
  <2>2. CASE Async(r) \/ HandlerReturn(r) \/ ProcessResult(r) \/ FinishRequest(r) \/ Release(r)
    BY <1>a, <2>2 DEF Async, HandlerReturn, ProcessResult, FinishRequest, Release, SoftReleased, Goto,
                      PcTypeOK, WorkTypeOK, QueueWaitsFor
  <2> QED BY <1>2, <2>1, <2>2 DEF RequestStep
<1>4. CASE ~WriteStep(r) /\ ~RequestStep(r)
  BY <1>4, RequestFrame DEF QueueWaitsFor
<1> QED BY <1>1, <1>2, <1>4

\* handleAsync goes on to hold or to wait for one request at a time.
LEMMA OneWaitedStep ==
    ASSUME IInv, [Next]_vars, \A r \in Reqs : RequestOK(r), OneWaited
    PROVE  OneWaited'
<1>1. CASE Dequeue
  <2>1. \A r \in Reqs : ~QueueWaitsFor(r)
    BY <1>1 DEF Dequeue, QueueFree
  <2>2. \A r \in Reqs : QueueWaitsFor(r)' => r = Head(handlerQueue)
    BY <2>1, WaitedBefore
  <2> QED BY <2>2 DEF OneWaited
<1>2. CASE ~Dequeue
  <2>1. \A r \in Reqs : QueueWaitsFor(r)' => QueueWaitsFor(r)
    BY <1>2, WaitedBefore
  <2> QED BY <2>1 DEF OneWaited
<1> QED BY <1>1, <1>2

-----------------------------------------------------------------------------
(* The transport *)

\* Connection.write calls Writer.Write only while the connection is open.
LEMMA WriteBegins ==
    ASSUME IInv, [Next]_vars, NEW p \in Procs, pc'[p] = "wsend"
    PROVE  pc[p] = "wsend" \/ ~shuttingDown
<1> USE DEF stateVars, settleVars, outVars, inVars, reqVars, writeVars, apiVars
<1> DEFINE Same == pc[p] = "wsend" \/ ~shuttingDown
<1>a. PcTypeOK /\ ConnTypeOK
  BY DEF IInv, TypeOK
<1>c. Calls \subseteq Procs /\ Notifs \subseteq Procs /\ Reqs \subseteq Procs
  BY DEF Procs, Outgoing
<1>1. ASSUME NEW c \in Calls, CallStep(c) PROVE Same
  BY <1>a, <1>c, <1>1 DEF CallStep, CallMarshalError, CallBegin, CallRetire, CallReturn,
                          ReadResponse, Goto, PcTypeOK
<1>2. ASSUME NEW n \in Notifs, NotifyStep(n) PROVE Same
  BY <1>a, <1>c, <1>2 DEF NotifyStep, NotifyBegin, NotifyFinish, Goto, PcTypeOK
<1>3. ASSUME NEW q \in Procs, WriteStep(q) PROVE Same
  BY <1>a, <1>3 DEF WriteStep, WriteCheck, MayWrite, WriteDeliver, WriteOk, WriteFail, WriteRecord,
                    Goto, PcTypeOK
<1>4. ASSUME NEW r \in Reqs, RequestStep(r) PROVE Same
  BY <1>a, <1>c, <1>4 DEF RequestStep, AcceptRequest, Preempt, Enqueue, Deliver, Async, HandlerReturn,
                          ProcessResult, FinishRequest, Release, Goto, PcTypeOK
<1>5. ASSUME ConnStep PROVE Same
  <2>1. CASE Dequeue
    BY <1>a, <1>c, <2>1, HeadTailProperties DEF Dequeue, Goto, PcTypeOK, ConnTypeOK
  <2>2. CASE Start \/ ReadFail \/ QueueExit \/ CloseBegin \/ CloseReturn \/ WaitReturn
    BY <2>2 DEF Start, ReadFail, QueueExit, CloseBegin, CloseReturn, WaitReturn
  <2> QED BY <1>5, <2>1, <2>2 DEF ConnStep
<1>6. ASSUME NEW q \in Outgoing, CancelCtx(q) PROVE Same
  BY <1>6 DEF CancelCtx
<1>7. ASSUME NEW id \in IDs, Cancel(id) PROVE Same
  BY <1>7 DEF Cancel
<1>8. CASE UNCHANGED vars
  BY <1>8 DEF vars
<1> QED BY <1>1, <1>2, <1>3, <1>4, <1>5, <1>6, <1>7, <1>8 DEF Next, Rest

\* updateInFlight's tail is the only writer of closer and done: it closes them
\* for good, and only on an idle connection that shuts down.
LEMMA CloserStep ==
    ASSUME [Next]_vars
    PROVE  /\ closer' = closer \/ (closer' = "closed" /\ idle')
           /\ done' = done \/ (~done /\ idle' /\ shuttingDown')
<1> USE DEF settleVars
<1> DEFINE Kept == /\ closer' = closer \/ (closer' = "closed" /\ idle')
                   /\ done' = done \/ (~done /\ idle' /\ shuttingDown')
<1>a. ASSUME NEW fPanic, Settle(fPanic) PROVE Kept
  BY <1>a DEF Settle
<1>1. ASSUME NEW c \in Calls, CallStep(c) PROVE Kept
  BY <1>1, <1>a DEF CallStep, CallMarshalError, CallBegin, CallRetire, CallReturn, ReadResponse,
                    RetireTracked
<1>2. ASSUME NEW n \in Notifs, NotifyStep(n) PROVE Kept
  BY <1>2, <1>a DEF NotifyStep, NotifyBegin, NotifyFinish
<1>3. ASSUME NEW p \in Procs, WriteStep(p) PROVE Kept
  BY <1>3, <1>a DEF WriteStep, WriteCheck, WriteDeliver, WriteOk, WriteFail, WriteRecord
<1>4. ASSUME NEW r \in Reqs, RequestStep(r) PROVE Kept
  BY <1>4, <1>a DEF RequestStep, AcceptRequest, Preempt, Enqueue, Deliver, Async, HandlerReturn,
                    ProcessResult, FinishRequest, Release
<1>5. ASSUME ConnStep PROVE Kept
  BY <1>5, <1>a DEF ConnStep, Start, ReadFail, Dequeue, QueueExit, CloseBegin, CloseReturn, WaitReturn
<1>6. ASSUME NEW p \in Outgoing, CancelCtx(p) PROVE Kept
  BY <1>6 DEF CancelCtx
<1>7. ASSUME NEW id \in IDs, Cancel(id) PROVE Kept
  BY <1>7, <1>a DEF Cancel
<1>8. CASE UNCHANGED vars
  BY <1>8 DEF vars
<1> QED BY <1>1, <1>2, <1>3, <1>4, <1>5, <1>6, <1>7, <1>8 DEF Next, Rest

\* On an idle connection no notification and no request is in flight.
LEMMA IdleMeansNobody ==
    ASSUME PcTypeOK', Counted', idle'
    PROVE  \A p \in Notifs \cup Reqs : pc'[p] # "wsend"
<1>1. IsFiniteSet(Notifying') /\ IsFiniteSet(Accepted')
  BY FiniteSetsAssumption, FS_Subset DEF Notifying, Accepted
<1>2. Cardinality(Notifying') = 0 /\ Cardinality(Accepted') = 0
  BY DEF Counted, idle
<1>3. Notifying' = {} /\ Accepted' = {}
  BY <1>1, <1>2, FS_EmptySet
<1> QED BY <1>3 DEF Notifying, Accepted, InFlight

\* The transport is never closed under a notification or a response.
LEMMA NoWriteStep ==
    ASSUME IInv, IInv', ShutdownOK, NoWriteOnClosedTransport, [Next]_vars
    PROVE  NoWriteOnClosedTransport'
<1> SUFFICES ASSUME NEW p \in Notifs \cup Reqs, pc'[p] = "wsend", closer' # "open" PROVE FALSE
    BY DEF NoWriteOnClosedTransport
<1>1. ~idle'
  BY IdleMeansNobody DEF IInv, TypeOK
<1>2. closer = "closed"
  BY <1>1, CloserStep DEF IInv, TypeOK, SettleTypeOK
<1>3. pc[p] = "wsend"
  BY <1>2, WriteBegins DEF ShutdownOK, Procs, Outgoing
<1> QED BY <1>2, <1>3 DEF NoWriteOnClosedTransport

-----------------------------------------------------------------------------
(* The theorems *)

\* The initial state satisfies SInv.
LEMMA SInvInit == Init => SInv
<1> SUFFICES ASSUME Init PROVE SInv
    OBVIOUS
<1> USE DEF Init, Procs, Outgoing
<1>1. ShutdownOK /\ TrackedCallsHaveReader /\ NoWriteOnClosedTransport
  BY DEF ShutdownOK, TrackedCallsHaveReader, NoWriteOnClosedTransport, shuttingDown
<1>2. \A c \in Calls : CallOK(c)
  BY DEF CallOK
<1>3. \A r \in Reqs : RequestOK(r)
  BY DEF RequestOK
<1>4. LiveCallFindable /\ BrokenWriterCancels /\ OneWaited
  BY DEF LiveCallFindable, BrokenWriterCancels, OneWaited, QueueWaitsFor
<1> QED BY <1>1, <1>2, <1>3, <1>4 DEF SInv

\* What the connection knows of its transport, its calls and its requests agrees
\* with where their goroutines are.
THEOREM SafetyInvariant == Spec => [](IInv /\ SInv)
<1>1. IInv /\ [Next]_vars => IInv'
  BY TypeStep, CountStep, QueueStep, TrackedStep, MapStep, DoneStep DEF IInv
<1>2. IInv /\ IInv' /\ SInv /\ [Next]_vars => SInv'
  BY ShutdownStep, NoWriteStep, CallOKStep, RequestOKStep, FindableStep, BrokenWriterStep, OneWaitedStep
     DEF SInv
<1> QED BY IInvInit, SInvInit, <1>1, <1>2, PTL DEF Spec

\* A call that Call has returned is retired, or it reached the peer and is
\* tracked for the response.
THEOREM CallsResolvedOrTracked == Spec => []CallResolvedOrTracked
<1>1. SInv => CallResolvedOrTracked
  BY DEF SInv, CallOK, CallResolvedOrTracked
<1> QED BY SafetyInvariant, <1>1, PTL

\* No call is left waiting for a reader that has exited.
THEOREM CallsHaveReader == Spec => []TrackedCallsHaveReader
<1>1. SInv => TrackedCallsHaveReader
  BY DEF SInv
<1> QED BY SafetyInvariant, <1>1, PTL

\* No notification or response is inside Writer.Write on a closed transport.
THEOREM NoWriteAfterClose == Spec => []NoWriteOnClosedTransport
<1>1. SInv => NoWriteOnClosedTransport
  BY DEF SInv
<1> QED BY SafetyInvariant, <1>1, PTL

\* Connection.Cancel finds every unanswered call by its ID.
THEOREM CallsFindable == Spec => []LiveCallFindable
<1>1. SInv => LiveCallFindable
  BY DEF SInv
<1> QED BY SafetyInvariant, <1>1, PTL

\* Handlers that have not called Async run one at a time.
THEOREM HandlersAreSerial == Spec => []OneUnreleasedHandler
<1>1. SInv => OneUnreleasedHandler
  BY DEF SInv, OneWaited, QueueWaitsFor, OneUnreleasedHandler
<1> QED BY SafetyInvariant, <1>1, PTL

\* readIncoming writes no response but the Preempter's.
THEOREM ReaderWritesNothing == Spec => []ReaderNeverWrites
<1>1. SInv => ReaderNeverWrites
  BY DEF SInv, RequestOK, ReaderNeverWrites
<1> QED BY SafetyInvariant, <1>1, PTL

\* A write error cancels the Context of every call the handler has or will get.
THEOREM WriteErrorCancels == Spec => []BrokenWriterCancels
<1>1. SInv => BrokenWriterCancels
  BY DEF SInv
<1> QED BY SafetyInvariant, <1>1, PTL

\* An accepted call whose response never reached the peer has one of the reasons
\* the code knows.
THEOREM CallsAnswered == Spec => []AcceptedCallAnswered
<1>1. SInv => AcceptedCallAnswered
  BY DEF SInv, RequestOK, Excused, AcceptedCallAnswered
<1> QED BY SafetyInvariant, <1>1, PTL

-----------------------------------------------------------------------------
(* Action properties *)

\* While the connection shuts down no call is registered.
LEMMA CallsShrink ==
    ASSUME [Next]_vars, shuttingDown
    PROVE  outgoingCalls' \subseteq outgoingCalls
<1> USE DEF outVars
<1>1. ASSUME NEW c \in Calls, CallStep(c) PROVE outgoingCalls' \subseteq outgoingCalls
  BY <1>1 DEF CallStep, CallMarshalError, CallBegin, CallRetire, CallReturn, ReadResponse, RetireTracked
<1>2. ASSUME NEW n \in Notifs, NotifyStep(n) PROVE outgoingCalls' \subseteq outgoingCalls
  BY <1>2 DEF NotifyStep, NotifyBegin, NotifyFinish
<1>3. ASSUME NEW p \in Procs, WriteStep(p) PROVE outgoingCalls' \subseteq outgoingCalls
  BY <1>3 DEF WriteStep, WriteCheck, WriteDeliver, WriteOk, WriteFail, WriteRecord
<1>4. ASSUME NEW r \in Reqs, RequestStep(r) PROVE outgoingCalls' \subseteq outgoingCalls
  BY <1>4 DEF RequestStep, AcceptRequest, Preempt, Enqueue, Deliver, Async, HandlerReturn,
              ProcessResult, FinishRequest, Release
<1>5. ASSUME ConnStep PROVE outgoingCalls' \subseteq outgoingCalls
  BY <1>5 DEF ConnStep, Start, ReadFail, Dequeue, QueueExit, CloseBegin, CloseReturn, WaitReturn
<1>6. ASSUME NEW p \in Outgoing, CancelCtx(p) PROVE outgoingCalls' \subseteq outgoingCalls
  BY <1>6 DEF CancelCtx
<1>7. ASSUME NEW id \in IDs, Cancel(id) PROVE outgoingCalls' \subseteq outgoingCalls
  BY <1>7 DEF Cancel
<1>8. CASE UNCHANGED vars
  BY <1>8 DEF vars
<1> QED BY <1>1, <1>2, <1>3, <1>4, <1>5, <1>6, <1>7, <1>8 DEF Next, Rest

\* While the connection shuts down no request is enqueued.
LEMMA QueueShrinks ==
    ASSUME IInv, [Next]_vars, shuttingDown
    PROVE  Len(handlerQueue') <= Len(handlerQueue)
<1> USE DEF inVars
<1> DEFINE Shrinks == Len(handlerQueue') <= Len(handlerQueue)
<1>a. handlerQueue \in Seq(Reqs) /\ Len(handlerQueue) \in Nat
  BY DEF IInv, TypeOK, ConnTypeOK
<1>b. UNCHANGED handlerQueue => Shrinks
  BY <1>a
<1>1. ASSUME NEW c \in Calls, CallStep(c) PROVE Shrinks
  BY <1>1, <1>b DEF CallStep, CallMarshalError, CallBegin, CallRetire, CallReturn, ReadResponse
<1>2. ASSUME NEW n \in Notifs, NotifyStep(n) PROVE Shrinks
  BY <1>2, <1>b DEF NotifyStep, NotifyBegin, NotifyFinish
<1>3. ASSUME NEW p \in Procs, WriteStep(p) PROVE Shrinks
  BY <1>3, <1>b DEF WriteStep, WriteCheck, WriteDeliver, WriteOk, WriteFail, WriteRecord
<1>4. ASSUME NEW r \in Reqs, RequestStep(r) PROVE Shrinks
  BY <1>4, <1>b DEF RequestStep, AcceptRequest, Preempt, Enqueue, MayEnqueue, Deliver, Async,
                    HandlerReturn, ProcessResult, FinishRequest, Release
<1>5. ASSUME ConnStep PROVE Shrinks
  <2>1. CASE Dequeue
    <3>1. Len(Tail(handlerQueue)) = Len(handlerQueue) - 1
      BY <1>a, <2>1, HeadTailProperties DEF Dequeue
    <3> QED BY <1>a, <2>1, <3>1 DEF Dequeue
  <2>2. CASE Start \/ ReadFail \/ QueueExit \/ CloseBegin \/ CloseReturn \/ WaitReturn
    BY <1>b, <2>2 DEF Start, ReadFail, QueueExit, CloseBegin, CloseReturn, WaitReturn
  <2> QED BY <1>5, <2>1, <2>2 DEF ConnStep
<1>6. ASSUME NEW p \in Outgoing, CancelCtx(p) PROVE Shrinks
  BY <1>6, <1>b DEF CancelCtx
<1>7. ASSUME NEW id \in IDs, Cancel(id) PROVE Shrinks
  BY <1>7, <1>b DEF Cancel
<1>8. CASE UNCHANGED vars
  BY <1>8, <1>b DEF vars
<1> QED BY <1>1, <1>2, <1>3, <1>4, <1>5, <1>6, <1>7, <1>8 DEF Next, Rest

\* A shutdown is never revoked, and the work in flight only shrinks from then on.
THEOREM ShutdownIsFinal == Spec => ShutdownDrains
<1>1. IInv /\ [Next]_vars =>
        [shuttingDown => /\ shuttingDown'
                         /\ outgoingCalls' \subseteq outgoingCalls
                         /\ Len(handlerQueue') <= Len(handlerQueue)]_vars
  BY ShutdownStays, CallsShrink, QueueShrinks
<1> QED BY <1>1, InductiveInvariant, PTL DEF Spec, ShutdownDrains

\* A request is a duplicate only of one that is still unanswered.
LEMMA DuplicateIsUnanswered ==
    ASSUME IInv, SInv, NEW r \in Reqs, pc[r] = "idle", DuplicateID(r)
    PROVE  \E q \in Reqs \ {r} : IdOf[q] = IdOf[r] /\ pc[q] # "idle" /\ q \notin sent
<1>1. IdOf[r] \in IDs /\ incomingByID[IdOf[r]] \in Reqs
  BY IDsAssumption DEF DuplicateID, IInv, TypeOK, ConnTypeOK
<1>2. PICK q \in Reqs : q = incomingByID[IdOf[r]]
  BY <1>1
<1>3. pc[q] \in {"enqueue", "queued", "dequeued", "running", "result"} /\ reqID[q] = IdOf[r]
  BY <1>1, <1>2, IDsAssumption DEF IInv, MapOK
<1>4. IdOf[q] = IdOf[r] /\ q \notin sent
  BY <1>1, <1>3, IDsAssumption DEF SInv, RequestOK
<1> QED BY <1>3, <1>4

\* The peer may use an ID again as soon as it has the response.
THEOREM AnsweredIDsReusable == Spec => AnsweredIDReusable
<1> DEFINE Reused(r) == /\ pc[r] = "idle" /\ pc'[r] # "idle"
                        /\ \A q \in Reqs \ {r} : IdOf[q] = IdOf[r] => pc[q] = "idle" \/ q \in sent
<1>1. ASSUME IInv, SInv, [Next]_vars, NEW r \in Reqs, Reused(r) PROVE reqID'[r] = IdOf[r]
  <2>1. AcceptRequest(r)
    <3>1. ~WriteStep(r) /\ ~(Dequeue /\ r = Head(handlerQueue))
      BY <1>1 DEF WriteStep, WriteCheck, WriteDeliver, WriteOk, WriteFail, WriteRecord, At, Dequeue,
                  IInv, TypeOK, ConnTypeOK, QueueOK
    <3>2. RequestStep(r)
      BY <1>1, <3>1, RequestFrame
    <3> QED BY <1>1, <3>2 DEF RequestStep, Preempt, Enqueue, Deliver, Async, HandlerReturn,
                              ProcessResult, FinishRequest, Release, At
  <2>2. ~DuplicateID(r)
    BY <1>1, DuplicateIsUnanswered
  <2>3. reqID' = reqID
    BY <2>1, <2>2 DEF AcceptRequest
  <2> QED BY <1>1, <2>3 DEF IInv, MapOK
<1>2. IInv /\ SInv /\ [Next]_vars => [\A r \in Reqs : Reused(r) => reqID'[r] = IdOf[r]]_vars
  BY <1>1
<1> QED BY <1>2, SafetyInvariant, PTL DEF Spec, AnsweredIDReusable
=============================================================================
