------------------------ MODULE Jsonrpc2ConnProofs ------------------------
(***************************************************************************)
(* TLAPS proofs about Jsonrpc2Conn, for every number of calls,             *)
(* notifications and requests and every choice of the other constants.     *)
(***************************************************************************)
EXTENDS Jsonrpc2ConnProps, FiniteSetTheorems, SequenceTheorems, TLAPS

-----------------------------------------------------------------------------
\* updateInFlight's tail keeps the types of the fields it assigns.
LEMMA SettleType ==
    ASSUME NEW fPanic \in Panics, SettleTypeOK, ConnTypeOK', Settle(fPanic)
    PROVE  SettleTypeOK'
BY FaultsAssumption DEF Settle, SettleTypeOK, ConnTypeOK, Panics, settleVars, readerExited

\* A goroutine that moves to a label of its own kind keeps the types of pc.
LEMMA GotoType ==
    ASSUME PcTypeOK, NEW p \in Procs, NEW label, Goto(p, label),
           p \in Calls => label \in CallPCs, p \in Notifs => label \in NotifPCs,
           p \in Reqs => label \in ReqPCs
    PROVE  PcTypeOK'
BY DEF PcTypeOK, Goto, Procs, Outgoing

\* The initial state is well typed.
LEMMA TypeInit == Init => TypeOK /\ CtxErrorHasCause
<1> SUFFICES ASSUME Init PROVE TypeOK /\ CtxErrorHasCause
    OBVIOUS
<1> USE DEF Outgoing, Procs
<1>1. CtxErrorHasCause
  BY DEF Init, CtxErrorHasCause
<1>2. PcTypeOK
  BY DEF Init, PcTypeOK, CallPCs, NotifPCs, ReqPCs
<1>3. ConnTypeOK /\ SettleTypeOK
  <2>1. incomingByID \in [IDs -> Reqs \cup {NoReq}] BY DEF Init
  <2>2. handlerQueue \in Seq(Reqs) BY DEF Init
  <2>3. ConnTypeOK BY <2>1, <2>2 DEF Init, ConnTypeOK
  <2> QED BY <2>3 DEF Init, SettleTypeOK, Panics
<1>4. WorkTypeOK
  BY IDsAssumption DEF Init, WorkTypeOK, Responses, Outcomes
<1> QED BY <1>1, <1>2, <1>3, <1>4 DEF TypeOK

\* The counters are positive while somebody is counted.
LEMMA CountedPositive ==
    ASSUME PcTypeOK, Counted
    PROVE  /\ \A n \in Notifs : pc[n] \notin {"idle", "done"} =>
                outgoingNotifications \in Nat /\ outgoingNotifications > 0
           /\ \A r \in Reqs : InFlight(r) => incoming \in Nat /\ incoming > 0
<1>1. IsFiniteSet(Notifying) /\ IsFiniteSet(Accepted)
  BY FiniteSetsAssumption, FS_Subset DEF Notifying, Accepted
<1>2. Cardinality(Notifying) \in Nat /\ Cardinality(Accepted) \in Nat
  BY <1>1, FS_CardinalityType
<1>3. (Cardinality(Notifying) = 0 <=> Notifying = {}) /\ (Cardinality(Accepted) = 0 <=> Accepted = {})
  BY <1>1, FS_EmptySet
<1> QED BY <1>2, <1>3 DEF Counted, Notifying, Accepted

\* Every step keeps the types: one case per action, one step per part of TypeOK.
LEMMA TypeStep == IInv /\ [Next]_vars => TypeOK' /\ CtxErrorHasCause'
<1> SUFFICES ASSUME ConnTypeOK, SettleTypeOK, PcTypeOK, WorkTypeOK, CtxErrorHasCause, Counted,
                    [Next]_vars
             PROVE  ConnTypeOK' /\ SettleTypeOK' /\ PcTypeOK' /\ WorkTypeOK' /\ CtxErrorHasCause'
    BY DEF IInv, TypeOK
<1> USE FiniteSetsAssumption, IDsAssumption, FaultsAssumption
<1> USE DEF Outgoing, Procs, At, stateVars, settleVars, outVars, inVars, reqVars, writeVars, apiVars
<1>1. ASSUME NEW c \in Calls, CallStep(c)
      PROVE  ConnTypeOK' /\ SettleTypeOK' /\ PcTypeOK' /\ WorkTypeOK' /\ CtxErrorHasCause'
  <2>1. CASE CallMarshalError(c)
    <3>1. ConnTypeOK' BY <2>1 DEF CallMarshalError, ConnTypeOK
    <3>2. SettleTypeOK' BY <2>1 DEF CallMarshalError, SettleTypeOK
    <3>3. PcTypeOK' BY <2>1, GotoType DEF CallMarshalError, CallPCs
    <3>4. WorkTypeOK' BY <2>1 DEF CallMarshalError, Responses, WorkTypeOK
    <3>5. CtxErrorHasCause' BY <2>1 DEF CallMarshalError, CtxErrorHasCause, CtxErr, Goto, PcTypeOK
    <3> QED BY <3>1, <3>2, <3>3, <3>4, <3>5
  <2>2. CASE CallBegin(c)
    <3>1. ConnTypeOK' BY <2>2 DEF CallBegin, ConnTypeOK
    <3>2. SettleTypeOK' BY <2>2, <3>1, SettleType DEF CallBegin, Panics
    <3>3. PcTypeOK' BY <2>2, GotoType DEF CallBegin, CallPCs
    <3>4. WorkTypeOK' BY <2>2 DEF CallBegin, Responses, WorkTypeOK
    <3>5. CtxErrorHasCause' BY <2>2 DEF CallBegin, CtxErrorHasCause, CtxErr, Goto, PcTypeOK
    <3> QED BY <3>1, <3>2, <3>3, <3>4, <3>5
  <2>3. CASE CallRetire(c)
    <3>1. ConnTypeOK' BY <2>3 DEF CallRetire, RetireTracked, ConnTypeOK
    <3>2. SettleTypeOK' BY <2>3, <3>1, SettleType DEF CallRetire, RetireTracked, Panics
    <3>3. PcTypeOK' BY <2>3, GotoType DEF CallRetire, CallPCs
    <3>4. WorkTypeOK' BY <2>3 DEF CallRetire, RetireTracked, Responses, WorkTypeOK
    <3>5. CtxErrorHasCause' BY <2>3 DEF CallRetire, CtxErrorHasCause, CtxErr, Goto, PcTypeOK
    <3> QED BY <3>1, <3>2, <3>3, <3>4, <3>5
  <2>4. CASE CallReturn(c)
    <3>1. ConnTypeOK' BY <2>4 DEF CallReturn, ConnTypeOK
    <3>2. SettleTypeOK' BY <2>4 DEF CallReturn, SettleTypeOK
    <3>3. PcTypeOK' BY <2>4, GotoType DEF CallReturn, CallPCs
    <3>4. WorkTypeOK' BY <2>4 DEF CallReturn, WorkTypeOK
    <3>5. CtxErrorHasCause' BY <2>4 DEF CallReturn, CtxErrorHasCause, CtxErr, Goto, PcTypeOK
    <3> QED BY <3>1, <3>2, <3>3, <3>4, <3>5
  <2>5. CASE ReadResponse(c)
    <3>1. ConnTypeOK' BY <2>5 DEF ReadResponse, RetireTracked, ConnTypeOK
    <3>2. SettleTypeOK' BY <2>5, <3>1, SettleType DEF ReadResponse, RetireTracked, Panics
    <3>3. PcTypeOK' BY <2>5 DEF ReadResponse, PcTypeOK
    <3>4. WorkTypeOK' BY <2>5 DEF ReadResponse, RetireTracked, Responses, WorkTypeOK
    <3>5. CtxErrorHasCause' BY <2>5 DEF ReadResponse, CtxErrorHasCause, CtxErr
    <3> QED BY <3>1, <3>2, <3>3, <3>4, <3>5
  <2> QED BY <1>1, <2>1, <2>2, <2>3, <2>4, <2>5 DEF CallStep
<1>2. ASSUME NEW n \in Notifs, NotifyStep(n)
      PROVE  ConnTypeOK' /\ SettleTypeOK' /\ PcTypeOK' /\ WorkTypeOK' /\ CtxErrorHasCause'
  <2>1. CASE NotifyBegin(n)
    <3>1. ConnTypeOK' BY <2>1 DEF NotifyBegin, ConnTypeOK
    <3>2. SettleTypeOK' BY <2>1, <3>1, SettleType DEF NotifyBegin, Panics
    <3>3. PcTypeOK' BY <2>1, GotoType DEF NotifyBegin, NotifPCs
    <3>4. WorkTypeOK' BY <2>1 DEF NotifyBegin, WorkTypeOK
    <3>5. CtxErrorHasCause' BY <2>1 DEF NotifyBegin, CtxErrorHasCause, CtxErr, Goto, PcTypeOK
    <3> QED BY <3>1, <3>2, <3>3, <3>4, <3>5
  <2>2. CASE NotifyFinish(n)
    <3>1. ConnTypeOK' BY <2>2, CountedPositive DEF NotifyFinish, ConnTypeOK
    <3>2. SettleTypeOK' BY <2>2, <3>1, SettleType DEF NotifyFinish, Panics
    <3>3. PcTypeOK' BY <2>2, GotoType DEF NotifyFinish, NotifPCs
    <3>4. WorkTypeOK' BY <2>2 DEF NotifyFinish, WorkTypeOK
    <3>5. CtxErrorHasCause' BY <2>2 DEF NotifyFinish, CtxErrorHasCause, CtxErr, Goto, PcTypeOK
    <3> QED BY <3>1, <3>2, <3>3, <3>4, <3>5
  <2> QED BY <1>2, <2>1, <2>2 DEF NotifyStep
<1>3. ASSUME NEW p \in Procs, WriteStep(p)
      PROVE  ConnTypeOK' /\ SettleTypeOK' /\ PcTypeOK' /\ WorkTypeOK' /\ CtxErrorHasCause'
  <2>1. CASE WriteCheck(p)
    <3>1. ConnTypeOK' BY <2>1 DEF WriteCheck, ConnTypeOK
    <3>2. SettleTypeOK' BY <2>1, <3>1, SettleType DEF WriteCheck, Panics
    <3>3. PcTypeOK' BY <2>1, GotoType DEF WriteCheck, CallPCs, NotifPCs, ReqPCs
    <3>4. WorkTypeOK' BY <2>1 DEF WriteCheck, WorkTypeOK
    <3>5. CtxErrorHasCause' BY <2>1 DEF WriteCheck, WorkTypeOK, CtxErrorHasCause, CtxErr, Goto, PcTypeOK
    <3> QED BY <3>1, <3>2, <3>3, <3>4, <3>5
  <2>2. CASE WriteDeliver(p)
    <3>1. ConnTypeOK' BY <2>2 DEF WriteDeliver, ConnTypeOK
    <3>2. SettleTypeOK' BY <2>2 DEF WriteDeliver, SettleTypeOK
    <3>3. PcTypeOK' BY <2>2 DEF WriteDeliver, PcTypeOK
    <3>4. WorkTypeOK' BY <2>2 DEF WriteDeliver, WorkTypeOK
    <3>5. CtxErrorHasCause' BY <2>2 DEF WriteDeliver, CtxErrorHasCause, CtxErr
    <3> QED BY <3>1, <3>2, <3>3, <3>4, <3>5
  <2>3. CASE WriteOk(p)
    <3>1. ConnTypeOK' BY <2>3 DEF WriteOk, ConnTypeOK
    <3>2. SettleTypeOK' BY <2>3 DEF WriteOk, SettleTypeOK
    <3>3. PcTypeOK' BY <2>3, GotoType DEF WriteOk, CallPCs, NotifPCs, ReqPCs
    <3>4. WorkTypeOK' BY <2>3 DEF WriteOk, WorkTypeOK
    <3>5. CtxErrorHasCause' BY <2>3 DEF WriteOk, CtxErrorHasCause, CtxErr, Goto, PcTypeOK
    <3> QED BY <3>1, <3>2, <3>3, <3>4, <3>5
  <2>4. CASE WriteFail(p)
    <3>1. ConnTypeOK' BY <2>4 DEF WriteFail, ConnTypeOK
    <3>2. SettleTypeOK' BY <2>4 DEF WriteFail, SettleTypeOK
    <3>3. PcTypeOK' BY <2>4, GotoType DEF WriteFail, CallPCs, NotifPCs, ReqPCs
    <3>4. WorkTypeOK' BY <2>4 DEF WriteFail, WriteErrors, WorkTypeOK
    <3>5. CtxErrorHasCause' BY <2>4 DEF WriteFail, WriteErrors, WorkTypeOK, CtxErrorHasCause, CtxErr, Goto, PcTypeOK
    <3> QED BY <3>1, <3>2, <3>3, <3>4, <3>5
  <2>5. CASE WriteRecord(p)
    <3>1. ConnTypeOK' BY <2>5 DEF WriteRecord, BreaksConnection, CtxErrorHasCause, WorkTypeOK, ConnTypeOK
    <3>2. SettleTypeOK' BY <2>5, <3>1, SettleType DEF WriteRecord, Panics
    <3>3. PcTypeOK' BY <2>5, GotoType DEF WriteRecord, CallPCs, NotifPCs, ReqPCs
    <3>4. WorkTypeOK' BY <2>5 DEF WriteRecord, CancelTracked, WorkTypeOK
    <3>5. CtxErrorHasCause' BY <2>5 DEF WriteRecord, CancelTracked, WorkTypeOK, CtxErrorHasCause, CtxErr, Goto, PcTypeOK
    <3> QED BY <3>1, <3>2, <3>3, <3>4, <3>5
  <2> QED BY <1>3, <2>1, <2>2, <2>3, <2>4, <2>5 DEF WriteStep
<1>4. ASSUME NEW r \in Reqs, RequestStep(r)
      PROVE  ConnTypeOK' /\ SettleTypeOK' /\ PcTypeOK' /\ WorkTypeOK' /\ CtxErrorHasCause'
  <2>1. CASE AcceptRequest(r)
    <3>1. ConnTypeOK' BY <2>1 DEF AcceptRequest, IncomingWith, DuplicateID, ConnTypeOK
    <3>2. SettleTypeOK' BY <2>1, <3>1, SettleType DEF AcceptRequest, Panics
    <3>3. PcTypeOK' BY <2>1, GotoType DEF AcceptRequest, ReqPCs
    <3>4. WorkTypeOK' BY <2>1 DEF AcceptRequest, Outcomes, WorkTypeOK
    <3>5. CtxErrorHasCause' BY <2>1 DEF AcceptRequest, CtxErrorHasCause, CtxErr, Goto, PcTypeOK
    <3> QED BY <3>1, <3>2, <3>3, <3>4, <3>5
  <2>2. CASE Preempt(r)
    <3>1. ConnTypeOK' BY <2>2 DEF Preempt, ConnTypeOK
    <3>2. SettleTypeOK' BY <2>2 DEF Preempt, SettleTypeOK
    <3>3. PcTypeOK' BY <2>2, GotoType DEF Preempt, ReqPCs
    <3>4. WorkTypeOK' BY <2>2 DEF Preempt, Returns, Outcomes, WorkTypeOK
    <3>5. CtxErrorHasCause' BY <2>2 DEF Preempt, CtxErrorHasCause, CtxErr, Goto, PcTypeOK
    <3> QED BY <3>1, <3>2, <3>3, <3>4, <3>5
  <2>3. CASE Enqueue(r)
    <3>1. ConnTypeOK'
      <4>1. handlerQueue' \in Seq(Reqs)
        BY <2>3, AppendProperties DEF Enqueue, ConnTypeOK
      <4> QED BY <2>3, <4>1 DEF Enqueue, ConnTypeOK
    <3>2. SettleTypeOK' BY <2>3, <3>1, SettleType DEF Enqueue, Panics
    <3>3. PcTypeOK' BY <2>3, GotoType DEF Enqueue, ReqPCs
    <3>4. WorkTypeOK' BY <2>3 DEF Enqueue, Outcomes, WorkTypeOK
    <3>5. CtxErrorHasCause' BY <2>3 DEF Enqueue, CtxErrorHasCause, CtxErr, Goto, PcTypeOK
    <3> QED BY <3>1, <3>2, <3>3, <3>4, <3>5
  <2>4. CASE Deliver(r)
    <3>1. ConnTypeOK' BY <2>4 DEF Deliver, ConnTypeOK
    <3>2. SettleTypeOK' BY <2>4 DEF Deliver, SettleTypeOK
    <3>3. PcTypeOK' BY <2>4, GotoType DEF Deliver, ReqPCs
    <3>4. WorkTypeOK' BY <2>4 DEF Deliver, Outcomes, WorkTypeOK
    <3>5. CtxErrorHasCause' BY <2>4 DEF Deliver, CtxErrorHasCause, CtxErr, Goto, PcTypeOK
    <3> QED BY <3>1, <3>2, <3>3, <3>4, <3>5
  <2>5. CASE Async(r)
    <3>1. ConnTypeOK' BY <2>5 DEF Async, ConnTypeOK
    <3>2. SettleTypeOK' BY <2>5 DEF Async, SettleTypeOK
    <3>3. PcTypeOK' BY <2>5 DEF Async, PcTypeOK
    <3>4. WorkTypeOK' BY <2>5 DEF Async, WorkTypeOK
    <3>5. CtxErrorHasCause' BY <2>5 DEF Async, CtxErrorHasCause, CtxErr
    <3> QED BY <3>1, <3>2, <3>3, <3>4, <3>5
  <2>6. CASE HandlerReturn(r)
    <3>1. ConnTypeOK' BY <2>6 DEF HandlerReturn, ConnTypeOK
    <3>2. SettleTypeOK' BY <2>6 DEF HandlerReturn, SettleTypeOK
    <3>3. PcTypeOK' BY <2>6, GotoType DEF HandlerReturn, ReqPCs
    <3>4. WorkTypeOK' BY <2>6 DEF HandlerReturn, Returns, Outcomes, WorkTypeOK
    <3>5. CtxErrorHasCause' BY <2>6 DEF HandlerReturn, CtxErrorHasCause, CtxErr, Goto, PcTypeOK
    <3> QED BY <3>1, <3>2, <3>3, <3>4, <3>5
  <2>7. CASE ProcessResult(r)
    <3>1. ConnTypeOK' BY <2>7 DEF ProcessResult, DeleteID, IsCall, WorkTypeOK, ConnTypeOK
    <3>2. SettleTypeOK' BY <2>7, <3>1, SettleType DEF ProcessResult, internalErrorf, Panics
    <3>3. PcTypeOK' BY <2>7, GotoType DEF ProcessResult, ReqPCs
    <3>4. WorkTypeOK' BY <2>7 DEF ProcessResult, WorkTypeOK
    <3>5. CtxErrorHasCause' BY <2>7 DEF ProcessResult, CtxErrorHasCause, CtxErr, Goto, PcTypeOK
    <3> QED BY <3>1, <3>2, <3>3, <3>4, <3>5
  <2>8. CASE FinishRequest(r)
    <3>1. ConnTypeOK' BY <2>8 DEF FinishRequest, ConnTypeOK
    <3>2. SettleTypeOK' BY <2>8, <3>1, SettleType DEF FinishRequest, Panics
    <3>3. PcTypeOK' BY <2>8, GotoType DEF FinishRequest, ReqPCs
    <3>4. WorkTypeOK' BY <2>8 DEF FinishRequest, WorkTypeOK
    <3>5. CtxErrorHasCause' BY <2>8 DEF FinishRequest, WorkTypeOK, CtxErrorHasCause, CtxErr, Goto, PcTypeOK
    <3> QED BY <3>1, <3>2, <3>3, <3>4, <3>5
  <2>9. CASE Release(r)
    <3>1. ConnTypeOK' BY <2>9 DEF Release, ConnTypeOK
    <3>2. SettleTypeOK' BY <2>9 DEF Release, SettleTypeOK
    <3>3. PcTypeOK' BY <2>9, GotoType DEF Release, ReqPCs
    <3>4. WorkTypeOK' BY <2>9 DEF Release, SoftReleased, WorkTypeOK
    <3>5. CtxErrorHasCause' BY <2>9 DEF Release, CtxErrorHasCause, CtxErr, Goto, PcTypeOK
    <3> QED BY <3>1, <3>2, <3>3, <3>4, <3>5
  <2> QED BY <1>4, <2>1, <2>2, <2>3, <2>4, <2>5, <2>6, <2>7, <2>8, <2>9 DEF RequestStep
<1>5. ASSUME ConnStep PROVE ConnTypeOK' /\ SettleTypeOK' /\ PcTypeOK' /\ WorkTypeOK' /\ CtxErrorHasCause'
  <2>1. CASE Start
    <3>1. ConnTypeOK' BY <2>1 DEF Start, SettleTypeOK, ConnTypeOK
    <3>2. SettleTypeOK' BY <2>1, <3>1, SettleType DEF Start, Panics
    <3>3. PcTypeOK' BY <2>1 DEF Start, PcTypeOK
    <3>4. WorkTypeOK' BY <2>1 DEF Start, WorkTypeOK
    <3>5. CtxErrorHasCause' BY <2>1 DEF Start, CtxErrorHasCause, CtxErr
    <3> QED BY <3>1, <3>2, <3>3, <3>4, <3>5
  <2>2. CASE ReadFail
    <3>1. ConnTypeOK' BY <2>2 DEF ReadFail, ConnTypeOK
    <3>2. SettleTypeOK' BY <2>2, <3>1, SettleType DEF ReadFail, Panics
    <3>3. PcTypeOK' BY <2>2 DEF ReadFail, PcTypeOK
    <3>4. WorkTypeOK' BY <2>2 DEF ReadFail, RetireAll, Responses, WorkTypeOK
    <3>5. CtxErrorHasCause' BY <2>2 DEF ReadFail, CtxErrorHasCause, CtxErr
    <3> QED BY <3>1, <3>2, <3>3, <3>4, <3>5
  <2>3. CASE Dequeue
    <3>0. Head(handlerQueue) \in Reqs /\ Tail(handlerQueue) \in Seq(Reqs)
      BY <2>3, HeadTailProperties DEF Dequeue, ConnTypeOK
    <3>1. ConnTypeOK' BY <2>3, <3>0 DEF Dequeue, ConnTypeOK
    <3>2. SettleTypeOK' BY <2>3, <3>1, SettleType DEF Dequeue, Panics
    <3>3. PcTypeOK' BY <2>3, <3>0, GotoType DEF Dequeue, ReqPCs
    <3>4. WorkTypeOK' BY <2>3 DEF Dequeue, WorkTypeOK
    <3>5. CtxErrorHasCause' BY <2>3 DEF Dequeue, CtxErrorHasCause, CtxErr, Goto, PcTypeOK
    <3> QED BY <3>1, <3>2, <3>3, <3>4, <3>5
  <2>4. CASE QueueExit
    <3>1. ConnTypeOK' BY <2>4 DEF QueueExit, ConnTypeOK
    <3>2. SettleTypeOK' BY <2>4, <3>1, SettleType DEF QueueExit, Panics
    <3>3. PcTypeOK' BY <2>4 DEF QueueExit, PcTypeOK
    <3>4. WorkTypeOK' BY <2>4 DEF QueueExit, WorkTypeOK
    <3>5. CtxErrorHasCause' BY <2>4 DEF QueueExit, CtxErrorHasCause, CtxErr
    <3> QED BY <3>1, <3>2, <3>3, <3>4, <3>5
  <2>5. CASE CloseBegin
    <3>1. ConnTypeOK' BY <2>5 DEF CloseBegin, ConnTypeOK
    <3>2. SettleTypeOK' BY <2>5, <3>1, SettleType DEF CloseBegin, Panics
    <3>3. PcTypeOK' BY <2>5 DEF CloseBegin, PcTypeOK
    <3>4. WorkTypeOK' BY <2>5 DEF CloseBegin, WorkTypeOK
    <3>5. CtxErrorHasCause' BY <2>5 DEF CloseBegin, CtxErrorHasCause, CtxErr
    <3> QED BY <3>1, <3>2, <3>3, <3>4, <3>5
  <2>6. CASE CloseReturn
    <3>1. ConnTypeOK' BY <2>6 DEF CloseReturn, ConnTypeOK
    <3>2. SettleTypeOK' BY <2>6, <3>1, SettleType DEF CloseReturn, Panics
    <3>3. PcTypeOK' BY <2>6 DEF CloseReturn, PcTypeOK
    <3>4. WorkTypeOK' BY <2>6 DEF CloseReturn, WorkTypeOK
    <3>5. CtxErrorHasCause' BY <2>6 DEF CloseReturn, CtxErrorHasCause, CtxErr
    <3> QED BY <3>1, <3>2, <3>3, <3>4, <3>5
  <2>7. CASE WaitReturn
    <3>1. ConnTypeOK' BY <2>7 DEF WaitReturn, ConnTypeOK
    <3>2. SettleTypeOK' BY <2>7, <3>1, SettleType DEF WaitReturn, Panics
    <3>3. PcTypeOK' BY <2>7 DEF WaitReturn, PcTypeOK
    <3>4. WorkTypeOK' BY <2>7 DEF WaitReturn, waitError, WorkTypeOK
    <3>5. CtxErrorHasCause' BY <2>7 DEF WaitReturn, CtxErrorHasCause, CtxErr
    <3> QED BY <3>1, <3>2, <3>3, <3>4, <3>5
  <2> QED BY <1>5, <2>1, <2>2, <2>3, <2>4, <2>5, <2>6, <2>7 DEF ConnStep
<1>6. ASSUME NEW p \in Outgoing, CancelCtx(p)
      PROVE  ConnTypeOK' /\ SettleTypeOK' /\ PcTypeOK' /\ WorkTypeOK' /\ CtxErrorHasCause'
  BY <1>6 DEF CancelCtx, ConnTypeOK, SettleTypeOK, PcTypeOK, WorkTypeOK, CtxErrorHasCause, CtxErr
<1>7. ASSUME NEW id \in IDs, Cancel(id)
      PROVE  ConnTypeOK' /\ SettleTypeOK' /\ PcTypeOK' /\ WorkTypeOK' /\ CtxErrorHasCause'
  <2>1. ConnTypeOK' BY <1>7 DEF Cancel, ConnTypeOK
  <2>2. SettleTypeOK' BY <1>7, <2>1, SettleType DEF Cancel, Panics
  <2>3. PcTypeOK' BY <1>7 DEF Cancel, PcTypeOK
  <2>4. WorkTypeOK' BY <1>7 DEF Cancel, WorkTypeOK
  <2>5. CtxErrorHasCause' BY <1>7 DEF Cancel, WorkTypeOK, CtxErrorHasCause, CtxErr
  <2> QED BY <2>1, <2>2, <2>3, <2>4, <2>5
<1>8. CASE UNCHANGED vars
  BY <1>8 DEF vars, ConnTypeOK, SettleTypeOK, PcTypeOK, WorkTypeOK, CtxErrorHasCause, CtxErr
<1> QED BY <1>1, <1>2, <1>3, <1>4, <1>5, <1>6, <1>7, <1>8 DEF Next, Rest

-----------------------------------------------------------------------------
(* The counters *)

\* A move that neither begins nor ends counted work keeps the counts.
LEMMA CountNeutral ==
    ASSUME PcTypeOK, Counted, NEW p \in Procs, NEW label, Goto(p, label),
           p \in Notifs => (pc[p] \in {"idle", "done"} <=> label \in {"idle", "done"}),
           p \in Reqs => (pc[p] \in {"idle", "release", "done"}
                            <=> label \in {"idle", "release", "done"}),
           UNCHANGED <<outgoingNotifications, incoming>>
    PROVE  Counted'
<1>1. Notifying' = Notifying /\ Accepted' = Accepted
  BY DEF Notifying, Accepted, InFlight, Goto, PcTypeOK, Procs, Outgoing
<1> QED BY <1>1 DEF Counted

\* So does a step that moves nobody.
LEMMA CountSame ==
    ASSUME Counted, UNCHANGED <<pc, outgoingNotifications, incoming>>
    PROVE  Counted'
BY DEF Counted, Notifying, Accepted, InFlight

\* Every step keeps the counters equal to the number of goroutines they count.
LEMMA CountStep == IInv /\ [Next]_vars => Counted'
<1> SUFFICES ASSUME IInv, [Next]_vars PROVE Counted'
    OBVIOUS
<1> USE FiniteSetsAssumption
<1> USE DEF At, stateVars, settleVars, outVars, inVars, reqVars, writeVars, apiVars
<1>a. PcTypeOK /\ ConnTypeOK /\ Counted
  BY DEF IInv, TypeOK
<1>b. IsFiniteSet(Notifying) /\ IsFiniteSet(Accepted)
  BY FS_Subset DEF Notifying, Accepted
<1>c. Calls \subseteq Procs /\ Notifs \subseteq Procs /\ Reqs \subseteq Procs
      /\ Calls \cap Notifs = {} /\ Calls \cap Reqs = {} /\ Notifs \cap Reqs = {}
  BY DEF Procs, Outgoing
<1>1. ASSUME NEW c \in Calls, CallStep(c) PROVE Counted'
  <2>1. CASE CallMarshalError(c)
    BY <1>a, <1>c, <2>1, CountNeutral DEF CallMarshalError
  <2>2. CASE CallBegin(c)
    BY <1>a, <1>c, <2>2, CountNeutral DEF CallBegin
  <2>3. CASE CallRetire(c)
    BY <1>a, <1>c, <2>3, CountNeutral DEF CallRetire
  <2>4. CASE CallReturn(c)
    BY <1>a, <1>c, <2>4, CountNeutral DEF CallReturn
  <2>5. CASE ReadResponse(c)
    BY <1>a, <2>5, CountSame DEF ReadResponse
  <2> QED BY <1>1, <2>1, <2>2, <2>3, <2>4, <2>5 DEF CallStep
<1>2. ASSUME NEW n \in Notifs, NotifyStep(n) PROVE Counted'
  <2>1. CASE NotifyBegin(n)
    <3>1. CASE Goto(n, "done") /\ UNCHANGED outgoingNotifications
      BY <1>a, <1>c, <2>1, <3>1, CountNeutral DEF NotifyBegin, MayBegin
    <3>2. ASSUME NEW label \in {"wcheck", "finish"}, Goto(n, label),
                 outgoingNotifications' = outgoingNotifications + 1
          PROVE  Counted'
      <4>1. Notifying' = Notifying \cup {n} /\ n \notin Notifying /\ Accepted' = Accepted
        BY <1>a, <1>c, <2>1, <3>2 DEF NotifyBegin, MayBegin, Notifying, Accepted, InFlight, Goto, PcTypeOK
      <4>2. Cardinality(Notifying') = Cardinality(Notifying) + 1
        BY <1>b, <4>1, FS_AddElement
      <4> QED BY <1>a, <2>1, <3>2, <4>1, <4>2 DEF NotifyBegin, Counted
    <3> QED BY <2>1, <3>1, <3>2 DEF NotifyBegin
  <2>2. CASE NotifyFinish(n)
    <3>1. Notifying' = Notifying \ {n} /\ n \in Notifying /\ Accepted' = Accepted
      BY <1>a, <1>c, <2>2 DEF NotifyFinish, Notifying, Accepted, InFlight, Goto, PcTypeOK
    <3>2. Cardinality(Notifying') = Cardinality(Notifying) - 1
      BY <1>b, <3>1, FS_RemoveElement
    <3> QED BY <1>a, <2>2, <3>1, <3>2 DEF NotifyFinish, Counted
  <2> QED BY <1>2, <2>1, <2>2 DEF NotifyStep
<1>3. ASSUME NEW p \in Procs, WriteStep(p) PROVE Counted'
  <2>1. CASE WriteCheck(p)
    BY <1>a, <2>1, CountNeutral DEF WriteCheck
  <2>2. CASE WriteDeliver(p)
    BY <1>a, <2>2, CountSame DEF WriteDeliver
  <2>3. CASE WriteOk(p)
    BY <1>a, <1>c, <2>3, CountNeutral DEF WriteOk
  <2>4. CASE WriteFail(p)
    BY <1>a, <2>4, CountNeutral DEF WriteFail
  <2>5. CASE WriteRecord(p)
    BY <1>a, <1>c, <2>5, CountNeutral DEF WriteRecord
  <2> QED BY <1>3, <2>1, <2>2, <2>3, <2>4, <2>5 DEF WriteStep
<1>4. ASSUME NEW r \in Reqs, RequestStep(r) PROVE Counted'
  <2>1. CASE AcceptRequest(r)
    <3>1. PICK label \in {"enqueue", "result"} : Goto(r, label)
      BY <2>1 DEF AcceptRequest
    <3>2. Accepted' = Accepted \cup {r} /\ r \notin Accepted /\ Notifying' = Notifying
      BY <1>a, <1>c, <2>1, <3>1 DEF AcceptRequest, Notifying, Accepted, InFlight, Goto, PcTypeOK
    <3>3. Cardinality(Accepted') = Cardinality(Accepted) + 1
      BY <1>b, <3>2, FS_AddElement
    <3> QED BY <1>a, <2>1, <3>2, <3>3 DEF AcceptRequest, IncomingWith, Counted
  <2>2. CASE Preempt(r)
    BY <1>a, <1>c, <2>2, CountNeutral DEF Preempt
  <2>3. CASE Enqueue(r)
    BY <1>a, <1>c, <2>3, CountNeutral DEF Enqueue
  <2>4. CASE Deliver(r)
    BY <1>a, <1>c, <2>4, CountNeutral DEF Deliver
  <2>5. CASE Async(r)
    BY <1>a, <2>5, CountSame DEF Async
  <2>6. CASE HandlerReturn(r)
    BY <1>a, <1>c, <2>6, CountNeutral DEF HandlerReturn
  <2>7. CASE ProcessResult(r)
    BY <1>a, <1>c, <2>7, CountNeutral DEF ProcessResult
  <2>8. CASE FinishRequest(r)
    <3>1. PICK label \in {"release", "done"} : Goto(r, label)
      BY <2>8 DEF FinishRequest
    <3>2. Accepted' = Accepted \ {r} /\ r \in Accepted /\ Notifying' = Notifying
      BY <1>a, <1>c, <2>8, <3>1 DEF FinishRequest, Notifying, Accepted, InFlight, Goto, PcTypeOK
    <3>3. Cardinality(Accepted') = Cardinality(Accepted) - 1
      BY <1>b, <3>2, FS_RemoveElement
    <3>4. incoming > 0
      BY <1>a, <3>2, CountedPositive DEF Accepted
    <3> QED BY <1>a, <2>8, <3>2, <3>3, <3>4 DEF FinishRequest, Counted
  <2>9. CASE Release(r)
    BY <1>a, <1>c, <2>9, CountNeutral DEF Release
  <2> QED BY <1>4, <2>1, <2>2, <2>3, <2>4, <2>5, <2>6, <2>7, <2>8, <2>9 DEF RequestStep
<1>5. ASSUME ConnStep PROVE Counted'
  <2>1. CASE Dequeue
    <3>1. Head(handlerQueue) \in Reqs /\ pc[Head(handlerQueue)] = "queued"
      <4>1. Len(handlerQueue) > 0 /\ Head(handlerQueue) = handlerQueue[1]
        BY <1>a, <2>1 DEF Dequeue, ConnTypeOK
      <4> QED BY <1>a, <2>1, <4>1, HeadTailProperties DEF Dequeue, ConnTypeOK, IInv, QueueOK
    <3> QED BY <1>a, <1>c, <2>1, <3>1, CountNeutral DEF Dequeue
  <2>2. CASE Start \/ ReadFail \/ QueueExit \/ CloseBegin \/ CloseReturn \/ WaitReturn
    BY <1>a, <2>2, CountSame DEF Start, ReadFail, QueueExit, CloseBegin, CloseReturn, WaitReturn
  <2> QED BY <1>5, <2>1, <2>2 DEF ConnStep
<1>6. ASSUME NEW p \in Outgoing, CancelCtx(p) PROVE Counted'
  BY <1>a, <1>6, CountSame DEF CancelCtx
<1>7. ASSUME NEW id \in IDs, Cancel(id) PROVE Counted'
  BY <1>a, <1>7, CountSame DEF Cancel
<1>8. CASE UNCHANGED vars
  BY <1>a, <1>8, CountSame DEF vars
<1> QED BY <1>1, <1>2, <1>3, <1>4, <1>5, <1>6, <1>7, <1>8 DEF Next, Rest

-----------------------------------------------------------------------------
(* The handler queue *)

\* A move of a request that is not queued, or of another goroutine, leaves the
\* queue alone.
LEMMA QueueNeutral ==
    ASSUME PcTypeOK, ConnTypeOK, QueueOK, NEW p \in Procs, NEW label, Goto(p, label),
           pc[p] # "queued", UNCHANGED handlerQueue
    PROVE  QueueOK'
BY DEF QueueOK, Goto, PcTypeOK, ConnTypeOK, Procs

\* So does a step that moves nobody and leaves the queue alone.
LEMMA QueueSame ==
    ASSUME QueueOK, UNCHANGED <<pc, handlerQueue>>
    PROVE  QueueOK'
BY DEF QueueOK

\* Every step keeps the queue a list of distinct waiting requests.
LEMMA QueueStep == IInv /\ [Next]_vars => QueueOK'
<1> SUFFICES ASSUME IInv, [Next]_vars PROVE QueueOK'
    OBVIOUS
<1> USE DEF At, stateVars, settleVars, outVars, inVars, reqVars, writeVars, apiVars
<1>a. PcTypeOK /\ ConnTypeOK /\ QueueOK
  BY DEF IInv, TypeOK
<1>c. Calls \subseteq Procs /\ Notifs \subseteq Procs /\ Reqs \subseteq Procs
  BY DEF Procs, Outgoing
<1>1. ASSUME NEW c \in Calls, CallStep(c) PROVE QueueOK'
  <2>1. CASE ReadResponse(c)
    BY <1>a, <2>1, QueueSame DEF ReadResponse
  <2>2. CASE CallMarshalError(c) \/ CallBegin(c)
    BY <1>a, <1>c, <2>2, QueueNeutral DEF CallMarshalError, CallBegin, MayBegin
  <2>3. CASE CallRetire(c) \/ CallReturn(c)
    BY <1>a, <1>c, <2>3, QueueNeutral DEF CallRetire, CallReturn
  <2> QED BY <1>1, <2>1, <2>2, <2>3 DEF CallStep
<1>2. ASSUME NEW n \in Notifs, NotifyStep(n) PROVE QueueOK'
  BY <1>2, <1>a, <1>c, QueueNeutral DEF NotifyStep, NotifyBegin, NotifyFinish, MayBegin
<1>3. ASSUME NEW p \in Procs, WriteStep(p) PROVE QueueOK'
  <2>1. CASE WriteDeliver(p)
    BY <1>a, <2>1, QueueSame DEF WriteDeliver
  <2>2. CASE WriteCheck(p) \/ WriteOk(p) \/ WriteFail(p) \/ WriteRecord(p)
    BY <1>a, <2>2, QueueNeutral DEF WriteCheck, WriteOk, WriteFail, WriteRecord
  <2> QED BY <1>3, <2>1, <2>2 DEF WriteStep
<1>4. ASSUME NEW r \in Reqs, RequestStep(r) PROVE QueueOK'
  <2>1. CASE Enqueue(r)
    <3>1. CASE UNCHANGED handlerQueue
      BY <1>a, <1>c, <2>1, <3>1, QueueNeutral DEF Enqueue
    <3>2. CASE handlerQueue' = Append(handlerQueue, r) /\ Goto(r, "queued")
      <4>1. /\ Len(handlerQueue') = Len(handlerQueue) + 1
            /\ \A i \in 1..Len(handlerQueue) : handlerQueue'[i] = handlerQueue[i]
            /\ handlerQueue'[Len(handlerQueue) + 1] = r
        BY <1>a, <3>2, AppendProperties DEF ConnTypeOK
      <4>2. \A i \in 1..Len(handlerQueue) : handlerQueue[i] \in Reqs /\ handlerQueue[i] # r
        BY <1>a, <2>1 DEF Enqueue, QueueOK, ConnTypeOK
      <4>3. Len(handlerQueue) \in Nat
        BY <1>a DEF ConnTypeOK
      <4>4. \A i \in 1..Len(handlerQueue') : pc'[handlerQueue'[i]] = "queued"
        BY <1>a, <1>c, <3>2, <4>1, <4>2, <4>3 DEF QueueOK, Goto, PcTypeOK
      <4>5. \A i, j \in 1..Len(handlerQueue') : handlerQueue'[i] = handlerQueue'[j] => i = j
        BY <1>a, <4>1, <4>2, <4>3 DEF QueueOK
      <4> QED BY <4>4, <4>5 DEF QueueOK
    <3> QED BY <2>1, <3>1, <3>2 DEF Enqueue
  <2>2. CASE Async(r)
    BY <1>a, <2>2, QueueSame DEF Async
  <2>3. CASE AcceptRequest(r)
    BY <1>a, <1>c, <2>3, QueueNeutral DEF AcceptRequest
  <2>4. CASE Preempt(r) \/ Deliver(r) \/ HandlerReturn(r)
    BY <1>a, <1>c, <2>4, QueueNeutral DEF Preempt, Deliver, HandlerReturn
  <2>5. CASE ProcessResult(r) \/ FinishRequest(r) \/ Release(r)
    BY <1>a, <1>c, <2>5, QueueNeutral DEF ProcessResult, FinishRequest, Release
  <2> QED BY <1>4, <2>1, <2>2, <2>3, <2>4, <2>5 DEF RequestStep
<1>5. ASSUME ConnStep PROVE QueueOK'
  <2>1. CASE Dequeue
    <3>1. /\ Len(handlerQueue) \in Nat /\ Len(handlerQueue) > 0
          /\ Head(handlerQueue) = handlerQueue[1] /\ Head(handlerQueue) \in Reqs
      BY <1>a, <2>1, HeadTailProperties DEF Dequeue, ConnTypeOK
    <3>2. /\ Len(handlerQueue') = Len(handlerQueue) - 1
          /\ \A i \in 1..Len(handlerQueue') : handlerQueue'[i] = handlerQueue[i + 1]
      BY <1>a, <2>1, HeadTailProperties DEF Dequeue, ConnTypeOK
    <3>3. \A i \in 1..Len(handlerQueue') :
             /\ i + 1 \in 1..Len(handlerQueue) /\ handlerQueue[i + 1] \in Reqs
             /\ handlerQueue[i + 1] # handlerQueue[1]
      <4> TAKE i \in 1..Len(handlerQueue')
      <4>1. i + 1 \in 1..Len(handlerQueue) /\ 1 \in 1..Len(handlerQueue) /\ i + 1 # 1
        BY <3>1, <3>2
      <4> QED BY <1>a, <4>1 DEF QueueOK, ConnTypeOK
    <3>4. \A i \in 1..Len(handlerQueue') : pc'[handlerQueue'[i]] = "queued"
      BY <1>a, <1>c, <2>1, <3>1, <3>2, <3>3 DEF Dequeue, Goto, QueueOK, PcTypeOK
    <3>5. \A i, j \in 1..Len(handlerQueue') : handlerQueue'[i] = handlerQueue'[j] => i = j
      BY <1>a, <3>1, <3>2, <3>3 DEF QueueOK
    <3> QED BY <3>4, <3>5 DEF QueueOK
  <2>2. CASE Start \/ ReadFail \/ QueueExit \/ CloseBegin \/ CloseReturn \/ WaitReturn
    BY <1>a, <2>2, QueueSame DEF Start, ReadFail, QueueExit, CloseBegin, CloseReturn, WaitReturn
  <2> QED BY <1>5, <2>1, <2>2 DEF ConnStep
<1>6. ASSUME NEW p \in Outgoing, CancelCtx(p) PROVE QueueOK'
  BY <1>a, <1>6, QueueSame DEF CancelCtx
<1>7. ASSUME NEW id \in IDs, Cancel(id) PROVE QueueOK'
  BY <1>a, <1>7, QueueSame DEF Cancel
<1>8. CASE UNCHANGED vars
  BY <1>a, <1>8, QueueSame DEF vars
<1> QED BY <1>1, <1>2, <1>3, <1>4, <1>5, <1>6, <1>7, <1>8 DEF Next, Rest

-----------------------------------------------------------------------------
(* Outgoing calls *)

\* Every step keeps tracked calls unresolved.
LEMMA TrackedStep == IInv /\ [Next]_vars => TrackedUnresolved'
<1> SUFFICES ASSUME IInv, [Next]_vars PROVE TrackedUnresolved'
    OBVIOUS
<1> USE FiniteSetsAssumption
<1> USE DEF At, stateVars, settleVars, outVars, inVars, reqVars, writeVars, apiVars
<1>a. PcTypeOK /\ ConnTypeOK /\ WorkTypeOK /\ TrackedUnresolved
  BY DEF IInv, TypeOK
<1>c. Calls \subseteq Procs /\ Notifs \subseteq Procs /\ Reqs \subseteq Procs
      /\ Calls \cap Notifs = {} /\ Calls \cap Reqs = {} /\ Notifs \cap Reqs = {}
  BY DEF Procs, Outgoing
<1>d. ASSUME NEW p \in Procs, NEW label, Goto(p, label), label # "idle",
             UNCHANGED <<outgoingCalls, response>>
      PROVE  TrackedUnresolved'
  BY <1>a, <1>c, <1>d DEF TrackedUnresolved, Goto, PcTypeOK
<1>e. ASSUME UNCHANGED <<pc, outgoingCalls, response>> PROVE TrackedUnresolved'
  BY <1>a, <1>e DEF TrackedUnresolved
<1>1. ASSUME NEW c \in Calls, CallStep(c) PROVE TrackedUnresolved'
  <2>1. CASE CallMarshalError(c)
    BY <1>a, <1>c, <2>1 DEF CallMarshalError, MayBegin, TrackedUnresolved, Goto, PcTypeOK, WorkTypeOK
  <2>2. CASE CallBegin(c)
    BY <1>a, <1>c, <2>2 DEF CallBegin, MayBegin, TrackedUnresolved, Goto, PcTypeOK, WorkTypeOK
  <2>3. CASE CallRetire(c)
    BY <1>a, <1>c, <2>3 DEF CallRetire, RetireTracked, TrackedUnresolved, Goto, PcTypeOK, WorkTypeOK
  <2>4. CASE CallReturn(c)
    BY <1>c, <1>d, <2>4 DEF CallReturn
  <2>5. CASE ReadResponse(c)
    <3>1. CASE c \notin outgoingCalls
      BY <1>e, <2>5, <3>1 DEF ReadResponse, RetireTracked
    <3>2. CASE c \in outgoingCalls
      <4>1. /\ pc' = pc /\ outgoingCalls' = outgoingCalls \ {c}
            /\ \A d \in Calls : d # c => response'[d] = response[d]
        BY <1>a, <2>5, <3>2 DEF ReadResponse, RetireTracked, WorkTypeOK
      <4>2. ASSUME NEW d \in Calls
            PROVE  /\ d \in outgoingCalls' => response'[d] = "none" /\ pc'[d] # "idle"
                   /\ pc'[d] = "idle" => response'[d] = "none"
        BY <1>a, <3>2, <4>1 DEF TrackedUnresolved
      <4> QED BY <4>2 DEF TrackedUnresolved
    <3> QED BY <3>1, <3>2
  <2> QED BY <1>1, <2>1, <2>2, <2>3, <2>4, <2>5 DEF CallStep
<1>2. ASSUME NEW n \in Notifs, NotifyStep(n) PROVE TrackedUnresolved'
  BY <1>2, <1>c, <1>d DEF NotifyStep, NotifyBegin, NotifyFinish
<1>3. ASSUME NEW p \in Procs, WriteStep(p) PROVE TrackedUnresolved'
  <2>1. CASE WriteDeliver(p)
    BY <1>e, <2>1 DEF WriteDeliver
  <2>2. CASE WriteCheck(p) \/ WriteOk(p) \/ WriteFail(p) \/ WriteRecord(p)
    BY <1>d, <2>2 DEF WriteCheck, WriteOk, WriteFail, WriteRecord
  <2> QED BY <1>3, <2>1, <2>2 DEF WriteStep
<1>4. ASSUME NEW r \in Reqs, RequestStep(r) PROVE TrackedUnresolved'
  <2>1. CASE Async(r)
    BY <1>e, <2>1 DEF Async
  <2>2. CASE AcceptRequest(r)
    BY <1>c, <1>d, <2>2 DEF AcceptRequest
  <2>3. CASE Enqueue(r) \/ Preempt(r) \/ Deliver(r) \/ HandlerReturn(r)
    BY <1>c, <1>d, <2>3 DEF Enqueue, Preempt, Deliver, HandlerReturn
  <2>4. CASE ProcessResult(r) \/ FinishRequest(r) \/ Release(r)
    BY <1>c, <1>d, <2>4 DEF ProcessResult, FinishRequest, Release
  <2> QED BY <1>4, <2>1, <2>2, <2>3, <2>4 DEF RequestStep
<1>5. ASSUME ConnStep PROVE TrackedUnresolved'
  <2>1. CASE ReadFail
    <3>1. /\ pc' = pc /\ outgoingCalls' = {}
          /\ \A c \in Calls : c \notin outgoingCalls => response'[c] = response[c]
      BY <2>1 DEF ReadFail, RetireAll
    <3>2. ASSUME NEW c \in Calls
          PROVE  /\ c \in outgoingCalls' => response'[c] = "none" /\ pc'[c] # "idle"
                 /\ pc'[c] = "idle" => response'[c] = "none"
      BY <1>a, <3>1 DEF TrackedUnresolved
    <3> QED BY <3>2 DEF TrackedUnresolved
  <2>2. CASE Dequeue
    BY <1>a, <1>c, <1>d, <2>2, HeadTailProperties DEF Dequeue, ConnTypeOK
  <2>3. CASE Start \/ QueueExit \/ CloseBegin \/ CloseReturn \/ WaitReturn
    BY <1>e, <2>3 DEF Start, QueueExit, CloseBegin, CloseReturn, WaitReturn
  <2> QED BY <1>5, <2>1, <2>2, <2>3 DEF ConnStep
<1>6. ASSUME NEW p \in Outgoing, CancelCtx(p) PROVE TrackedUnresolved'
  BY <1>e, <1>6 DEF CancelCtx
<1>7. ASSUME NEW id \in IDs, Cancel(id) PROVE TrackedUnresolved'
  BY <1>e, <1>7 DEF Cancel
<1>8. CASE UNCHANGED vars
  BY <1>e, <1>8 DEF vars
<1> QED BY <1>1, <1>2, <1>3, <1>4, <1>5, <1>6, <1>7, <1>8 DEF Next, Rest

-----------------------------------------------------------------------------
(* incomingByID *)

\* A move keeps the map right if it does not take a tracked request past the
\* point where processResult removes its ID.
LEMMA MapNeutral ==
    ASSUME PcTypeOK, ConnTypeOK, MapOK, NEW p \in Procs, NEW label, Goto(p, label), label # "idle",
           pc[p] \in {"enqueue", "queued", "dequeued", "running", "result"}
             => label \in {"enqueue", "queued", "dequeued", "running", "result"},
           UNCHANGED <<incomingByID, reqID>>
    PROVE  MapOK'
<1>1. ASSUME NEW id \in IDs, incomingByID[id] # NoReq
      PROVE  pc'[incomingByID[id]] \in {"enqueue", "queued", "dequeued", "running", "result"}
  BY <1>1 DEF MapOK, Goto, PcTypeOK, ConnTypeOK, Procs
<1>2. \A r \in Reqs : pc'[r] = "idle" => pc[r] = "idle"
  BY DEF Goto, PcTypeOK, Procs
<1> QED BY <1>1, <1>2 DEF MapOK

\* So does a step that moves nobody and leaves the map alone.
LEMMA MapSame ==
    ASSUME MapOK, UNCHANGED <<pc, incomingByID, reqID>>
    PROVE  MapOK'
BY DEF MapOK

\* Every step keeps incomingByID a map to unanswered requests by their ID.
LEMMA MapStep == IInv /\ [Next]_vars => MapOK'
<1> SUFFICES ASSUME IInv, [Next]_vars PROVE MapOK'
    OBVIOUS
<1> USE DEF At, stateVars, settleVars, outVars, inVars, reqVars, writeVars, apiVars
<1>a. PcTypeOK /\ ConnTypeOK /\ WorkTypeOK /\ MapOK
  BY DEF IInv, TypeOK
<1>c. Calls \subseteq Procs /\ Notifs \subseteq Procs /\ Reqs \subseteq Procs
  BY DEF Procs, Outgoing
<1>1. ASSUME NEW c \in Calls, CallStep(c) PROVE MapOK'
  <2>1. CASE ReadResponse(c)
    BY <1>a, <2>1, MapSame DEF ReadResponse
  <2>2. CASE CallMarshalError(c) \/ CallBegin(c)
    BY <1>a, <1>c, <2>2, MapNeutral DEF CallMarshalError, CallBegin, MayBegin
  <2>3. CASE CallRetire(c) \/ CallReturn(c)
    BY <1>a, <1>c, <2>3, MapNeutral DEF CallRetire, CallReturn
  <2> QED BY <1>1, <2>1, <2>2, <2>3 DEF CallStep
<1>2. ASSUME NEW n \in Notifs, NotifyStep(n) PROVE MapOK'
  BY <1>2, <1>a, <1>c, MapNeutral DEF NotifyStep, NotifyBegin, NotifyFinish, MayBegin
<1>3. ASSUME NEW p \in Procs, WriteStep(p) PROVE MapOK'
  <2>1. CASE WriteDeliver(p)
    BY <1>a, <2>1, MapSame DEF WriteDeliver
  <2>2. CASE WriteCheck(p) \/ WriteOk(p) \/ WriteFail(p) \/ WriteRecord(p)
    BY <1>a, <2>2, MapNeutral DEF WriteCheck, WriteOk, WriteFail, WriteRecord
  <2> QED BY <1>3, <2>1, <2>2 DEF WriteStep
<1>4. ASSUME NEW r \in Reqs, RequestStep(r) PROVE MapOK'
  <2>1. CASE AcceptRequest(r)
    <3>1. pc[r] = "idle" /\ reqID[r] = IdOf[r] /\ \A id \in IDs : incomingByID[id] # r
      BY <1>a, <2>1, IDsAssumption DEF AcceptRequest, MapOK
    <3>2. PICK label \in {"enqueue", "result"} : Goto(r, label)
      BY <2>1 DEF AcceptRequest
    <3>3. /\ pc'[r] \in {"enqueue", "result"}
          /\ \A q \in Reqs : q # r => pc'[q] = pc[q]
      BY <1>a, <1>c, <3>2 DEF Goto, PcTypeOK
    <3>4. CASE incomingByID' = incomingByID
      <4>1. \A q \in Reqs : q # r => reqID'[q] = reqID[q]
        BY <1>a, <2>1 DEF AcceptRequest, WorkTypeOK
      <4> QED BY <1>a, <3>1, <3>3, <3>4, <4>1 DEF MapOK, ConnTypeOK
    <3>5. CASE /\ IdOf[r] \in IDs /\ reqID' = reqID
               /\ incomingByID' = [incomingByID EXCEPT ![IdOf[r]] = r]
      <4>1. \A id \in IDs : incomingByID'[id] = IF id = IdOf[r] THEN r ELSE incomingByID[id]
        BY <1>a, <3>5 DEF ConnTypeOK
      <4> QED BY <1>a, <3>1, <3>3, <3>5, <4>1 DEF MapOK, ConnTypeOK
    <3> QED BY <2>1, <3>4, <3>5, IDsAssumption DEF AcceptRequest
  <2>2. CASE ProcessResult(r)
    <3>1. \A id \in IDs : incomingByID'[id] \in {incomingByID[id], NoReq} /\ incomingByID'[id] # r
      BY <1>a, <2>2, IDsAssumption DEF ProcessResult, DeleteID, IsCall, MapOK, ConnTypeOK, WorkTypeOK
    <3>2. \A q \in Reqs : q # r => pc'[q] = pc[q]
      BY <1>a, <1>c, <2>2 DEF ProcessResult, Goto, PcTypeOK
    <3>3. pc'[r] # "idle" /\ reqID' = reqID
      BY <1>a, <1>c, <2>2 DEF ProcessResult, Goto, PcTypeOK
    <3> QED BY <1>a, <3>1, <3>2, <3>3 DEF MapOK, ConnTypeOK
  <2>3. CASE Async(r)
    BY <1>a, <2>3, MapSame DEF Async
  <2>4. CASE Enqueue(r) \/ Preempt(r) \/ Deliver(r) \/ HandlerReturn(r)
    BY <1>a, <1>c, <2>4, MapNeutral DEF Enqueue, Preempt, Deliver, HandlerReturn
  <2>5. CASE FinishRequest(r) \/ Release(r)
    BY <1>a, <1>c, <2>5, MapNeutral DEF FinishRequest, Release
  <2> QED BY <1>4, <2>1, <2>2, <2>3, <2>4, <2>5 DEF RequestStep
<1>5. ASSUME ConnStep PROVE MapOK'
  <2>1. CASE Dequeue
    <3>1. Head(handlerQueue) \in Reqs
      BY <1>a, <2>1, HeadTailProperties DEF Dequeue, ConnTypeOK
    <3> QED BY <1>a, <1>c, <2>1, <3>1, MapNeutral DEF Dequeue
  <2>2. CASE Start \/ ReadFail \/ QueueExit \/ CloseBegin \/ CloseReturn \/ WaitReturn
    BY <1>a, <2>2, MapSame DEF Start, ReadFail, QueueExit, CloseBegin, CloseReturn, WaitReturn
  <2> QED BY <1>5, <2>1, <2>2 DEF ConnStep
<1>6. ASSUME NEW p \in Outgoing, CancelCtx(p) PROVE MapOK'
  BY <1>a, <1>6, MapSame DEF CancelCtx
<1>7. ASSUME NEW id \in IDs, Cancel(id) PROVE MapOK'
  BY <1>a, <1>7, MapSame DEF Cancel
<1>8. CASE UNCHANGED vars
  BY <1>a, <1>8, MapSame DEF vars
<1> QED BY <1>1, <1>2, <1>3, <1>4, <1>5, <1>6, <1>7, <1>8 DEF Next, Rest

-----------------------------------------------------------------------------
(* done, and the panics *)

\* When done is closed nothing is in flight in either direction.
LEMMA DoneEmpty ==
    ASSUME IInv, done
    PROVE  /\ outgoingCalls = {} /\ ~handlerRunning /\ ~reading /\ shuttingDown
           /\ \A r \in Reqs : ~InFlight(r)
           /\ \A n \in Notifs : pc[n] \in {"idle", "done"}
           /\ \A id \in IDs : incomingByID[id] = NoReq
           /\ handlerQueue = <<>>
<1>1. outgoingCalls = {} /\ ~handlerRunning /\ ~reading /\ shuttingDown
      /\ outgoingNotifications = 0 /\ incoming = 0
  BY DEF IInv, DoneIsIdle, idle
<1>2. /\ \A r \in Reqs : ~InFlight(r)
      /\ \A n \in Notifs : pc[n] \in {"idle", "done"}
  BY <1>1, CountedPositive DEF IInv, TypeOK
<1>3. \A id \in IDs : incomingByID[id] = NoReq
  BY <1>2 DEF IInv, TypeOK, ConnTypeOK, MapOK, InFlight
<1>4. handlerQueue = <<>>
  <2>1. SUFFICES ASSUME handlerQueue # <<>> PROVE FALSE
    OBVIOUS
  <2>2. handlerQueue \in Seq(Reqs) /\ Len(handlerQueue) \in Nat /\ Len(handlerQueue) > 0
    BY <2>1 DEF IInv, TypeOK, ConnTypeOK
  <2>3. handlerQueue[1] \in Reqs /\ pc[handlerQueue[1]] = "queued"
    BY <2>2 DEF IInv, QueueOK
  <2> QED BY <1>2, <2>3 DEF InFlight
<1> QED BY <1>1, <1>2, <1>3, <1>4

\* An update that keeps a done connection idle closes done only when it may,
\* and does not panic.
LEMMA SettleDone ==
    ASSUME SettleTypeOK, NoPanic, DoneIsIdle, Settle("none"),
           done => idle' /\ shuttingDown' /\ ~reading'
    PROVE  DoneIsIdle' /\ NoPanic'
BY DEF Settle, DoneIsIdle, NoPanic, SettleTypeOK, settleVars, readerExited

\* A step that leaves inFlightState alone keeps done and panic right.
LEMMA DoneSame ==
    ASSUME DoneIsIdle, NoPanic,
           UNCHANGED <<stateVars, settleVars, outgoingCalls, outgoingNotifications, incoming,
                       handlerRunning>>
    PROVE  DoneIsIdle' /\ NoPanic'
BY DEF DoneIsIdle, NoPanic, idle, shuttingDown, stateVars, settleVars

\* No step reopens a done connection, and none panics on the bookkeeping.
LEMMA DoneStep == IInv /\ [Next]_vars => DoneIsIdle' /\ NoPanic'
<1> SUFFICES ASSUME IInv, [Next]_vars PROVE DoneIsIdle' /\ NoPanic'
    OBVIOUS
<1> USE DEF At, stateVars, settleVars, outVars, inVars, reqVars, writeVars, apiVars
<1>a. SettleTypeOK /\ NoPanic /\ DoneIsIdle /\ TrackedUnresolved /\ PcTypeOK /\ Counted
  BY DEF IInv, TypeOK
<1>b. /\ done => idle /\ shuttingDown /\ ~reading
      /\ done => outgoingCalls = {} /\ ~handlerRunning
      /\ done => \A r \in Reqs : ~InFlight(r)
      /\ done => \A n \in Notifs : pc[n] \in {"idle", "done"}
      /\ done => \A id \in IDs : incomingByID[id] = NoReq
  BY <1>a, DoneEmpty DEF DoneIsIdle
<1>1. ASSUME NEW c \in Calls, CallStep(c) PROVE DoneIsIdle' /\ NoPanic'
  <2>1. CASE CallMarshalError(c) \/ CallReturn(c)
    BY <1>a, <2>1, DoneSame DEF CallMarshalError, CallReturn
  <2>2. CASE CallBegin(c)
    BY <1>a, <1>b, <2>2, SettleDone DEF CallBegin, idle, shuttingDown
  <2>3. CASE CallRetire(c)
    BY <1>a, <1>b, <2>3, SettleDone DEF CallRetire, RetireTracked, Tracked, TrackedUnresolved, idle,
                                        shuttingDown
  <2>4. CASE ReadResponse(c)
    BY <1>a, <1>b, <2>4, SettleDone DEF ReadResponse, RetireTracked, TrackedUnresolved, idle,
                                        shuttingDown
  <2> QED BY <1>1, <2>1, <2>2, <2>3, <2>4 DEF CallStep
<1>2. ASSUME NEW n \in Notifs, NotifyStep(n) PROVE DoneIsIdle' /\ NoPanic'
  <2>1. CASE NotifyBegin(n)
    BY <1>a, <1>b, <2>1, SettleDone DEF NotifyBegin, idle, shuttingDown
  <2>2. CASE NotifyFinish(n)
    BY <1>a, <1>b, <2>2, SettleDone DEF NotifyFinish
  <2> QED BY <1>2, <2>1, <2>2 DEF NotifyStep
<1>3. ASSUME NEW p \in Procs, WriteStep(p) PROVE DoneIsIdle' /\ NoPanic'
  <2>1. CASE WriteDeliver(p) \/ WriteOk(p) \/ WriteFail(p)
    BY <1>a, <2>1, DoneSame DEF WriteDeliver, WriteOk, WriteFail
  <2>2. CASE WriteCheck(p)
    BY <1>a, <1>b, <2>2, SettleDone DEF WriteCheck, idle, shuttingDown
  <2>3. CASE WriteRecord(p)
    BY <1>a, <1>b, <2>3, SettleDone DEF WriteRecord, idle, shuttingDown
  <2> QED BY <1>3, <2>1, <2>2, <2>3 DEF WriteStep
<1>4. ASSUME NEW r \in Reqs, RequestStep(r) PROVE DoneIsIdle' /\ NoPanic'
  <2>1. CASE AcceptRequest(r)
    BY <1>a, <1>b, <2>1, SettleDone DEF AcceptRequest, ReaderFree
  <2>2. CASE Preempt(r) \/ Deliver(r) \/ Async(r) \/ HandlerReturn(r) \/ Release(r)
    BY <1>a, <2>2, DoneSame DEF Preempt, Deliver, Async, HandlerReturn, Release
  <2>3. CASE Enqueue(r)
    BY <1>a, <1>b, <2>3, SettleDone DEF Enqueue, InFlight
  <2>4. CASE ProcessResult(r)
    <3>1. ~done
      BY <1>b, <2>4 DEF ProcessResult, InFlight
    <3>2. CASE Settle("none")
      BY <1>a, <3>1, <3>2, SettleDone
    <3>3. CASE Settle("internal")
      BY <3>1, <3>3 DEF Settle, DoneIsIdle, NoPanic
    <3> QED BY <2>4, <3>2, <3>3 DEF ProcessResult, internalErrorf
  <2>5. CASE FinishRequest(r)
    <3>1. ~done /\ incoming # 0
      BY <1>a, <1>b, <2>5, CountedPositive DEF FinishRequest, InFlight
    <3> QED BY <1>a, <2>5, <3>1, SettleDone DEF FinishRequest
  <2> QED BY <1>4, <2>1, <2>2, <2>3, <2>4, <2>5 DEF RequestStep
<1>5. ASSUME ConnStep PROVE DoneIsIdle' /\ NoPanic'
  <2>1. CASE Start
    BY <1>a, <1>b, <2>1, SettleDone DEF Start, idle, shuttingDown
  <2>2. CASE ReadFail
    BY <1>a, <1>b, <2>2, SettleDone DEF ReadFail, ReaderFree, TrackedUnresolved, IInv, TypeOK, ConnTypeOK
  <2>3. CASE Dequeue \/ QueueExit
    BY <1>a, <1>b, <2>3, SettleDone DEF Dequeue, QueueExit, QueueFree
  <2>4. CASE CloseBegin \/ CloseReturn \/ WaitReturn
    BY <1>a, <1>b, <2>4, SettleDone DEF CloseBegin, CloseReturn, WaitReturn, idle, shuttingDown
  <2> QED BY <1>5, <2>1, <2>2, <2>3, <2>4 DEF ConnStep
<1>6. ASSUME NEW p \in Outgoing, CancelCtx(p) PROVE DoneIsIdle' /\ NoPanic'
  BY <1>a, <1>6, DoneSame DEF CancelCtx
<1>7. ASSUME NEW id \in IDs, Cancel(id) PROVE DoneIsIdle' /\ NoPanic'
  BY <1>a, <1>b, <1>7, SettleDone DEF Cancel, idle, shuttingDown
<1>8. CASE UNCHANGED vars
  BY <1>a, <1>8, DoneSame DEF vars
<1> QED BY <1>1, <1>2, <1>3, <1>4, <1>5, <1>6, <1>7, <1>8 DEF Next, Rest

-----------------------------------------------------------------------------
(* The theorems *)

\* The initial state satisfies the inductive invariant.
LEMMA IInvInit == Init => IInv
<1> SUFFICES ASSUME Init PROVE IInv
    OBVIOUS
<1>1. TypeOK /\ CtxErrorHasCause
  BY TypeInit
<1>2. Notifying = {} /\ Accepted = {}
  BY DEF Init, Notifying, Accepted, InFlight, Procs, Outgoing
<1>3. Counted
  BY <1>2, FS_EmptySet DEF Init, Counted
<1>4. QueueOK /\ TrackedUnresolved /\ DoneIsIdle /\ NoPanic
  BY DEF Init, QueueOK, TrackedUnresolved, DoneIsIdle, NoPanic, Procs, Outgoing
<1>5. MapOK
  BY DEF Init, MapOK
<1> QED BY <1>1, <1>3, <1>4, <1>5 DEF IInv

\* updateInFlight's bookkeeping always agrees with what the goroutines do.
THEOREM InductiveInvariant == Spec => []IInv
<1>1. IInv /\ [Next]_vars => IInv'
  BY TypeStep, CountStep, QueueStep, TrackedStep, MapStep, DoneStep DEF IInv
<1> QED BY IInvInit, <1>1, PTL DEF Spec

\* Every variable stays in its type; in particular a write error that a canceled
\* Context explains is never recorded as the connection's writeErr.
THEOREM TypeCorrect == Spec => []TypeOK
<1>1. IInv => TypeOK
  BY DEF IInv
<1> QED BY InductiveInvariant, <1>1, PTL

\* No retire, updateInFlight or processResult of any interleaving panics on the
\* connection's own bookkeeping.
THEOREM PanicFree == Spec => []NoPanic
<1>1. IInv => NoPanic
  BY DEF IInv
<1> QED BY InductiveInvariant, <1>1, PTL

\* When done is closed, and so when Close and Wait return, nothing is in flight
\* or queued, the reader has exited and the transport is closed.
THEOREM DoneDrained == Spec => []DoneMeansDrained
<1>1. IInv => DoneMeansDrained
  BY DoneEmpty DEF IInv, DoneIsIdle, DoneMeansDrained
<1> QED BY InductiveInvariant, <1>1, PTL
=============================================================================
