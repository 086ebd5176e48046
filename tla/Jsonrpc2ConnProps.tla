------------------------- MODULE Jsonrpc2ConnProps -------------------------
(***************************************************************************)
(* What makes the connection of Jsonrpc2Conn correct: the panics that      *)
(* guard its bookkeeping are unreachable, outgoing calls are resolved,     *)
(* incoming calls are answered, shutdown drains, and everybody returns.    *)
(***************************************************************************)
EXTENDS Jsonrpc2Conn

-----------------------------------------------------------------------------
(* Safety *)

\* A request that acceptRequest has counted and processResult has not finished.
InFlight(r) == pc[r] \notin {"idle", "release", "done"}

\* None of the panics that guard the connection's own bookkeeping can happen:
\* no call is retired twice, done is never followed by new work, and
\* processResult never finds incoming at zero.
NoPanic == panic \in {"none", "internal"}

\* Call's own comment: when it has returned, the call is retired, or its
\* request reached the peer and it is tracked for the response, even if Await
\* gave up because its Context was canceled.
CallResolvedOrTracked ==
    \A c \in Calls :
        pc[c] \in {"await", "done"} /\ response[c] = "none"
            => c \in outgoingCalls /\ c \in sent

\* No call waits for a reader that has exited: readIncoming retires what is
\* tracked, and Call tracks nothing afterwards.
TrackedCallsHaveReader == outgoingCalls # {} => reading \/ ~started

\* updateInFlight closes the transport only when idle, so no notification or
\* response is ever inside Writer.Write on a closed transport.
NoWriteOnClosedTransport ==
    \A p \in Notifs \cup Reqs : pc[p] = "wsend" => closer = "open"

\* The done channel is closed only when no request is in flight or queued, no
\* call is tracked, the reader has exited and the transport is closed.
DoneMeansDrained ==
    done => /\ \A r \in Reqs : ~InFlight(r)
            /\ \A n \in Notifs : pc[n] \in {"idle", "done"}
            /\ handlerQueue = <<>> /\ ~handlerRunning /\ ~reading
            /\ outgoingCalls = {} /\ closer = "closed"

\* A call that has not been answered yet can be found by its ID (and so be
\* canceled), whatever duplicates of the ID arrived meanwhile.
LiveCallFindable ==
    \A r \in Reqs :
        pc[r] \in {"enqueue", "queued", "dequeued", "running", "result"} /\ IsCall(r)
            => incomingByID[reqID[r]] = r

\* Handlers that have not called Async run one at a time.
OneUnreleasedHandler ==
    \A r1, r2 \in Reqs :
        /\ runner[r1] = "handler" /\ ~released[r1]
        /\ runner[r2] = "handler" /\ ~released[r2]
        => r1 = r2

\* readIncoming is never inside Writer.Write for a request that it refuses: it
\* answers none but those of the Preempter, so it goes on draining the stream
\* and two peers can not block each other by writing from both readers.
ReaderNeverWrites ==
    \A r \in Reqs \ Preempted : pc[r] = "wsend" => runner[r] # "reader"

\* A write error reaches every call the handler has or will get: Connection.write
\* cancels what is tracked and nothing is enqueued afterwards.
BrokenWriterCancels ==
    writeErr # "none" =>
        \A r \in Reqs :
            pc[r] \in {"queued", "dequeued", "running"} /\ IsCall(r) => canceled[r]

\* Every call that was accepted under its ID has its response delivered, unless
\* the connection began to shut down, the Writer refused the response, or the
\* handler's result was malformed.
AcceptedCallAnswered ==
    \A r \in Reqs :
        pc[r] \in {"finish", "release", "done"} /\ IsCall(r)
            => r \in sent \/ shuttingDown \/ werr[r] = "rejected" \/ outcome[r] = "malformed"

\* processResult's comment: the peer may reuse an ID as soon as it has the
\* response.  A request whose ID was used only by requests already answered
\* is never rejected as a duplicate.
AnsweredIDReusable ==
    [][\A r \in Reqs :
         /\ pc[r] = "idle" /\ pc'[r] # "idle"
         /\ \A q \in Reqs \ {r} : IdOf[q] = IdOf[r] => pc[q] = "idle" \/ q \in sent
         => reqID'[r] = IdOf[r]]_vars

\* Once shutdown begins it is never revoked, and the work in flight only
\* shrinks: no call is tracked and nothing is enqueued.
ShutdownDrains ==
    [][shuttingDown => /\ shuttingDown'
                       /\ outgoingCalls' \subseteq outgoingCalls
                       /\ Len(handlerQueue') <= Len(handlerQueue)]_vars

-----------------------------------------------------------------------------
(* Refinement *)

phaseOfConn == IF done THEN "closed" ELSE IF shuttingDown THEN "draining" ELSE "open"
stageOfCall == [c \in Calls |-> IF response[c] = "peer" THEN "answered"
                                ELSE IF response[c] # "none" THEN "failed"
                                ELSE IF Tracked(c) THEN "pending" ELSE "idle"]

Lifecycle == INSTANCE CallLifecycle WITH phase <- phaseOfConn, call <- stageOfCall

\* The connection keeps CallLifecycle's promise: Call, Retire, Await, the reader
\* and updateInFlight together resolve every call once, admit none after the
\* start of a shutdown, and close done only when no call is pending.
LifecycleSpec == Lifecycle!Spec

-----------------------------------------------------------------------------
(* Liveness *)

\* Close waits for in-flight work and then returns.
CloseReturns == closeState = "waiting" ~> closeState = "returned"

\* Every call returns to its caller.
CallsReturn == \A c \in Calls : pc[c] = "wcheck" ~> pc[c] = "done"

\* Every request that is read is finished.
RequestsFinish == \A r \in Reqs : pc[r] = "enqueue" ~> pc[r] = "done"

-----------------------------------------------------------------------------
(* The inductive invariant behind TypeOK, NoPanic and DoneMeansDrained *)

\* A cancellation error seen by Connection.write comes from a canceled Context.
CtxErrorHasCause ==
    \A p \in Procs : pc[p] = "wrecord" /\ werr[p] = "ctx" => CtxErr(p)

\* The notifications Notify has counted, and the requests acceptRequest has.
Notifying == {n \in Notifs : pc[n] \notin {"idle", "done"}}
Accepted == {r \in Reqs : InFlight(r)}

\* The counters of inFlightState are the number of goroutines they stand for.
Counted ==
    /\ outgoingNotifications = Cardinality(Notifying)
    /\ incoming = Cardinality(Accepted)

\* handlerQueue holds requests that wait for handleAsync, each of them once.
QueueOK ==
    /\ \A i \in 1..Len(handlerQueue) : pc[handlerQueue[i]] = "queued"
    /\ \A i, j \in 1..Len(handlerQueue) : handlerQueue[i] = handlerQueue[j] => i = j

\* A tracked call has begun and has no response, nor has a call yet to begin.
TrackedUnresolved ==
    \A c \in Calls : /\ c \in outgoingCalls => response[c] = "none" /\ pc[c] # "idle"
                     /\ pc[c] = "idle" => response[c] = "none"

\* incomingByID maps an ID to a request that carries it and is not answered.
MapOK ==
    /\ \A id \in IDs : incomingByID[id] # NoReq =>
         /\ pc[incomingByID[id]] \in {"enqueue", "queued", "dequeued", "running", "result"}
         /\ reqID[incomingByID[id]] = id
    /\ \A r \in Reqs : pc[r] = "idle" => reqID[r] = IdOf[r]

\* The done channel is closed on an idle connection that admits no new work.
DoneIsIdle == done => idle /\ shuttingDown /\ ~reading /\ closer = "closed"

\* The inductive invariant of the proofs: updateInFlight's bookkeeping agrees
\* with what the goroutines are doing.
IInv ==
    /\ TypeOK /\ CtxErrorHasCause /\ Counted /\ QueueOK /\ TrackedUnresolved /\ MapOK
    /\ DoneIsIdle /\ NoPanic

-----------------------------------------------------------------------------
(* The inductive invariant behind the other safety properties and the      *)
(* refinement; it is relative to IInv                                      *)

\* Whatever makes the connection unusable also makes it shut down, and every
\* updateInFlight that finds it idle then closes the transport, and done once
\* the reader has exited.
ShutdownOK ==
    /\ closer = "closed" => shuttingDown
    /\ started /\ ~reading => shuttingDown
    /\ panic = "none" /\ idle /\ shuttingDown => closer = "closed" /\ (done \/ reading)

\* What an outgoing call's position says: a failed write has an error, a call
\* without a response is tracked, and was sent if its write did not fail.
CallOK(c) ==
    /\ pc[c] \in {"wrecord", "retire"} => werr[c] # "none"
    /\ pc[c] # "idle" /\ response[c] = "none" => c \in outgoingCalls
    /\ pc[c] \in {"await", "done"} /\ response[c] = "none" => c \in sent

\* An unanswered call that is finished has a reason.
Excused(r) ==
    r \in sent \/ shuttingDown \/ werr[r] = "rejected" \/ outcome[r] = "malformed"

\* What an incoming request's position says of its ID, its response and the
\* goroutine that holds it: only a call refused in a shutdown, or preempted, is
\* answered by the reader, and a shutdown lets it write no more.
RequestOK(r) ==
    /\ reqID[r] \in {IdOf[r], NoID}
    /\ r \in sent => pc[r] \in {"wsend", "wrecord", "finish", "release", "done"}
    /\ pc[r] \in {"wcheck", "wsend", "wrecord"} => IsCall(r)
    /\ pc[r] = "wrecord" => werr[r] # "none"
    /\ pc[r] \in {"queued", "dequeued"} => runner[r] = "queue"
    /\ pc[r] = "running" => runner[r] = "handler"
    /\ r \notin Preempted /\ runner[r] = "reader" /\ IsCall(r) =>
         /\ pc[r] \in {"result", "wcheck"} => shuttingDown
         /\ pc[r] # "wsend"
    /\ pc[r] \in {"finish", "release", "done"} /\ IsCall(r) => Excused(r)

\* handleAsync holds, or waits for, one request at a time.
OneWaited == \A r1, r2 \in Reqs : QueueWaitsFor(r1) /\ QueueWaitsFor(r2) => r1 = r2

SInv ==
    /\ ShutdownOK /\ TrackedCallsHaveReader /\ NoWriteOnClosedTransport
    /\ \A c \in Calls : CallOK(c)
    /\ \A r \in Reqs : RequestOK(r)
    /\ LiveCallFindable /\ BrokenWriterCancels /\ OneWaited

-----------------------------------------------------------------------------
(* What the repository's comments say and the code does not do *)

\* Close: calls that arrive after the start of a Close "will receive immediate
\* responses with ErrServerClosing" (over a transport that does not fail).
RefusedCallAnswered ==
    \A r \in Reqs : pc[r] = "done" /\ IsCall(r) /\ runner[r] = "reader" => r \in sent

\* Close "waits for in-flight requests and enqueued Handle calls to complete":
\* no enqueued request is finished without a call of Handle.
EnqueuedReachHandler ==
    \A r \in Reqs : runner[r] = "queue" => pc[r] \in {"queued", "dequeued"}

\* Handler: "The Context passed to Handle will be canceled if the connection
\* is broken".
BrokenConnectionCancels ==
    \A r \in Reqs : pc[r] = "running" /\ readErr # "none" ~> canceled[r]

\* AgentFactory runs "after the bidirectional connection is ready".
FactoryCallsReturn == \A c \in Calls \cap Factory : pc[c] = "wcheck" ~> pc[c] = "done"

=============================================================================
