---------------------------- MODULE Jsonrpc2Conn ----------------------------
(***************************************************************************)
(* One end of a bidirectional JSON-RPC 2.0 connection, as implemented by   *)
(* internal/jsonrpc2/conn.go (type Connection and its inFlightState).      *)
(*                                                                         *)
(* The goroutines that share a Connection are:                             *)
(*   - one goroutine per outgoing Call or Notify (the elements of Calls    *)
(*     and Notifs), started by the application or by a running handler;    *)
(*   - the readIncoming goroutine, which owns an incoming request from the *)
(*     moment it is read until it is rejected, preempted or enqueued;      *)
(*   - the handleAsync goroutine, which dequeues requests one by one;      *)
(*   - one goroutine per request delivered to the Handler;                 *)
(*   - the goroutines blocked in Close and Wait.                           *)
(*                                                                         *)
(* Every call of updateInFlight is one atomic step that ends in Settle,    *)
(* the tail of updateInFlight that closes the transport and the done       *)
(* channel.  Between two such steps of a goroutine any other goroutine may *)
(* run.  Each message is abstracted to its identity; a JSON-RPC ID is a    *)
(* member of IDs, or NoID for a notification.                              *)
(***************************************************************************)
EXTENDS Integers, Sequences, FiniteSets

CONSTANTS
    Calls,              \* outgoing calls (Connection.Call)
    Notifs,             \* outgoing notifications (Connection.Notify)
    Reqs,               \* incoming messages of type *Request
    IDs,                \* the IDs the peer puts in its calls
    NoID,               \* ID{}: the request is a notification
    NoReq,              \* nil in incomingByID
    App,                \* the application, as opposed to a running handler
    IdOf,               \* the ID each incoming request carries on the wire
    CallerOf,           \* who makes an outgoing call: App, or a handler
    Factory,            \* outgoing calls made, and waited for, inside Bind
    CloseInFactory,     \* Bind may call Close
    Preempted,          \* requests the Preempter handles
    AsyncReqs,          \* requests whose handler calls Async
    Blocking,           \* requests whose handler waits for ctx.Done()
    Faulty,             \* requests whose handler may break Handler's contract
    Cancelable,         \* outgoing calls whose Context may be canceled
    CancelIDs,          \* IDs that Connection.Cancel may be called with
    OnInternalError,    \* ConnectionConfig.OnInternalError is set
    WriteFaults,        \* errors Writer.Write may return
    ReadFaults,         \* errors Reader.Read may return
    CloseResults        \* results Closer.Close may return

Outgoing == Calls \cup Notifs
Procs == Outgoing \cup Reqs

ASSUME FiniteSetsAssumption ==
    /\ IsFiniteSet(Calls) /\ IsFiniteSet(Notifs) /\ IsFiniteSet(Reqs)
    /\ Calls \cap Notifs = {} /\ Outgoing \cap Reqs = {}
ASSUME IDsAssumption ==
    /\ NoID \notin IDs /\ NoReq \notin Reqs /\ App \notin Reqs
    /\ IdOf \in [Reqs -> IDs \cup {NoID}]
    /\ CallerOf \in [Outgoing -> Reqs \cup {App}]
ASSUME RolesAssumption ==
    /\ Factory \subseteq Outgoing /\ Cancelable \subseteq Outgoing
    /\ \A p \in Factory \cup Cancelable : CallerOf[p] = App
    /\ Preempted \subseteq Reqs /\ AsyncReqs \subseteq Reqs
    /\ Blocking \subseteq Reqs /\ Faulty \subseteq Reqs
    /\ CancelIDs \subseteq IDs
    /\ OnInternalError \in BOOLEAN /\ CloseInFactory \in BOOLEAN
ASSUME FaultsAssumption ==
    /\ WriteFaults \subseteq {"io", "eof", "rejected"}
    /\ ReadFaults \subseteq {"eof", "err"}
    /\ CloseResults \subseteq {"none", "io"} /\ CloseResults # {}

-----------------------------------------------------------------------------
VARIABLES
    \* inFlightState and Connection, field by field
    started,                \* start has run (NewConnection is past Bind)
    connClosing, reading, readErr, writeErr,
    closer,                 \* "open", or "closed" once closer is nil
    closeErr,
    outgoingCalls,          \* the calls that are keys of the map
    outgoingNotifications, incoming,
    incomingByID,           \* [IDs -> Reqs \cup {NoReq}]
    handlerQueue, handlerRunning,
    done,                   \* the done channel is closed
    \* per goroutine and per request
    pc,                     \* where each outgoing call or request stands
    werr,                   \* err inside Connection.write
    ctxDone,                \* the caller's Context is canceled
    response,               \* AsyncCall.response; "none" until ready closes
    reqID,                  \* incomingRequest.ID, which acceptRequest may clear
    canceled,               \* incomingRequest.ctx is canceled
    runner,                 \* the goroutine that holds the request
    released,               \* releaser.released
    outcome,                \* the (result, err) processResult is given
    \* the wire and the callers of Close and Wait
    sent,                   \* messages that reached the peer
    closeState, waitState,  \* "idle", "waiting" or "returned"
    waitResult,             \* what Wait returned
    panic                   \* "none", or the panic that ended the process

stateVars == <<started, connClosing, reading, readErr, writeErr>>
settleVars == <<closer, closeErr, done, panic>>
outVars == <<outgoingCalls, outgoingNotifications, response>>
inVars == <<incoming, incomingByID, handlerQueue, handlerRunning>>
reqVars == <<reqID, canceled, runner, released, outcome>>
writeVars == <<werr, ctxDone, sent>>
apiVars == <<closeState, waitState, waitResult>>
vars == <<stateVars, settleVars, outVars, inVars, reqVars, writeVars, apiVars, pc>>

-----------------------------------------------------------------------------
CallPCs == {"idle", "wcheck", "wsend", "wrecord", "retire", "await", "done"}
NotifPCs == {"idle", "wcheck", "wsend", "wrecord", "finish", "done"}
ReqPCs == {"idle", "enqueue", "queued", "dequeued", "running", "result",
           "wcheck", "wsend", "wrecord", "finish", "release", "done"}
Responses == {"none", "peer", "marshal", "closing", "io", "eof", "rejected", "ctx", "err"}
Outcomes == {"none", "result", "error", "nil", "both", "malformed"}
Panics == {"none", "retire", "nonidle", "incoming", "internal"}

\* The types of the fields of Connection and inFlightState ...
ConnTypeOK ==
    /\ started \in BOOLEAN /\ connClosing \in BOOLEAN /\ reading \in BOOLEAN
    /\ readErr \in {"none"} \cup ReadFaults
    /\ writeErr \in {"none", "closing", "io", "eof"}
    /\ outgoingCalls \in SUBSET Calls
    /\ outgoingNotifications \in Nat /\ incoming \in Nat
    /\ incomingByID \in [IDs -> Reqs \cup {NoReq}]
    /\ handlerQueue \in Seq(Reqs) /\ handlerRunning \in BOOLEAN

\* ... of what updateInFlight's tail assigns ...
SettleTypeOK ==
    /\ closer \in {"open", "closed"} /\ closeErr \in {"none"} \cup CloseResults
    /\ done \in BOOLEAN /\ panic \in Panics

\* ... of the goroutines' positions ...
PcTypeOK ==
    /\ pc \in [Procs -> CallPCs \cup NotifPCs \cup ReqPCs]
    /\ \A c \in Calls : pc[c] \in CallPCs
    /\ \A n \in Notifs : pc[n] \in NotifPCs
    /\ \A r \in Reqs : pc[r] \in ReqPCs

\* ... and of calls, requests and API callers.
WorkTypeOK ==
    /\ werr \in [Procs -> {"none", "closing", "io", "eof", "rejected", "ctx"}]
    /\ ctxDone \in [Outgoing -> BOOLEAN]
    /\ response \in [Calls -> Responses]
    /\ reqID \in [Reqs -> IDs \cup {NoID}]
    /\ canceled \in [Reqs -> BOOLEAN]
    /\ runner \in [Reqs -> {"none", "reader", "queue", "handler"}]
    /\ released \in [Reqs -> BOOLEAN]
    /\ outcome \in [Reqs -> Outcomes]
    /\ sent \in SUBSET Procs
    /\ closeState \in {"idle", "waiting", "returned"}
    /\ waitState \in {"waiting", "returned"}
    /\ waitResult \in {"none", "nil", "read", "write", "close"}

\* Every variable stays in its type.  That writeErr does is not obvious: an
\* error due to a canceled Context must never be recorded there.
TypeOK == ConnTypeOK /\ SettleTypeOK /\ PcTypeOK /\ WorkTypeOK

\* NewConnection: nothing is in flight and the reader is not running yet.
Init ==
    /\ started = FALSE /\ connClosing = FALSE /\ reading = FALSE
    /\ readErr = "none" /\ writeErr = "none"
    /\ closer = "open" /\ closeErr = "none" /\ done = FALSE
    /\ outgoingCalls = {} /\ outgoingNotifications = 0 /\ incoming = 0
    /\ incomingByID = [id \in IDs |-> NoReq]
    /\ handlerQueue = <<>> /\ handlerRunning = FALSE
    /\ pc = [p \in Procs |-> "idle"]
    /\ werr = [p \in Procs |-> "none"]
    /\ ctxDone = [p \in Outgoing |-> FALSE]
    /\ response = [c \in Calls |-> "none"]
    /\ reqID = IdOf
    /\ canceled = [r \in Reqs |-> FALSE]
    /\ runner = [r \in Reqs |-> "none"]
    /\ released = [r \in Reqs |-> FALSE]
    /\ outcome = [r \in Reqs |-> "none"]
    /\ sent = {}
    /\ closeState = "idle" /\ waitState = "waiting" /\ waitResult = "none"
    /\ panic = "none"

-----------------------------------------------------------------------------
(* inFlightState's predicates and the tail of updateInFlight *)

\* Seeded fault: the requests being handled do not count as work.
idleDespiteIncoming == outgoingCalls = {} /\ outgoingNotifications = 0

\* Seeded fault: the transport is not closed before the reader has exited.
idleAfterReader ==
    /\ outgoingCalls = {} /\ outgoingNotifications = 0
    /\ incoming = 0 /\ ~handlerRunning /\ ~reading

idle ==
    /\ outgoingCalls = {} /\ outgoingNotifications = 0
    /\ incoming = 0 /\ ~handlerRunning

\* Seeded fault: a broken reader does not stop new calls.
shuttingDownUnlessRead == connClosing \/ writeErr # "none"

shuttingDown == connClosing \/ readErr # "none" \/ writeErr # "none"

\* The done channel may be closed: an idle connection whose reader has exited.
\* Seeded fault: the reader is not waited for.
readerIgnored == TRUE

readerExited == ~reading

\* What updateInFlight does once f has changed the state.  fPanic is the panic
\* that f itself raised, or "none".
Settle(fPanic) ==
    \/ /\ fPanic # "none"
       /\ panic' = fPanic
       /\ UNCHANGED <<closer, closeErr, done>>
    \/ /\ fPanic = "none" /\ done
       /\ panic' = IF idle' THEN "none" ELSE "nonidle"
       /\ UNCHANGED <<closer, closeErr, done>>
    \/ /\ fPanic = "none" /\ ~done /\ idle' /\ shuttingDown'
       /\ closer' = "closed"
       /\ \/ closer = "open" /\ closeErr' \in CloseResults
          \/ closer = "closed" /\ UNCHANGED closeErr
       /\ done' = readerExited'
       /\ UNCHANGED panic
    \/ /\ fPanic = "none" /\ ~done /\ ~(idle' /\ shuttingDown')
       /\ UNCHANGED settleVars

IsCall(r) == reqID[r] # NoID

\* ctx.Err() # nil for the Context that Connection.write is given: responses
\* are written under notDone, a handler's calls under the request's Context.
CtxErr(p) ==
    /\ p \in Outgoing
    /\ IF CallerOf[p] = App THEN ctxDone[p] ELSE canceled[CallerOf[p]]

\* A goroutine of a process that has not panicked is at label.
At(p, label) == panic = "none" /\ pc[p] = label

Goto(p, label) == pc' = [pc EXCEPT ![p] = label]

\* Where the goroutine of an outgoing call may begin it.
MayBegin(p) ==
    /\ At(p, "idle")
    /\ IF CallerOf[p] # App THEN pc[CallerOf[p]] = "running"
       ELSE IF p \in Factory THEN ~started ELSE started

-----------------------------------------------------------------------------
(* NewConnection and start *)

\* Bind has returned: start runs the reader unless the connection is done.
Start ==
    /\ panic = "none" /\ ~started
    /\ \A p \in Factory : pc[p] \in {"idle", "done"}
    /\ closeState # "waiting"
    /\ started' = TRUE
    /\ reading' = ~done
    /\ UNCHANGED <<connClosing, readErr, writeErr, outVars, inVars, reqVars,
                   writeVars, apiVars, pc>>
    /\ Settle("none")

-----------------------------------------------------------------------------
(* Call, Retire and Await *)

\* NewCall cannot marshal the parameters: the call is retired, untracked.
CallMarshalError(c) ==
    /\ MayBegin(c)
    /\ response' = [response EXCEPT ![c] = "marshal"]
    /\ Goto(c, "await")
    /\ UNCHANGED <<stateVars, settleVars, outgoingCalls, outgoingNotifications,
                   inVars, reqVars, writeVars, apiVars>>

\* Call registers the call, or retires it when the connection shuts down.
CallBegin(c) ==
    /\ MayBegin(c)
    /\ \/ /\ shuttingDown
          /\ response' = [response EXCEPT ![c] = "closing"]
          /\ Goto(c, "await")
          /\ UNCHANGED outgoingCalls
       \/ /\ ~shuttingDown
          /\ outgoingCalls' = outgoingCalls \cup {c}
          /\ Goto(c, "wcheck")
          /\ UNCHANGED response
    /\ UNCHANGED <<stateVars, outgoingNotifications, inVars, reqVars, writeVars, apiVars>>
    /\ Settle("none")

\* AsyncCall.retire for a call found in outgoingCalls; it panics, changing
\* nothing more, when the response is already there.
RetireTracked(c, resp) ==
    /\ outgoingCalls' = outgoingCalls \ {c}
    /\ response' = IF response[c] # "none" THEN response ELSE [response EXCEPT ![c] = resp]
    /\ Settle(IF response[c] # "none" THEN "retire" ELSE "none")

\* Retire looks the call up before it retires it.
\* Seeded fault: the lookup is missing.
TrackedUnchecked(c) == TRUE

Tracked(c) == c \in outgoingCalls

\* Retire after a failed write; a no-op when the call was already retired.
CallRetire(c) ==
    /\ At(c, "retire")
    /\ Goto(c, "await")
    /\ UNCHANGED <<stateVars, outgoingNotifications, inVars, reqVars, writeVars, apiVars>>
    /\ \/ Tracked(c) /\ RetireTracked(c, werr[c])
       \/ ~Tracked(c) /\ UNCHANGED <<outgoingCalls, response>> /\ Settle("none")

\* Await returns: the response is ready, or the Context is canceled (which
\* leaves the call in outgoingCalls).
CallReturn(c) ==
    /\ At(c, "await")
    /\ response[c] # "none" \/ CtxErr(c)
    /\ Goto(c, "done")
    /\ UNCHANGED <<stateVars, settleVars, outVars, inVars, reqVars, writeVars, apiVars>>

-----------------------------------------------------------------------------
(* Notify *)

\* Notify registers the notification; while shutting down only if some call,
\* in either direction, is in flight.
NotifyBegin(n) ==
    /\ MayBegin(n)
    /\ \/ /\ shuttingDown /\ outgoingCalls = {}
          /\ \A id \in IDs : incomingByID[id] = NoReq
          /\ Goto(n, "done")
          /\ UNCHANGED outgoingNotifications
       \/ /\ \/ ~shuttingDown \/ outgoingCalls # {}
             \/ \E id \in IDs : incomingByID[id] # NoReq
          /\ outgoingNotifications' = outgoingNotifications + 1
          /\ \/ Goto(n, "wcheck")
             \/ Goto(n, "finish")     \* NewNotification cannot marshal the params
    /\ UNCHANGED <<stateVars, outgoingCalls, response, inVars, reqVars, writeVars, apiVars>>
    /\ Settle("none")

\* Notify's deferred update.
NotifyFinish(n) ==
    /\ At(n, "finish")
    /\ outgoingNotifications' = outgoingNotifications - 1
    /\ Goto(n, "done")
    /\ UNCHANGED <<stateVars, outgoingCalls, response, inVars, reqVars, writeVars, apiVars>>
    /\ Settle("none")

-----------------------------------------------------------------------------
(* Connection.write: check, Writer.Write, record the error *)

\* Seeded fault: a connection that shuts down goes on writing.
WriteAnyway == TRUE

MayWrite == ~shuttingDown

WriteCheck(p) ==
    /\ At(p, "wcheck")
    /\ \/ MayWrite /\ Goto(p, "wsend") /\ UNCHANGED werr
       \/ /\ ~MayWrite
          /\ werr' = [werr EXCEPT ![p] = "closing"]
          /\ Goto(p, "wrecord")
    /\ UNCHANGED <<stateVars, outVars, inVars, reqVars, ctxDone, sent, apiVars>>
    /\ Settle("none")

\* Writer.Write transfers the message; it may return later, or even fail.  Some
\* Writers (os.Stdout) go on working once the transport is closed.
WriteDeliver(p) ==
    /\ At(p, "wsend") /\ p \notin sent
    /\ sent' = sent \cup {p}
    /\ UNCHANGED <<stateVars, settleVars, outVars, inVars, reqVars, werr,
                   ctxDone, apiVars, pc>>

WriteOk(p) ==
    /\ At(p, "wsend") /\ p \in sent
    /\ Goto(p, IF p \in Calls THEN "await" ELSE "finish")
    /\ UNCHANGED <<stateVars, settleVars, outVars, inVars, reqVars, writeVars, apiVars>>

\* Errors of Writer.Write: those of the environment, a canceled Context, and
\* that of a transport that is closed.
WriteErrors(p) ==
    WriteFaults \cup (IF CtxErr(p) THEN {"ctx"} ELSE {})
                \cup (IF closer = "closed" THEN {"io"} ELSE {})

WriteFail(p) ==
    /\ At(p, "wsend")
    /\ \E e \in WriteErrors(p) : werr' = [werr EXCEPT ![p] = e]
    /\ Goto(p, "wrecord")
    /\ UNCHANGED <<stateVars, settleVars, outVars, inVars, reqVars, ctxDone,
                   sent, apiVars>>

\* The requests whose Context is canceled once Connection.write has canceled
\* everything in incomingByID.
\* Seeded fault: nothing is canceled.
CancelNone == canceled

CancelTracked == [r \in Reqs |-> canceled[r] \/ \E id \in IDs : incomingByID[id] = r]

\* Seeded fault: canceled and rejected writes break the connection too.
BreaksAlways(p) == TRUE

\* The writer appears to be broken: the error is not due to the caller's
\* Context and is not a rejection of this one message.
BreaksConnection(p) == ~CtxErr(p) /\ werr[p] # "rejected"

\* The first error that is neither a cancellation nor a rejection breaks the
\* connection and cancels every incoming call.
WriteRecord(p) ==
    /\ At(p, "wrecord")
    /\ Goto(p, IF p \in Calls THEN "retire" ELSE "finish")
    /\ \/ /\ BreaksConnection(p) /\ writeErr = "none"
          /\ writeErr' = werr[p]
          /\ canceled' = CancelTracked
       \/ /\ ~BreaksConnection(p) \/ writeErr # "none"
          /\ UNCHANGED <<writeErr, canceled>>
    /\ UNCHANGED <<started, connClosing, reading, readErr, outVars, inVars,
                   reqID, runner, released, outcome, writeVars, apiVars>>
    /\ Settle("none")

-----------------------------------------------------------------------------
(* readIncoming and acceptRequest *)

\* The readIncoming goroutine is blocked in Reader.Read.
ReaderFree ==
    /\ panic = "none" /\ reading
    /\ \A r \in Reqs : runner[r] = "reader" => pc[r] = "done"

\* The peer answers a call that reached it; a second answer finds no call.
ReadResponse(c) ==
    /\ ReaderFree /\ c \in sent
    /\ UNCHANGED <<stateVars, outgoingNotifications, inVars, reqVars,
                   writeVars, apiVars, pc>>
    /\ \/ c \in outgoingCalls /\ RetireTracked(c, "peer")
       \/ c \notin outgoingCalls /\ UNCHANGED <<outgoingCalls, response>> /\ Settle("none")

\* The responses after the exiting reader has retired every tracked call.
\* Seeded fault: the map is dropped without retiring its calls.
DropTracked(e) == response

RetireAll(e) == [c \in Calls |-> IF c \in outgoingCalls THEN e ELSE response[c]]

\* Read fails: the reader exits and retires every outgoing call.
ReadFail ==
    /\ ReaderFree
    /\ \E e \in ReadFaults : readErr' = e /\ response' = RetireAll(e)
    /\ reading' = FALSE
    /\ outgoingCalls' = {}
    /\ UNCHANGED <<started, connClosing, writeErr, outgoingNotifications, inVars,
                   reqVars, writeVars, apiVars, pc>>
    /\ Settle(IF \E c \in outgoingCalls : response[c] # "none" THEN "retire" ELSE "none")

\* Seeded fault: a request ID in use is not noticed.
DuplicateUnnoticed(r) == FALSE

\* Seeded fault: an ID stays taken for the life of the connection.
UsedID(r) == IdOf[r] # NoID /\ \E q \in Reqs : IdOf[q] = IdOf[r] /\ pc[q] # "idle"

DuplicateID(r) == IdOf[r] # NoID /\ incomingByID[IdOf[r]] # NoReq

\* Seeded fault: a request that is refused as a duplicate is not counted.
IncomingUnlessDuplicate(r) == IF DuplicateID(r) THEN incoming ELSE incoming + 1

IncomingWith(r) == incoming + 1

\* Read returns a request: acceptRequest counts it, and tracks it by ID if it
\* is a call.  A duplicate ID is cleared so that the error is not attributed
\* to the request that holds it; a call is refused while shutting down.  The
\* reader may still find buffered requests once the transport is closed.
AcceptRequest(r) ==
    /\ ReaderFree /\ pc[r] = "idle"
    /\ incoming' = IncomingWith(r)
    /\ runner' = [runner EXCEPT ![r] = "reader"]
    /\ \/ /\ DuplicateID(r)
          /\ reqID' = [reqID EXCEPT ![r] = NoID]
          /\ outcome' = [outcome EXCEPT ![r] = "error"]
          /\ Goto(r, "result")
          /\ UNCHANGED incomingByID
       \/ /\ IdOf[r] # NoID /\ ~DuplicateID(r)
          /\ incomingByID' = [incomingByID EXCEPT ![IdOf[r]] = r]
          /\ \/ /\ shuttingDown
                /\ outcome' = [outcome EXCEPT ![r] = "error"]
                /\ Goto(r, "result")
             \/ ~shuttingDown /\ Goto(r, "enqueue") /\ UNCHANGED outcome
          /\ UNCHANGED reqID
       \/ /\ IdOf[r] = NoID
          /\ Goto(r, "enqueue")
          /\ UNCHANGED <<incomingByID, reqID, outcome>>
    /\ UNCHANGED <<stateVars, outVars, handlerQueue, handlerRunning, canceled,
                   released, writeVars, apiVars>>
    /\ Settle("none")

\* What Handle and Preempt may return: Handler's contract asks for a result or
\* an error for a call, and for no result for a notification.
Returns(r) ==
    IF r \in Faulty THEN Outcomes \ {"none"}
    ELSE {"error"} \cup (IF IsCall(r) THEN {"result"} ELSE {"nil"})

\* The Preempter handles the request on the reader's goroutine.
Preempt(r) ==
    /\ At(r, "enqueue") /\ r \in Preempted
    /\ \E o \in Returns(r) : outcome' = [outcome EXCEPT ![r] = o]
    /\ Goto(r, "result")
    /\ UNCHANGED <<stateVars, settleVars, outVars, inVars, reqID, canceled, runner,
                   released, writeVars, apiVars>>

\* Seeded fault: the state is not read again after the Preempter returned.
EnqueueUnchecked == TRUE

MayEnqueue == ~shuttingDown

\* acceptRequest's second update: enqueue the request, starting handleAsync if
\* it is not running, unless the connection shuts down.
Enqueue(r) ==
    /\ At(r, "enqueue") /\ r \notin Preempted
    /\ \/ /\ ~MayEnqueue
          /\ outcome' = [outcome EXCEPT ![r] = "error"]
          /\ Goto(r, "result")
          /\ UNCHANGED <<handlerQueue, handlerRunning, runner>>
       \/ /\ MayEnqueue
          /\ handlerQueue' = Append(handlerQueue, r)
          /\ handlerRunning' = TRUE
          /\ runner' = [runner EXCEPT ![r] = "queue"]
          /\ Goto(r, "queued")
          /\ UNCHANGED outcome
    /\ UNCHANGED <<stateVars, outVars, incoming, incomingByID, reqID, canceled,
                   released, writeVars, apiVars>>
    /\ Settle("none")

-----------------------------------------------------------------------------
(* handleAsync and the handler goroutines *)

\* Seeded fault: handleAsync does not wait for the releaser.
QueueHolds(r) == runner[r] = "queue" /\ pc[r] \notin {"queued", "done"}

\* handleAsync holds r between its dequeue and the end of processResult, or
\* waits for the releaser of the goroutine it gave r to.
QueueWaitsFor(r) ==
    \/ runner[r] = "queue" /\ pc[r] \notin {"queued", "done"}
    \/ runner[r] = "handler" /\ ~released[r]

\* handleAsync is at the top of its loop: it holds no request, and the last
\* request it delivered has been released.
QueueFree ==
    /\ panic = "none" /\ handlerRunning
    /\ \A r \in Reqs : ~QueueWaitsFor(r)

Dequeue ==
    /\ QueueFree /\ handlerQueue # <<>>
    /\ Goto(Head(handlerQueue), "dequeued")
    /\ handlerQueue' = Tail(handlerQueue)
    /\ UNCHANGED <<stateVars, outVars, incoming, incomingByID, handlerRunning,
                   reqVars, writeVars, apiVars>>
    /\ Settle("none")

\* The queue is empty: the handleAsync goroutine exits.
QueueExit ==
    /\ QueueFree /\ handlerQueue = <<>>
    /\ handlerRunning' = FALSE
    /\ UNCHANGED <<stateVars, outVars, incoming, incomingByID, handlerQueue,
                   reqVars, writeVars, apiVars, pc>>
    /\ Settle("none")

\* A request whose Context is already canceled is not delivered.
Deliver(r) ==
    /\ At(r, "dequeued")
    /\ \/ /\ canceled[r]
          /\ outcome' = [outcome EXCEPT ![r] = "error"]
          /\ Goto(r, "result")
          /\ UNCHANGED runner
       \/ /\ ~canceled[r]
          /\ runner' = [runner EXCEPT ![r] = "handler"]
          /\ Goto(r, "running")
          /\ UNCHANGED outcome
    /\ UNCHANGED <<stateVars, settleVars, outVars, inVars, reqID, canceled, released,
                   writeVars, apiVars>>

\* Async: the handler lets handleAsync go on with the next request.
Async(r) ==
    /\ At(r, "running") /\ r \in AsyncReqs /\ ~released[r]
    /\ released' = [released EXCEPT ![r] = TRUE]
    /\ UNCHANGED <<stateVars, settleVars, outVars, inVars, reqID, canceled, runner,
                   outcome, writeVars, apiVars, pc>>

\* Handle returns, after the calls it made have returned to it.
HandlerReturn(r) ==
    /\ At(r, "running")
    /\ \A p \in Outgoing : CallerOf[p] = r => pc[p] \in {"idle", "done"}
    /\ r \in AsyncReqs => released[r]
    /\ r \in Blocking => canceled[r]
    /\ \E o \in Returns(r) : outcome' = [outcome EXCEPT ![r] = o]
    /\ Goto(r, "result")
    /\ UNCHANGED <<stateVars, settleVars, outVars, inVars, reqID, canceled, runner,
                   released, writeVars, apiVars>>

-----------------------------------------------------------------------------
(* processResult *)

\* The panic that internalErrorf raises: none if OnInternalError is there to
\* take the error.
internalErrorf == IF OnInternalError THEN "none" ELSE "internal"

\* internalErrorf is called before NewResponse, or instead of the response.
ContractBroken(r) ==
    \/ outcome[r] = "both"
    \/ IsCall(r) /\ outcome[r] = "nil"
    \/ ~IsCall(r) /\ outcome[r] \in {"result", "malformed"}

DeleteID(r) ==
    IF IsCall(r) THEN [incomingByID EXCEPT ![reqID[r]] = NoReq] ELSE incomingByID

\* Seeded fault: errors are not sent back.
RespondsWithResult(r) == IsCall(r) /\ outcome[r] = "result"

Responds(r) == IsCall(r) /\ outcome[r] # "malformed"

\* A call leaves incomingByID before its response is written; a notification,
\* or a result that cannot be marshaled, gets no response.
ProcessResult(r) ==
    /\ At(r, "result")
    /\ incomingByID' = DeleteID(r)
    /\ Goto(r, IF Responds(r) THEN "wcheck" ELSE "finish")
    /\ UNCHANGED <<stateVars, outVars, incoming, handlerQueue, handlerRunning,
                   reqVars, writeVars, apiVars>>
    /\ Settle(IF ContractBroken(r) \/ outcome[r] = "malformed" THEN internalErrorf
                                                              ELSE "none")

\* The end of processResult: cancel the request's Context and stop counting it.
FinishRequest(r) ==
    /\ At(r, "finish")
    /\ canceled' = [canceled EXCEPT ![r] = TRUE]
    /\ incoming' = IF incoming = 0 THEN 0 ELSE incoming - 1
    /\ Goto(r, IF runner[r] = "handler" /\ ~released[r] THEN "release" ELSE "done")
    /\ UNCHANGED <<stateVars, outVars, incomingByID, handlerQueue, handlerRunning,
                   reqID, runner, released, outcome, writeVars, apiVars>>
    /\ Settle(IF incoming = 0 THEN "incoming" ELSE "none")

\* Seeded fault: the deferred release is missing.
NotReleased(r) == released

SoftReleased(r) == [released EXCEPT ![r] = TRUE]

\* The handler goroutine's deferred releaser.release(true).
Release(r) ==
    /\ At(r, "release")
    /\ released' = SoftReleased(r)
    /\ Goto(r, "done")
    /\ UNCHANGED <<stateVars, settleVars, outVars, inVars, reqID, canceled, runner,
                   outcome, writeVars, apiVars>>

-----------------------------------------------------------------------------
(* Close, Wait, Cancel and the callers' Contexts *)

CloseBegin ==
    /\ panic = "none" /\ closeState = "idle"
    /\ started \/ CloseInFactory
    /\ connClosing' = TRUE
    /\ closeState' = "waiting"
    /\ UNCHANGED <<started, reading, readErr, writeErr, outVars, inVars, reqVars,
                   writeVars, waitState, waitResult, pc>>
    /\ Settle("none")

CloseReturn ==
    /\ panic = "none" /\ closeState = "waiting" /\ done
    /\ closeState' = "returned"
    /\ UNCHANGED <<stateVars, outVars, inVars, reqVars, writeVars, waitState,
                   waitResult, pc>>
    /\ Settle("none")

\* The error that wait(true) reports: the read error, then the write error,
\* end of file excepted, then the error of Closer.Close.
waitError ==
    IF readErr = "err" THEN "read"
    ELSE IF writeErr \in {"closing", "io"} THEN "write"
    ELSE IF closeErr # "none" THEN "close" ELSE "nil"

WaitReturn ==
    /\ panic = "none" /\ waitState = "waiting" /\ started /\ done
    /\ waitState' = "returned"
    /\ waitResult' = waitError
    /\ UNCHANGED <<stateVars, outVars, inVars, reqVars, writeVars, closeState, pc>>
    /\ Settle("none")

Cancel(id) ==
    /\ panic = "none" /\ id \in CancelIDs
    /\ canceled' = [r \in Reqs |-> canceled[r] \/ incomingByID[id] = r]
    /\ UNCHANGED <<stateVars, outVars, inVars, reqID, runner, released, outcome,
                   writeVars, apiVars, pc>>
    /\ Settle("none")

\* The application cancels the Context of an outgoing call.
CancelCtx(p) ==
    /\ panic = "none" /\ p \in Cancelable /\ pc[p] \notin {"idle", "done"} /\ ~ctxDone[p]
    /\ ctxDone' = [ctxDone EXCEPT ![p] = TRUE]
    /\ UNCHANGED <<stateVars, settleVars, outVars, inVars, reqVars, werr, sent,
                   apiVars, pc>>

-----------------------------------------------------------------------------
CallStep(c) ==
    \/ CallMarshalError(c) \/ CallBegin(c) \/ CallRetire(c) \/ CallReturn(c)
    \/ ReadResponse(c)

NotifyStep(n) == NotifyBegin(n) \/ NotifyFinish(n)

WriteStep(p) ==
    \/ WriteCheck(p) \/ WriteDeliver(p) \/ WriteOk(p) \/ WriteFail(p) \/ WriteRecord(p)

RequestStep(r) ==
    \/ AcceptRequest(r) \/ Preempt(r) \/ Enqueue(r) \/ Deliver(r) \/ Async(r)
    \/ HandlerReturn(r) \/ ProcessResult(r) \/ FinishRequest(r) \/ Release(r)

ConnStep ==
    \/ Start \/ ReadFail \/ Dequeue \/ QueueExit \/ CloseBegin \/ CloseReturn \/ WaitReturn

\* The process stops when it panics, and is at rest when the connection is
\* done and nobody is inside one of its methods.
Stopped ==
    \/ panic # "none"
    \/ /\ done /\ started /\ waitState = "returned" /\ closeState # "waiting"
       /\ \A p \in Procs : pc[p] \in {"idle", "done"}

Rest == Stopped /\ UNCHANGED vars

Next ==
    \/ \E c \in Calls : CallStep(c)
    \/ \E n \in Notifs : NotifyStep(n)
    \/ \E p \in Procs : WriteStep(p)
    \/ \E p \in Outgoing : CancelCtx(p)
    \/ \E r \in Reqs : RequestStep(r)
    \/ \E id \in IDs : Cancel(id)
    \/ ConnStep
    \/ Rest

Spec == Init /\ [][Next]_vars

\* What the Go scheduler, the transport, the peer and the handlers are assumed
\* to do eventually.  Nobody has to begin a call, send a request, cancel a
\* Context or call Close; the transport need not fail before it is closed.
Fairness ==
    /\ \A c \in Calls : /\ WF_vars(CallRetire(c) \/ CallReturn(c))
                        /\ WF_vars(Tracked(c) /\ ReadResponse(c))
    /\ \A n \in Notifs : WF_vars(NotifyFinish(n))
    /\ \A p \in Procs : WF_vars(WriteStep(p))
    /\ \A r \in Reqs :
         WF_vars(\/ Preempt(r) \/ Enqueue(r) \/ Deliver(r) \/ Async(r)
                 \/ HandlerReturn(r) \/ ProcessResult(r) \/ FinishRequest(r) \/ Release(r))
    /\ WF_vars(Start) /\ WF_vars(Dequeue \/ QueueExit)
    /\ WF_vars(closer = "closed" /\ ReadFail)
    /\ WF_vars(CloseReturn) /\ WF_vars(WaitReturn)

FairSpec == Spec /\ Fairness

=============================================================================
