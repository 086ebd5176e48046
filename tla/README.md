# A TLA+ model of the ACP Go SDK's connection runtime

This directory specifies, model-checks and proves properties of the runtime of
the Agent Client Protocol SDK: the bidirectional JSON-RPC connection that agents
and clients share, the transports below it, the dispatch above it, the codec of
its messages, and the generated types that travel in them. Paths are
relative to the repository; `conn.go` is `internal/jsonrpc2/conn.go`.

## The system

```
  application / agent factory            handlers (user code)
        | Call, Notify, Close                 ^ Handle
        v                                     |
  acp senders (client_gen, agent_gen)   acp dispatch + ExtensionMux
        |                                     ^
        v                                     |
  +------------------ jsonrpc2.Connection -----------------+
  | outgoingCalls, incomingByID, handlerQueue, counters    |
  | goroutines: callers, readIncoming, handleAsync, one    |
  | per delivered request, waiters in Close and Wait       |
  +----------- Write -------- Close -------- Read ---------+
        |                       |               ^
        v                       v               |
   ioConn: writeMu, closeOnce, closed, pump goroutine, readCh
        |                       |               ^
        v                       v               |
     pipes, net.Pipe, stdio, or a subprocess (pipeRWC)
```

### Inventory

| Component | State it keeps | Operations | What is hard | What makes it correct |
|---|---|---|---|---|
| `Connection` (`conn.go`) | `inFlightState` under `stateMu`, the `done` channel, one Context and releaser per request, one `ready` channel per call | `Call`, `Retire`, `Await`, `Notify`, `Cancel`, `Close`, `Wait`, `start`, `readIncoming`, `acceptRequest`, `handleAsync`, `Async`, `processResult`, `write` | many goroutines around one lock; responses, write errors and reader exit race for the same call; shutdown begins at any point; `Writer.Write` is outside the lock | each call is resolved once; each accepted call is answered; shutdown only drains; `done` means drained; the panics that guard the bookkeeping are unreachable |
| stream transport (`acp/transport.go`) | the pump's position, `readCh`, `writeMu`, `closeOnce`, `closed` | `newIOConn`, `Read`, `Write`, `Close` | a blocked read or write against `Close`; the end of a stream that comes with a line | whole lines, messages in order and without loss, nobody left blocked |
| subprocess transport (`acp/cmd.go`) | stdin, the result channel of `cmd.Wait` | `Connect`, `Close` | timeouts that race the exit; bounded pipes; it runs under the connection's lock | returns, never reports an exit that did not happen, lets an obedient process end by itself |
| dispatch and senders (`agent_gen.go`, `client_gen.go`, `rpc.go`) | none | `handleAgentRequest`, `handleClientRequest`, one sender per method | two generated tables that must agree; methods with two forms | every sent message has its case; Handler's contract is kept |
| `ExtensionMux` (`extensions.go`) | two maps under an `RWMutex` | registration, lookup, `handleExtension` | registration concurrent with dispatch | a registration that succeeded is in force |
| entry points (`agent.go`, `client.go`) | the endpoint | `RunAgent`, `Connect` | the factory runs before the reader | see the finding on the factory |
| wire codec (`messages.go`, `wire.go`) | none | `MakeID`, `DecodeMessage`, `EncodeMessage`, `toWireError`, `WireError.Is` | IDs pass through a float64 and an int64; errors are wrapped, flattened and compared by code | the caller gets its answer, and learns what the handler returned |
| generated types (`types_gen.go`, `acp/json.go`) | none | `MarshalJSON`, `UnmarshalJSON`, constructors | unions that share one Go struct; lenient fields; null against absence; messages of newer and older peers, forwarded by proxies | see `MessageTypes` |
| type generator (`internal/schemagen/typegen`) | none | the Go field, tag and decode rule of every property | the fields of all variants are merged into one | a variant of a union is the type it names |
| RPC generator (`internal/schemagen/rpcgen`) | none | sides, operations, names | two tables from one schema | through its output, `Dispatch` |

`PROJECT.json` lists the hazards line by line, with the properties aimed at them.

## Modules

| Module | Models |
|---|---|
| `Jsonrpc2Conn` | one `Connection`: state, actions, fairness |
| `Jsonrpc2ConnProps` | its properties, the refinement mapping, the inductive invariant, what comments promise |
| `CallLifecycle` | the abstract promise to the callers of `Call` |
| `Jsonrpc2ConnProofs` | TLAPS proofs: the connection's bookkeeping |
| `Jsonrpc2ConnSafetyProofs` | TLAPS proofs: its other safety and action properties |
| `Jsonrpc2ConnLifecycleProofs` | TLAPS proofs: it implements `CallLifecycle` |
| `IOConn`, `IOConnProofs` | `ioConn` over an external stream, and TLAPS proofs about it |
| `CommandConn`, `CommandConnProofs` | `CommandTransport` and `pipeRWC` with an external subprocess, and TLAPS proofs |
| `Dispatch`, `DispatchProofs` | the generated switches and senders, extension dispatch, `ExtensionMux`, and TLAPS proofs |
| `WireCodec` | IDs, errors and messages on the wire: operators that `Dispatch` builds on |
| `GenCode` | what the generated `MarshalJSON` and `UnmarshalJSON` do with a field, as operators |
| `ObjectTypes`, `UnionTypes` | the types of `types_gen.go`, as tables for `GenCode` |
| `TypeGen` | what the generator makes of a property of an object and of a union |
| `MessageTypes` | the journey of a message: construct, marshal, unmarshal, forward; its properties and invariants, and what a table of the generator has to be |
| `MessageTypesProofs` | TLAPS proofs: leniency and explicit nulls |
| `MessageJourneyProofs` | TLAPS proofs: round trip, forwarding, variants |
| `MCConn`, `MCIOConn`, `MCDispatch`, `MCTypes` | values of constants for TLC |

### `Jsonrpc2Conn`

Variables carry the names of the fields of `inFlightState`, plus one program
counter per goroutine. Each call of `updateInFlight` is one atomic step, and it
ends in `Settle`, the tail that panics on new work after `done`, closes the
transport of an idle connection that shuts down, and closes `done`. Between two
such steps a goroutine can be interrupted; that is where the hazards are:

* an outgoing call is `idle -> wcheck -> wsend -> (wrecord -> retire) -> await -> done`:
  `CallBegin` tracks it, `WriteCheck` is the test at the top of `write`,
  `WriteDeliver`/`WriteOk`/`WriteFail` are `Writer.Write` (the message may reach
  the peer before `Write` returns, and may have reached it although `Write`
  fails), `WriteRecord` records the error, `CallRetire` is `Retire`,
  `CallReturn` is `Await`;
* an incoming request is `idle -> enqueue -> queued -> dequeued -> running ->
  result -> wcheck -> wsend -> finish (-> release) -> done`; `runner` says which
  goroutine holds it: the reader (refused or preempted), `handleAsync` (canceled
  before delivery) or its own;
* the reader is free when no request is in its hands; `ReadResponse`,
  `AcceptRequest` and `ReadFail` are what a `Read` can lead to;
* `handleAsync` is free when the request it delivered was released, by `Async` or
  by the deferred `release(true)`.

A message is its identity. IDs are members of `IDs`; several requests may carry
the same one. Errors are kept as far as the code tells them apart: rejected,
canceled, end of file, other. Constants say which handlers call `Async`, wait for
their Context, break Handler's contract, or make outgoing calls (`CallerOf`), which
Contexts may be canceled, and which faults the transport has.

Left out: `OnDone`; `Extra` fields; marshaling, except that it may fail; a second
call of `Async` on one request, whose panic is a misuse by the handler; a handler
that calls `Close` (it would wait for itself).

### `IOConn`

The pump goroutine of `newIOConn` reads lines and offers them on the unbuffered
`readCh`; taking an offer is one step of pump and reader together. A line on the
wire is two chunks so that two `Write`s could mix. `Close` is in three steps
(`closeOnce`, `rwc.Close`, `close(closed)`), since the read that `rwc.Close`
interrupts can be delivered before `closed` is closed. `Close` interrupts neither
reads nor writes of a stream with `std`, as for `os.Stdin`. `Read`'s Context
is a `notDone` in this program and its case is left out.

### `CommandConn`

`pipeRWC.Close` step by step; each of its waits may end by the timer even if the
result is there, as Go's `select` allows. The subprocess is external: `Obeys` says
what may make it exit. `Reap` and `Report` split `cmd.Wait`: in between, signals
fail with `os.ErrProcessDone`. `Slack` bounds what pump and reader take off the
pipe while `Close` holds the connection's lock.

### `Dispatch`

The two generated switches are tables of (kind, method); `Operation` is how a case
finds its form: only a method with two forms looks at the ID. `Missing` is what the
handler does not implement. The peer sends what the SDK's senders send, or, if
`AnyPeer`, any method with or without an ID; the run has the first, the theorems have
both, and `MisfitsBreakContract` says what the second does. `ExtensionMux` is modelled with its
lock; registrations run concurrently with dispatch.

A message arrives through `DecodeMessage` (`Receive`, `ReceiveUnreadable`), the
handler returns a result or any of `HandlerErrors`, the answer goes out through
`EncodeResponse` (`Respond`), and the peer makes of it what `Await` and
`translateCallError` make of it (`Learn`). `CallerLearnsOutcome` relates the two
ends of that chain.

### `WireCodec`

A number in JSON is twice its value, so that odd numbers stand for fractions;
`Float64` and `Truncate` are what `encoding/json` and `int64(v)` do to it, for either
sign, with `MaxExact` in place of 2^53. An ID is the value of `ID.value`. A Go error is the
list of the codes that `errors.As` would find in it, from the outside to the
inside; whether it is a `*WireError` itself, in which case `toWireError` leaves it
as it is, and whether that has `Data`. A message is classified as `DecodeMessage`
does it. `EncodeIndent` only adds white space; parameters are decodable or not.

### Generated types: `GenCode`, `ObjectTypes`, `UnionTypes`, `TypeGen`, `MessageTypes`

Every type of `types_gen.go` with a codec of its own is an instance of a few
templates of the generator, so `GenCode` models the templates and a type is a
record that says which template each of its fields uses. A JSON value is one of
seven shapes, which are the cases that the templates tell apart: absent, null,
empty, good, alien (a string that a closed enum does not know), mixed (an array
with invalid items) and bad (a value of another type). `Rule` says how a field
is decoded: in place, into a variable that is assigned when that succeeds, an
enum, item by item, or not at all; whether an error is dropped; and whether null
is recorded in `NullFields`. `UnmarshalJSON` is all of that for every field, with
the rule that the discriminator selects; `MarshalJSON` is the tag of the field, or
what it writes for the variants that require it. A union without a discriminator
is told apart by the first required key that is present (`carriers`).

`TypeGen` is the generator itself, for one property: `newDeserializeField`,
`mergeUnionField`, `unionFieldNeedsVariantUnmarshal`, `requiredMarshalFields` and the
tag, from the schema of each variant and of what they have in common.
`MCTypes` combines both: the catalog has the shipped types, each union with
the standalone type of each variant, and, for every pair of 17 declarations of a
property and five common declarations, the union that the generator would
write. `Sensible` leaves out schemas that contradict themselves (what is
required of all variants is optional in one), `Generates` those for which the
generator stops or writes no valid Go.

`MessageTypes` sends a message of any of these types: a program constructs it and
sets one field, the peer may write one field differently or name a variant that
the library does not know, the receiver decodes it and forwards it, twice.

## Model checking

`tlc -config <cfg> <module>`. Deadlock is checked in every passing run.

| Run | Configuration | Checks | Distinct states |
|---|---|---|---|
| `conn_outgoing` | `MCConnOut`: an application call that may be canceled, a request whose handler calls and notifies the peer, a writer, a reader and a closer that fail, a factory that may close | `TypeOK`, `NoPanic`, `CallResolvedOrTracked`, `TrackedCallsHaveReader`, `NoWriteOnClosedTransport`, `DoneMeansDrained`, `ShutdownDrains`, `LifecycleSpec` (the connection implements `CallLifecycle`) | 959,344 |
| `conn_incoming` | `MCConnIn`: two calls with one ID, a preempted notification, `Cancel`, handlers that break their contract, a writer that may fail or reject | `NoPanic`, `LiveCallFindable`, `OneUnreleasedHandler`, `ReaderNeverWrites`, `BrokenWriterCancels`, `AcceptedCallAnswered`, `AnsweredIDReusable` | 875,855 |
| `conn_liveness` | `MCConnLive`: an asynchronous handler that calls the peer, a second request, a writer that may fail | `CloseReturns`, `CallsReturn`, `RequestsFinish` | 136,704 |
| `io_stream` | `MCIOConn`: a pipe and standard streams, two writers, two closers | `TypeOK`, `DeliversInOrder`, `LinesAreWhole`, `ReadReturns`, `PumpExits`, `CloseReturns`, `WritesReturn` | 92,960 |
| `command_close` | `CommandConn`: up to five messages of output, a pipe of two | `TypeOK`, `ExitIsReal`, `CloseReturns`, `GentleClose` | 990 |
| `dispatch_peers` | `MCDispatchPeers`: every method of both sides, two registrations, every kind of ID and of error | `TypeOK`, `ContractKept`, `SentIsHandled`, `RegistrationStands`, `NotFoundMeansUnregistered`, `CallerLearnsOutcome` | 587,304 |
| `types` | `MCTypes`: the shipped types with their variants, and the generated unions, 841 in all | `RoundTrip`, `VariantAgrees`, `BadFieldIsContained`, `NullIsForwarded`, `ForwardingSettles` | 189,360 |

**Bounds.** Every set of the connection is small (at most two calls, one
notification, three requests, two IDs), and no counter needs a cap: each goroutine
runs once. That is enough for the cases in question: two requests with one ID, a
third that arrives meanwhile; a call of the application and a call made by a
handler, a notification inside a handler; a write that fails while the response
is on its way. `NoPanic` is checked twice, for the two sides of its bookkeeping: against the
callers in `conn_outgoing`, whose handlers keep their contract, and in `conn_incoming`
against duplicates and handlers that break it (`Faulty`). The proofs below
lift the bound where they apply. `IOConn` has two
or three lines, of which one may be bad or unterminated, and two writers and two
closers: mixing and waiting need no more. `CommandConn` has up to five messages of
output, a pipe of two and one message taken while `Close` runs, so that the output
fits in some behaviours and not in others. `Dispatch` has one message at a time,
whose ID is a string, an integer below and one beyond `MaxExact` = 4, a negative one
beyond it, a fraction, or of another type; the registrations run beside it. In
`MessageTypes` one field differs per message, since no template looks at two fields
but the discriminator;
two forwardings (`MaxHops`) are needed to say that the second changes nothing; and two
variants and a common declaration are all that a merge can depend on, except
that with three the order of merging could matter, which the shipped unions with
up to nineteen variants cover.

**Fairness.** Goroutines that can run eventually do (weak fairness of each
goroutine's own steps: the Go scheduler is preemptive and fair to runnable
goroutines, and `sync.Mutex` prevents starvation). `Writer.Write` returns, a
closed transport makes `Read` fail (that is what `Closer` is for: the comment at
`conn.go:48-51`), the peer answers a call that reached it, and handlers return
once the calls they made have. Nobody has to send, to call `Close` or to cancel
anything. Under these assumptions `CloseReturns`, `CallsReturn` and
`RequestsFinish` hold; without the one on `Writer.Write` or on handlers they
do not, as `Close` waits for both. For `IOConn` fairness covers the pump's
errors, reads, waiting for the mutex, failing writes and `Close`; the peer need
not send or read. For `CommandConn` the assumptions are part of the two liveness
properties: `CloseReturns` assumes that timers fire and asks nothing of the
subprocess, `GentleClose` assumes that the subprocess behaves and that no timer has to
fire.

**Seeded faults.** Operators with the comment "Seeded fault" are plausible bugs.
They are not part of the specification; `PROJECT.json` says which definition each
would replace, and which property then fails.

### Where code and comments disagree

Five runs state what a comment says and find a behaviour of the code that
contradicts it; TLC's counterexample is the explanation.

| Run | The comment | The code |
|---|---|---|
| `finding_refused_call` | calls that arrive after `Close` "will receive immediate responses with ErrServerClosing" (`conn.go:465`) | the response goes through `write`, which refuses it |
| `finding_enqueued` | `Close` "waits for in-flight requests and enqueued Handle calls to complete" (`conn.go:461`) | the first response refused cancels what is queued, and `Handle` is not called |
| `finding_broken_cancels` | Handle's Context "will be canceled if the connection is broken" (`jsonrpc2.go:49`) | a read error cancels nothing |
| `finding_factory` | the factory runs "after the bidirectional connection is ready" (`agent.go:14`) | it runs before the reader starts, so a call made there never returns |
| `finding_default` | a field with `x-deserialize-default-on-error` is left "at its Go zero value when only that field fails to decode" (`schemagen/doc.go:116-118`) | a field that all variants declare alike is decoded in place, and a pointer is allocated before its value fails: a bad agent capability becomes a capability, and is forwarded as `{}` |

A sixth has a theorem in place of a run. A request with an ID is to get "either a non-nil,
JSON-marshalable result, or a non-nil error" (`jsonrpc2.go:46-47`), but the generated
switch ignores the ID unless the method has two forms: a notification method that
arrives with an ID returns `(nil, nil)`, a request method without one returns a result,
and `processResult` then panics. The SDK's own senders send neither (`ContractKept`);
`MisfitsBreakContract` says of all other peers that the contract is broken by exactly
these messages.

Seen on the way, without a run of their own: `writeErr`, "non-nil if a call to the
Writer has failed" (`conn.go:46`), is also set when `write` refuses to write;
`idle`, in which "no other goroutines are doing work" (`conn.go:121`), can hold while the
goroutine of a call that is already retired is inside `Writer.Write`; and
`ioConn.Close` closes the stream before the channel (`transport.go:168`), so the
interrupted read may end the connection with an error that is not `io.EOF`.

None of them is contradicted by the passing runs: `NoWriteOnClosedTransport` is about
responses and notifications (a call may still be inside `Write`), and
`AcceptedCallAnswered` excepts connections that shut down.

Of errors: an error without a code travels with code 0, where `wire.go:30` says that
`ErrUnknown` "should be used for all non coded errors"; a handler's error with a
closing code reaches the caller as `ErrConnectionClosed`, as if its own connection had
closed, whereas a call that end of file interrupts does not
(`CallerLearnsOutcome` admits the first and says nothing of the second);
`processResult` compares errors with an `ErrNotHandled` that no dispatch of `acp` returns.

Of types, and what the properties except for it:

* A pointer field that all variants declare alike and that is decoded in place keeps
  the zero value that was allocated for it when its decode fails (`husk`). That is
  the run `finding_default` (`BadFieldIsZero`); `BadFieldIsContained` says of every other
  field that it is zero then, and of all that no other field is affected.
* A variant's nil pointer that is decoded into a field of type `any` is a non-nil
  interface, and a nil slice that is stored behind a pointer is a non-nil pointer
  (`Boxed`): both are sent on as null, where the type that stands alone omits them.
  The first is `default` of `ElicitationPropertySchema`; no shipped type has the second,
  which takes a union whose variants declare a key as an array with and without
  `x-deserialize-skip-invalid-items`, or as a nullable array, and `MCTypes` generates
  it. `VariantAgrees` allows null there only if the peer wrote null (`Blank`).
* A required field that is a pointer or an `any`, because another variant may omit
  it or gives it another type, is sent as null if the program left it nil, and
  read as a zero value (`Unset` in `RoundTrip`).
* A field whose variants have incompatible types and no rules of their own is an
  `any` or a `json.RawMessage` and takes what the peer wrote (`Opaque`).
* An unknown variant keeps the keys with a common rule and drops those whose rule
  depends on the variant (`ForwardingSettles` and `NullIsForwarded` speak of what is
  kept, and of known variants).
* A key of another variant is decoded too if its field has a common rule: with a
  value of the wrong type it makes the message fail.
* The generator has limits that no shipped schema meets: a null-preserving common
  field is recorded for an unknown variant and not sent; a required string of one
  variant that another declares nullable and strict accepts null; a
  pointer that would be stored in a value makes it panic, and a required slice in
  a field of another type makes it write Go that does not compile.

## Proofs

`tlapm <module>` checks each of the eight modules `*Proofs`. Every invariant and
every action property of the runs is proved, for all values of the constants that
satisfy the named `ASSUME`s, and so is the refinement.
Each inductive invariant `IInv` (and `SInv`) was model-checked on the instances of
the runs before it was proved.

| Module | Theorem | Statement |
|---|---|---|
| `Jsonrpc2ConnProofs` | `InductiveInvariant` | `Spec => []IInv` |
| | `TypeCorrect`, `PanicFree`, `DoneDrained` | `TypeOK`, `NoPanic`, `DoneMeansDrained` |
| `Jsonrpc2ConnSafetyProofs` | `SafetyInvariant` | `Spec => [](IInv /\ SInv)` |
| | `CallsResolvedOrTracked`, `CallsHaveReader`, `CallsFindable` | `CallResolvedOrTracked`, `TrackedCallsHaveReader`, `LiveCallFindable` |
| | `NoWriteAfterClose`, `ReaderWritesNothing`, `WriteErrorCancels` | `NoWriteOnClosedTransport`, `ReaderNeverWrites`, `BrokenWriterCancels` |
| | `HandlersAreSerial`, `CallsAnswered` | `OneUnreleasedHandler`, `AcceptedCallAnswered` |
| | `ShutdownIsFinal`, `AnsweredIDsReusable` | the action properties `ShutdownDrains`, `AnsweredIDReusable` |
| `Jsonrpc2ConnLifecycleProofs` | `ConnImplementsLifecycle` | the refinement `Spec => LifecycleSpec` |
| `IOConnProofs` | `TransportInvariant` | `Spec => []IInv` |
| | `TypeCorrect`, `ReadsInOrder`, `WritesDoNotMix` | `TypeOK`, `DeliversInOrder`, `LinesAreWhole` |
| `CommandConnProofs` | `CommandInvariant` | `Spec => []IInv` |
| | `TypeCorrect`, `ExitsAreReal` | `TypeOK`, `ExitIsReal` |
| `DispatchProofs` | `DispatchInvariant` | `Spec => []IInv` |
| | `TypeCorrect`, `RegistrationsStand`, `CallersLearn` | `TypeOK`, `RegistrationStands`, `CallerLearnsOutcome` |
| | `ContractIsKept`, `SentFindsItsCase` | `ContractKept`, `SentIsHandled`, if the peer is the SDK's (`~AnyPeer`) |
| | `MisfitsBreakContract` | for any peer, `ContractFor(r)` at the end exactly if the message was refused or failed, or was taken for the kind it is |
| | `RefusedIsUnregistered` | the action property `NotFoundMeansUnregistered` |
| `MessageTypesProofs` | `MessageInvariant` | `Spec => []IInv` |
| | `LenienceContains`, `NullsAreForwarded` | `BadFieldIsContained`, `NullIsForwarded` |
| `MessageJourneyProofs` | `MessageJourney` | `Spec => []JourneyInv` |
| | `MessagesRoundTrip`, `ForwardingIsStable`, `VariantsAgree` | `RoundTrip`, `ForwardingSettles`, `VariantAgrees` |

### The connection

For all finite sets of calls, notifications and requests, any IDs and any choice
of faults.

**Bookkeeping (`IInv`).** `NoPanic` is not inductive. "processResult called when
incoming count is already zero" is unreachable because `incoming` *is* the number
of requests between acceptance and the end of `processResult` (`Counted`); "retire
called twice" because a tracked call has no response (`TrackedUnresolved`);
"transitioned to non-idle when already done" because a done connection is idle and
shutting down (`DoneIsIdle`), so that every step which could add work is refused or
belongs to a goroutine that the counters exclude. `DoneIsIdle` in turn needs that a
notification accepted while shutting down saw a call in flight, which is what
`MapOK` (an entry of `incomingByID` is a live, counted request) gives; dequeuing
needs `QueueOK`; and `TypeOK` needs `CtxErrorHasCause`, without which a cancellation
could be recorded in `writeErr`. One lemma per conjunct (`TypeStep`, `CountStep`,
`QueueStep`, `TrackedStep`, `MapStep`, `DoneStep`) has one step per action, and
`CountNeutral`, `QueueNeutral`, `MapNeutral` dispose of the actions that leave a
conjunct alone.

**The other safety properties (`SInv`).** They relate a goroutine's position to what
the connection knows of it, so each had to be strengthened by where the goroutine
came from. `ShutdownOK` says that whatever makes the connection unusable makes it
shut down, and that an idle connection that shuts down has closed its transport and
is done once the reader has exited. The transport is closed only by a step that
finds the connection idle, and a notification or response inside `Writer.Write` is
counted (`Counted`), so `NoWriteOnClosedTransport` is preserved. `CallOK` follows a
call through `Call`: a failed write has an error, a call without a response is
tracked, and it has been sent once it waits in `Await`. `RequestOK` ties a
request's ID, canceled Context, response and runner to its position;
in particular a call that the reader refuses is one that `write` will refuse as well,
which is why the reader writes nothing. `OneWaited` (`handleAsync` waits for one
request at a time) is what `OneUnreleasedHandler` needs.
`LiveCallFindable` and `TrackedCallsHaveReader` are conjuncts of their own. The
frame lemmas say which variables an action can touch for a call or
request that it is not about; the rest is again one step per action.

**Refinement.** Under the mapping of `Jsonrpc2ConnProps` (`phase` from `done` and
`shuttingDown`, `stage` of a call from its response) every step of the connection
is a step of `CallLifecycle` or a stutter there. Steps that could do two things at
once, such as a reader's exit that fails every tracked call and closes `done`, are
why `CallLifecycle` may fail several calls in a step. The proof uses `IInv` and
`SInv`: a tracked call has no response yet, a retired one had a write error, a done
connection issues nothing, and `done` closes only without tracked calls.

### The transports

`IOConn`: for any input and any finite sets of writers and closers.
`DeliversInOrder` needs the pump's position relative to what `Read` returned
(`PumpPosition`) and that the end of file is only reported at the end or on a broken
stream (`EofIsReal`); `LinesAreWhole` needs that `writeMu` belongs to the one
`Write` that is writing (`MutexHeld`), and that a line that was begun is being
finished or the stream is stalled for good (`OpenLine`).

`CommandConn`: `ExitIsReal` needs that what `cmd.Wait` put into its channel is the
status of a subprocess that was reaped (`ReportIsReal`), and that there is no
subprocess before `Connect` (`NotStarted`): without the second the invariant is not
inductive, as a failing attempt at the proof showed. For the two errors of `Close` itself,
"process already finished" and "unresponsive subprocess", it needs that killing is the
last thing `Close` does (`KillIsLast`).

### Dispatch

For any handlers, extensions, registrants, IDs and errors. The invariant follows a
message from `Receive` to `Learn` (`MessageOK`, `OutcomeOK`, `AnswerOK`), and
`RegistrantOK` says that whoever is between the lookup of a name and its
registration holds the lock and that nobody has the name. `CallersLearn` unfolds
`EncodeResponse`, `DecodeMessage`, `Await` and `translateCallError` on every outcome.
`ContractIsKept` and `SentFindsItsCase` assume `~AnyPeer`: for a peer that sends
anything, `MisfitsBreakContract` says exactly which messages break the contract, and no
run sets `AnyPeer`. The assumptions say what
the sets of the model stand for: `WireAssumption`, that a member of `WireIDs` is a
JSON string, number or other value, that a handler's error is an error, and that a
bare `*WireError` has just its own code; `ExtensionAssumption`, that no extension has
the name of a method of ACP, which `ExtensionMux` enforces by the underscore that
extension names begin with.

### Messages

For any catalog of types and any number of proxies (`MaxHops`), bounded by nothing
but `TypesAssumption`: each type fits the templates (`TypeFits`), and each type that
stands alone fits the variant of the union that it stands for (`VariantFits`). The
shipped types and every union that `TypeGen` generates from the declarations of
`MCTypes` do: TLC evaluates the assumption on all 841. `TypeFits` has a part for
each way in which the generator makes a field's kind, its tag and its decode rules
go together:

* `RulesFit`: the rules are rules of `GenCode`; carriers are keys of the type, and a
  type that has them has no rules by variant and no key that keeps null apart.
* `NullsFit`, `NullsRead`: in a variant with a constructor, the keys that keep null
  apart are those that `MarshalJSON` looks up in `NullFields`, it does not always
  write them and omits them when nil, and no constructor sets them (`nulls.go`
  decides the field once, for both methods).
* `KindsFit`: a variant's field is decoded into a variable of the field's own kind,
  unless the merged field is a pointer or an any, and item by item only into a slice, a
  pointer to one or an any.
* `NilsFit`, `DriftsFit`: a nil that is sent as null comes back as nil, or as an
  empty value (it *drifts*) only in a key that the variant requires, that is not
  decoded leniently, and that a message without a known variant does not drift in. A key that drifts makes the second message differ from the
  first one, so this is what bounds the drift to one proxy.
* `NamesFit`: names of keys are not names that the model uses otherwise.

`VariantFits` says that for the fields they share the two types have rules of the same
leniency that keep null alike and read kinds of the same JSON values (`ReadsAlike`),
and that what the standalone type always writes the variant writes too
(`WritesAlike`). Without it the claim is false, and `mergeUnionField` is there to
make it true.

The lemmas go from one field (`FieldShape`, `WrongValue`, `FieldComesBack`,
`SentAgain`, `VariantReads`, `VariantSends`) to a message (`DecodeByField`,
`EncodeByField`, `FieldsComeBack`, `FieldsSettle`, `VariantIsType`), with
`ContainedByCarrier`, `CarriersComeBack` and `CarriersSettle` for unions told apart by
a required key: the same carrier is found on the way out and on the way back. `IInv`
says that what a receiver holds is `Decode` of what is on the wire, and what a proxy
sends `Encode` of that; it suffices for leniency and nulls. The other three need to
know where a message came from (`JourneyInv`):

* `Untampered`: as long as the peer wrote nothing differently, what is sent is
  `Clean`, a value that a program built or that was decoded from one. A failed decode
  can leave an allocated pointer behind, which does not round-trip; that it never
  happens to a message of the library is part of the induction.
* `TagKept`: the variant that arrives is the one that was sent, which is why a
  constructor's assumptions apply after any number of proxies.
* `Settling`: unless the peer left out what is required, the message that the first
  proxy got has every key that drifts (`Provided`), and from the second proxy on
  `Encode` of `Decode` changes nothing.
* `Quiet`, in the lemmas on variants: what the union keeps of a key that came as j is sent
  as null only if j is null, which is the claim of `VariantAgrees` on nulls. `Boxed` values
  come from null alone, since a message that omits a key does not run its rule.
* `Elsewhere`: what the peer wrote differently stays in the field that it wrote, so
  that of the fields that are not shared none can make one type refuse what the
  other accepts.

### Only model-checked

* All liveness: `CloseReturns`, `CallsReturn`, `RequestsFinish`, `ReadReturns`,
  `PumpExits`, `WritesReturn`, `GentleClose`. Fairness and `ENABLED` are beyond the
  prover.
* That the shipped tables, and the unions that `TypeGen` makes, satisfy
  `TypesAssumption`: TLC evaluates it on the catalog of `MCTypes`. These are finitely
  many tables of constants, for which evaluation is the proof; what remains unproved is
  that a schema outside the 17 declarations and five common ones would fit as well.

## Not modelled

* The RPC generator's own rules (planned); its output is in `Dispatch`.
* Of the type generator: names, docs, the printing of Go, constants and enum
  declarations, array unions, and the presence pointers of unions without a
  discriminator. They are text, decided from one schema at a time, and the
  generator's golden files fix them.
* Of the generated types: those without a codec of their own, and the array union
  `SessionConfigSelectOptions`, which is taken for a slice.
* The wrapper `internal/json` around the JSON library, which makes field names case
  sensitive; `EncodeIndent`.
* The examples and the conformance fixtures.
* Durations (only the order of timer and event matters); memory and goroutine cost
  of the unbounded `handlerQueue`.

## Plan

In order of importance; the first eight are done.

1. `Jsonrpc2Conn`, its properties, `CallLifecycle`, first proofs.
2. `IOConn`: the transport every connection uses.
3. `CommandConn`: shutdown of a subprocess.
4. `Dispatch`: switches, senders, `ExtensionMux`.
5. `WireCodec`, and the answer to a call in `Dispatch`.
6. `GenCode`, the shipped types, `TypeGen`, `MessageTypes`.
7. Proofs of every invariant and action property of `Jsonrpc2Conn`, `IOConn`,
   `CommandConn` and `Dispatch`, of the refinement, and of `BadFieldIsContained` and
   `NullIsForwarded`.
8. Proofs, continued: a condition on tables (`TypeFits`, `VariantFits`) under which
   `RoundTrip`, `ForwardingSettles` and `VariantAgrees` hold for every type.
9. `RpcGen`: `sides`, `operations`, `assignNames`, `validateNames`: the two tables of
   `Dispatch` derived from one, names unique.
10. Composition: two connections over two `IOConn`s, agent and client, with bounded
   buffers: no mutual blocking, `Close` on one side ends the other.
