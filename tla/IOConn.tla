------------------------------- MODULE IOConn -------------------------------
(***************************************************************************)
(* The stream transport of acp/transport.go: type ioConn, which turns an   *)
(* io.ReadWriteCloser into the Reader, Writer and Closer of a connection.  *)
(*                                                                         *)
(* Its goroutines are the pump that newIOConn starts (it reads lines and   *)
(* offers each decoded message on the unbuffered channel readCh), the      *)
(* connection's reader in Read, the callers of Write and those of Close.   *)
(* The stream below is external: a line is a message or Bad (DecodeMessage *)
(* rejects it), a line on the wire is two chunks, so that another Write    *)
(* may come in between, and a failed stream stays failed.                  *)
(***************************************************************************)
EXTENDS Integers, Sequences

CONSTANTS
    Streams,        \* what the stream may be: its lines, whether the last one
                    \* lacks its newline, and whether it is os.Stdin and
                    \* os.Stdout, of which Close interrupts neither
    Bad,            \* a line that is not a JSON-RPC message
    Writers,        \* the calls of Write
    Closers,        \* the calls of Close
    Nobody          \* no goroutine holds writeMu, or has called Close

ASSUME StreamAssumption ==
    \A s \in Streams : /\ s.lines \in Seq(Nat \cup {Bad})
                       /\ s.unterminated \in BOOLEAN /\ s.std \in BOOLEAN
                       /\ s.unterminated => s.lines # <<>>
ASSUME CallersAssumption == Nobody \notin Writers \cup Closers

VARIABLES
    stream,     \* the member of Streams that rwc is
    pump,       \* "read" (in ReadBytes), "offer", "offerErr" or "exited"
    pos,        \* lines that ReadBytes has returned
    item,       \* the line the pump offers; Bad to begin with
    readErr,    \* the error ReadBytes returned, or "none"
    delivered,  \* the messages that Read has returned
    result,     \* the error that ended the reads, or "none"
    wpc,        \* "idle", "lock", "write" or "done", for each Write
    werr,       \* what each Write returned
    writeMu,    \* the Write that holds the mutex, or Nobody
    wire,       \* the chunks written to the stream
    broken,     \* the peer no longer reads
    cpc,        \* "idle", "once", "rwc", "channel" or "done", for each Close
    once,       \* the Close that runs, or ran, closeOnce's function
    rwcClosed,
    closed      \* the channel closed is closed

pumpVars == <<stream, pump, pos, item, readErr>>
readVars == <<delivered, result>>
writeVars == <<wpc, werr, writeMu, wire, broken>>
closeVars == <<cpc, once, rwcClosed, closed>>
vars == <<pumpVars, readVars, writeVars, closeVars>>

Input == stream.lines

\* Every variable stays in its type: what is delivered is a decoded message,
\* never the zero value that DecodeMessage returns with an error.
TypeOK ==
    /\ stream \in Streams
    /\ pump \in {"read", "offer", "offerErr", "exited"} /\ pos \in 0..Len(Input)
    /\ item \in Nat \cup {Bad}
    /\ readErr \in {"none", "eof", "closed"}
    /\ delivered \in Seq(Nat) /\ result \in {"none", "eof", "closed", "decode"}
    /\ wpc \in [Writers -> {"idle", "lock", "write", "done"}]
    /\ werr \in [Writers -> {"none", "ctx", "encode", "io"}]
    /\ writeMu \in Writers \cup {Nobody}
    /\ wire \in Seq(Writers \X {1, 2}) /\ broken \in BOOLEAN
    /\ cpc \in [Closers -> {"idle", "once", "rwc", "channel", "done"}]
    /\ once \in Closers \cup {Nobody}
    /\ rwcClosed \in BOOLEAN /\ closed \in BOOLEAN

Init ==
    /\ stream \in Streams
    /\ pump = "read" /\ pos = 0 /\ item = Bad /\ readErr = "none"
    /\ delivered = <<>> /\ result = "none"
    /\ wpc = [w \in Writers |-> "idle"] /\ werr = [w \in Writers |-> "none"]
    /\ writeMu = Nobody /\ wire = <<>> /\ broken = FALSE
    /\ cpc = [k \in Closers |-> "idle"] /\ once = Nobody
    /\ rwcClosed = FALSE /\ closed = FALSE

-----------------------------------------------------------------------------
(* The pump *)

\* What the pump does with a line, whatever the error returned with it.
AfterRead(e) == "offer"

\* ReadBytes returns a line, which may come out of the buffer after Close; the
\* end of the stream comes with the last line if that one lacks its newline.
PumpLine ==
    /\ pump = "read" /\ pos < Len(Input)
    /\ pos' = pos + 1
    /\ item' = Input[pos + 1]
    /\ readErr' = IF stream.unterminated /\ pos + 1 = Len(Input) THEN "eof" ELSE "none"
    /\ pump' = AfterRead(readErr')
    /\ UNCHANGED <<stream, readVars, writeVars, closeVars>>

\* Why a blocked rwc.Read fails: the peer is gone, or Close interrupts it.
StreamErrors ==
    (IF broken \/ pos = Len(Input) THEN {"eof"} ELSE {})
      \cup (IF rwcClosed /\ ~stream.std THEN {"closed"} ELSE {})

\* ReadBytes returns an error, with the beginning of a line or without.
PumpError ==
    /\ pump = "read"
    /\ \E e \in StreamErrors : readErr' = e
    /\ \/ pump' = "offerErr" /\ UNCHANGED item
       \/ pos < Len(Input) /\ pump' = "offer" /\ item' = Bad
    /\ UNCHANGED <<stream, pos, readVars, writeVars, closeVars>>

\* Where the pump goes once its line is taken: on, or to the pending error.
AfterLine == IF readErr = "none" THEN "read" ELSE "offerErr"

\* Seeded faults: a line that nobody waits for is dropped; an offer is never
\* given up.
PumpSkip ==
    /\ pump = "offer" /\ pump' = AfterLine
    /\ UNCHANGED <<stream, pos, item, readErr, readVars, writeVars, closeVars>>
PumpInsist == FALSE /\ UNCHANGED vars

\* The second case of the pump's selects: the connection is closed.
PumpQuit ==
    /\ pump \in {"offer", "offerErr"} /\ closed
    /\ pump' = "exited"
    /\ UNCHANGED <<stream, pos, item, readErr, readVars, writeVars, closeVars>>

-----------------------------------------------------------------------------
(* Read *)

\* Seeded fault: the error of DecodeMessage is lost.
DecodeUnchecked(line) == TRUE

Decodes(line) == line # Bad

\* Read takes a line; its caller, readIncoming, stops at the first error.
ReadItem ==
    /\ result = "none" /\ pump = "offer"
    /\ pump' = AfterLine
    /\ \/ Decodes(item) /\ delivered' = Append(delivered, item) /\ UNCHANGED result
       \/ ~Decodes(item) /\ result' = "decode" /\ UNCHANGED delivered
    /\ UNCHANGED <<stream, pos, item, readErr, writeVars, closeVars>>

\* Read takes the pump's error, and the pump exits.
ReadError ==
    /\ result = "none" /\ pump = "offerErr"
    /\ result' = readErr
    /\ pump' = "exited"
    /\ UNCHANGED <<stream, pos, item, readErr, delivered, writeVars, closeVars>>

\* Seeded fault: Read does not look at closed.
ReadWaits == FALSE /\ UNCHANGED vars

\* Read finds the connection closed.
ReadClosed ==
    /\ result = "none" /\ closed
    /\ result' = "eof"
    /\ UNCHANGED <<pumpVars, delivered, writeVars, closeVars>>

-----------------------------------------------------------------------------
(* Write *)

\* Write returns early, as the Context is done or EncodeMessage rejects the
\* message, or goes on to the mutex.
WriteBegin(w) ==
    /\ wpc[w] = "idle"
    /\ \E e \in {"none", "ctx", "encode"} :
         /\ werr' = [werr EXCEPT ![w] = e]
         /\ wpc' = [wpc EXCEPT ![w] = IF e = "none" THEN "lock" ELSE "done"]
    /\ UNCHANGED <<pumpVars, readVars, writeMu, wire, broken, closeVars>>

\* Seeded fault: the mutex is not taken.
Unlocked == TRUE

MutexFree == writeMu = Nobody

WriteLock(w) ==
    /\ wpc[w] = "lock" /\ MutexFree
    /\ writeMu' = w
    /\ wpc' = [wpc EXCEPT ![w] = "write"]
    /\ UNCHANGED <<pumpVars, readVars, werr, wire, broken, closeVars>>

\* Seeded fault: Write returns without unlocking.
KeepMutex == writeMu

\* The deferred Unlock.
Unlock == Nobody

\* The stream takes the first or the last chunk of the line.
WriteChunk(w) ==
    /\ wpc[w] = "write" /\ ~broken /\ (stream.std \/ ~rwcClosed)
    /\ LET first == \A i \in 1..Len(wire) : wire[i][1] # w
       IN  /\ wire' = Append(wire, <<w, IF first THEN 1 ELSE 2>>)
           /\ wpc' = IF first THEN wpc ELSE [wpc EXCEPT ![w] = "done"]
           /\ writeMu' = IF first THEN writeMu ELSE Unlock
    /\ UNCHANGED <<pumpVars, readVars, werr, broken, closeVars>>

\* A write fails, even between two chunks, when the peer is gone or the stream
\* is closed.
WriteFail(w) ==
    /\ wpc[w] = "write" /\ (broken \/ (rwcClosed /\ ~stream.std))
    /\ werr' = [werr EXCEPT ![w] = "io"]
    /\ wpc' = [wpc EXCEPT ![w] = "done"]
    /\ writeMu' = Unlock
    /\ UNCHANGED <<pumpVars, readVars, wire, broken, closeVars>>

\* The peer goes away: it no longer reads, and what it sent may be cut short.
PeerGone ==
    /\ ~broken
    /\ broken' = TRUE
    /\ UNCHANGED <<pumpVars, readVars, wpc, werr, writeMu, wire, closeVars>>

-----------------------------------------------------------------------------
(* Close *)

\* closeOnce.Do: the first caller runs the function, the others wait for it.
CloseBegin(k) ==
    /\ cpc[k] = "idle"
    /\ \/ once = Nobody /\ once' = k /\ cpc' = [cpc EXCEPT ![k] = "rwc"]
       \/ once # Nobody /\ UNCHANGED once /\ cpc' = [cpc EXCEPT ![k] = "once"]
    /\ UNCHANGED <<pumpVars, readVars, writeVars, rwcClosed, closed>>

\* Seeded fault: Close takes writeMu.
CloseLocks == writeMu = Nobody

\* Close does not wait for a Write: closing the stream is what interrupts it.
CloseReady == TRUE

\* rwc.Close; the Read it interrupts may return before closed is closed.
CloseStream(k) ==
    /\ cpc[k] = "rwc" /\ CloseReady
    /\ rwcClosed' = TRUE
    /\ cpc' = [cpc EXCEPT ![k] = "channel"]
    /\ UNCHANGED <<pumpVars, readVars, writeVars, once, closed>>

CloseChannel(k) ==
    /\ cpc[k] = "channel"
    /\ closed' = TRUE
    /\ cpc' = [cpc EXCEPT ![k] = "done"]
    /\ UNCHANGED <<pumpVars, readVars, writeVars, once, rwcClosed>>

CloseAgain(k) ==
    /\ cpc[k] = "once" /\ cpc[once] = "done"
    /\ cpc' = [cpc EXCEPT ![k] = "done"]
    /\ UNCHANGED <<pumpVars, readVars, writeVars, once, rwcClosed, closed>>

-----------------------------------------------------------------------------
PumpStep == PumpLine \/ PumpError \/ PumpQuit
ReadStep == ReadItem \/ ReadError \/ ReadClosed
WriteStep(w) == WriteBegin(w) \/ WriteLock(w) \/ WriteChunk(w) \/ WriteFail(w)
CloseStep(k) == CloseStream(k) \/ CloseChannel(k) \/ CloseAgain(k)

\* Once the pump has exited the program may do nothing more; that the calls of
\* Write and Close have returned by then is for the liveness properties to say.
Rest == pump = "exited" /\ UNCHANGED vars

Next ==
    \/ PumpStep \/ ReadStep \/ PeerGone
    \/ \E w \in Writers : WriteStep(w)
    \/ \E k \in Closers : CloseBegin(k) \/ CloseStep(k)
    \/ Rest

Spec == Init /\ [][Next]_vars

\* Goroutines that can run do run, and a stream that has failed says so.  The
\* peer need not send, read or go away, and nobody has to call Close.
Fairness ==
    /\ WF_vars(PumpError \/ PumpQuit) /\ WF_vars(ReadStep)
    /\ \A w \in Writers : WF_vars(WriteLock(w)) /\ WF_vars(WriteFail(w))
    /\ \A k \in Closers : WF_vars(CloseStep(k))

FairSpec == Spec /\ Fairness

-----------------------------------------------------------------------------
(* Properties *)

\* Read returns the peer's messages in their order and without a gap, and only
\* when all of them were returned does it report the peer's end of file, even
\* if the last line lacks its newline.
DeliversInOrder ==
    /\ delivered = SubSeq(Input, 1, Len(delivered))
    /\ result = "eof" /\ ~closed /\ ~broken => delivered = Input

\* Concurrent Writes never mix their lines: a line that was begun is finished
\* before another one is, or it is the last thing on the stream.
LinesAreWhole ==
    \A i \in 1..(Len(wire) - 1) : wire[i][2] = 1 => wire[i + 1] = <<wire[i][1], 2>>

\* Once a Close has returned, Read returns too, even on a stream whose Close
\* does not interrupt it.
ReadReturns == (\E k \in Closers : cpc[k] = "done") ~> result # "none"

\* The pump goroutine does not outlive a stream that Close interrupts.
PumpExits == rwcClosed /\ ~stream.std ~> pump = "exited"

\* Close returns while a Write is blocked, holding writeMu, in a stream that
\* the peer does not read.
CloseReturns == \A k \in Closers : cpc[k] # "idle" ~> cpc[k] = "done"

\* Closing the stream releases every Write, those that wait for writeMu too.
WritesReturn ==
    \A w \in Writers : rwcClosed /\ ~stream.std /\ wpc[w] = "lock" ~> wpc[w] = "done"

-----------------------------------------------------------------------------
(* The inductive invariant behind the safety properties *)

\* The stream takes no more chunks.
Stalled == broken \/ (rwcClosed /\ ~stream.std)

\* writeMu is held by the one Write that is writing.
MutexHeld == \A w \in Writers : wpc[w] = "write" <=> writeMu = w

\* A line that was begun is being finished, or nothing follows it.
OpenLine ==
    wire # <<>> /\ wire[Len(wire)][2] = 1
        => wpc[wire[Len(wire)][1]] = "write" \/ Stalled

\* What the pump is at, relative to what Read has returned so far.
PumpPosition ==
    result = "none" =>
        /\ pump \in {"read", "offerErr"} => pos = Len(delivered)
        /\ pump = "offer" /\ Decodes(item) => pos = Len(delivered) + 1 /\ item = Input[pos]

\* ReadBytes reports the end of the file at the end only, or of a broken stream.
EofIsReal == readErr = "eof" => broken \/ pos = Len(Input)

IInv ==
    /\ TypeOK /\ DeliversInOrder /\ LinesAreWhole
    /\ MutexHeld /\ OpenLine /\ PumpPosition /\ EofIsReal
=============================================================================
