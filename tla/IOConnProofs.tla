---------------------------- MODULE IOConnProofs ----------------------------
(***************************************************************************)
(* TLAPS proofs about the stream transport, for every stream and any       *)
(* number of concurrent calls of Write and Close.                          *)
(***************************************************************************)
EXTENDS IOConn, SequenceTheorems, TLAPS

-----------------------------------------------------------------------------
\* What a stream holds is a sequence of messages and bad lines.
LEMMA InputType ==
    ASSUME stream \in Streams
    PROVE  /\ Input \in Seq(Nat \cup {Bad}) /\ Len(Input) \in Nat
           /\ \A i \in 1..Len(Input) : Input[i] \in Nat \cup {Bad}
           /\ stream.unterminated \in BOOLEAN /\ stream.std \in BOOLEAN
BY StreamAssumption DEF Input

\* Every step keeps the types.
LEMMA TypeStep == TypeOK /\ [Next]_vars => TypeOK'
<1> SUFFICES ASSUME TypeOK, [Next]_vars PROVE TypeOK'
    OBVIOUS
<1> USE DEF TypeOK, pumpVars, readVars, writeVars, closeVars
<1>a. /\ Len(Input) \in Nat /\ \A i \in 1..Len(Input) : Input[i] \in Nat \cup {Bad}
      /\ stream' = stream => Input' = Input
  BY InputType DEF Input
<1>1. CASE PumpStep
  <2>1. CASE PumpLine
    <3>1. pos + 1 \in 1..Len(Input)
      BY <1>a, <2>1 DEF PumpLine
    <3>2. pos' \in 0..Len(Input) /\ item' \in Nat \cup {Bad} /\ Input' = Input
      BY <1>a, <2>1, <3>1 DEF PumpLine
    <3> QED BY <2>1, <3>2 DEF PumpLine, AfterRead
  <2>2. CASE PumpError
    BY <1>a, <2>2 DEF PumpError, StreamErrors
  <2>3. CASE PumpQuit
    BY <1>a, <2>3 DEF PumpQuit
  <2> QED BY <1>1, <2>1, <2>2, <2>3 DEF PumpStep
<1>2. CASE ReadStep
  <2>1. CASE ReadItem
    <3>1. Decodes(item) => Append(delivered, item) \in Seq(Nat)
      BY AppendProperties DEF Decodes
    <3> QED BY <1>a, <2>1, <3>1 DEF ReadItem, AfterLine
  <2>2. CASE ReadError \/ ReadClosed
    BY <1>a, <2>2 DEF ReadError, ReadClosed
  <2> QED BY <1>2, <2>1, <2>2 DEF ReadStep
<1>3. CASE PeerGone
  BY <1>a, <1>3 DEF PeerGone
<1>4. ASSUME NEW w \in Writers, WriteStep(w) PROVE TypeOK'
  <2>1. CASE WriteBegin(w)
    BY <1>a, <2>1 DEF WriteBegin
  <2>2. CASE WriteLock(w) \/ WriteFail(w)
    BY <1>a, <2>2 DEF WriteLock, WriteFail, Unlock
  <2>3. CASE WriteChunk(w)
    <3>1. wire' \in Seq(Writers \X {1, 2})
      <4>1. PICK part \in {1, 2} : wire' = Append(wire, <<w, part>>)
        BY <2>3 DEF WriteChunk
      <4> QED BY <4>1, AppendProperties
    <3> QED BY <1>a, <2>3, <3>1 DEF WriteChunk, Unlock
  <2> QED BY <1>4, <2>1, <2>2, <2>3 DEF WriteStep
<1>5. ASSUME NEW k \in Closers, CloseBegin(k) \/ CloseStep(k) PROVE TypeOK'
  <2>1. CASE CloseBegin(k)
    BY <1>a, <2>1 DEF CloseBegin
  <2>2. CASE CloseStream(k) \/ CloseChannel(k)
    BY <1>a, <2>2 DEF CloseStream, CloseChannel
  <2>3. CASE CloseAgain(k)
    BY <1>a, <2>3 DEF CloseAgain
  <2> QED BY <1>5, <2>1, <2>2, <2>3 DEF CloseStep
<1>6. CASE UNCHANGED vars
  BY <1>a, <1>6 DEF vars
<1> QED BY <1>1, <1>2, <1>3, <1>4, <1>5, <1>6 DEF Next, Rest

-----------------------------------------------------------------------------
(* Write *)

\* Every step keeps writeMu with the Write that is writing.
LEMMA MutexStep == TypeOK /\ MutexHeld /\ [Next]_vars => MutexHeld'
<1> SUFFICES ASSUME TypeOK, MutexHeld, [Next]_vars PROVE MutexHeld'
    OBVIOUS
<1> USE DEF MutexHeld, pumpVars, readVars, writeVars, closeVars
<1>a. wpc \in [Writers -> {"idle", "lock", "write", "done"}] /\ Nobody \notin Writers
  BY CallersAssumption DEF TypeOK
<1>1. CASE PumpStep \/ ReadStep \/ PeerGone
  BY <1>1 DEF PumpStep, PumpLine, PumpError, PumpQuit, ReadStep, ReadItem, ReadError, ReadClosed, PeerGone
<1>2. ASSUME NEW w \in Writers, WriteStep(w) PROVE MutexHeld'
  BY <1>a, <1>2 DEF WriteStep, WriteBegin, WriteLock, MutexFree, WriteChunk, WriteFail, Unlock
<1>3. ASSUME NEW k \in Closers, CloseBegin(k) \/ CloseStep(k) PROVE MutexHeld'
  BY <1>3 DEF CloseBegin, CloseStep, CloseStream, CloseChannel, CloseAgain
<1>4. CASE UNCHANGED vars
  BY <1>4 DEF vars
<1> QED BY <1>1, <1>2, <1>3, <1>4 DEF Next, Rest

\* A chunk appended by the Write that holds the mutex goes on with the open line,
\* or begins one when none is open.
LEMMA ChunkStep ==
    ASSUME TypeOK, MutexHeld, OpenLine, LinesAreWhole, NEW w \in Writers, WriteChunk(w)
    PROVE  OpenLine' /\ LinesAreWhole'
<1> DEFINE n == Len(wire)
<1>a. wire \in Seq(Writers \X {1, 2}) /\ n \in Nat /\ \A i \in 1..n : wire[i] \in Writers \X {1, 2}
  BY DEF TypeOK
<1>b. wpc[w] = "write" /\ ~Stalled
  BY DEF WriteChunk, Stalled
<1>1. PICK part \in {1, 2} : /\ wire' = Append(wire, <<w, part>>)
                             /\ part = 1 <=> \A i \in 1..n : wire[i][1] # w
                             /\ part = 1 => wpc' = wpc
  BY DEF WriteChunk
<1>2. /\ Len(wire') = n + 1 /\ wire'[n + 1] = <<w, part>> /\ wire' # <<>>
      /\ \A i \in 1..n : wire'[i] = wire[i]
  BY <1>a, <1>1, AppendProperties
<1>3. OpenLine'
  BY <1>a, <1>b, <1>1, <1>2 DEF OpenLine
<1>4. n > 0 /\ wire[n][2] = 1 => wire[n][1] = w /\ part = 2
  <2> SUFFICES ASSUME n > 0, wire[n][2] = 1 PROVE wire[n][1] = w /\ part = 2
      OBVIOUS
  <2>1. wire # <<>> /\ n \in 1..n /\ wire[n][1] \in Writers
    BY <1>a
  <2>2. wpc[wire[n][1]] = "write"
    BY <1>b, <2>1 DEF OpenLine
  <2>3. wire[n][1] = w
    BY <1>b, <2>1, <2>2 DEF MutexHeld
  <2> QED BY <1>1, <2>1, <2>3
<1>5. LinesAreWhole'
  <2> SUFFICES ASSUME NEW i \in 1..n, wire'[i][2] = 1 PROVE wire'[i + 1] = <<wire'[i][1], 2>>
      BY <1>a, <1>2 DEF LinesAreWhole
  <2>1. CASE i < n
    BY <1>a, <1>2, <2>1 DEF LinesAreWhole
  <2>2. CASE i = n
    BY <1>a, <1>1, <1>2, <1>4, <2>2
  <2> QED BY <1>a, <2>1, <2>2
<1> QED BY <1>3, <1>5

\* A step that writes nothing and takes no Write off the stream keeps lines whole.
LEMMA WireSame ==
    ASSUME OpenLine, LinesAreWhole, UNCHANGED wire, Stalled => Stalled',
           \A w \in Writers : wpc[w] = "write" => wpc'[w] = "write" \/ Stalled', TypeOK
    PROVE  OpenLine' /\ LinesAreWhole'
<1>1. LinesAreWhole'
  BY DEF LinesAreWhole
<1>2. wire # <<>> => wire[Len(wire)][1] \in Writers
  <2> SUFFICES ASSUME wire # <<>> PROVE wire[Len(wire)][1] \in Writers
      OBVIOUS
  <2>1. wire \in Seq(Writers \X {1, 2}) /\ Len(wire) \in 1..Len(wire)
    BY DEF TypeOK
  <2>2. wire[Len(wire)] \in Writers \X {1, 2}
    BY <2>1
  <2> QED BY <2>2
<1>3. OpenLine'
  BY <1>2 DEF OpenLine
<1> QED BY <1>1, <1>3

\* Every step keeps the lines on the stream whole.
LEMMA LinesStep ==
    TypeOK /\ MutexHeld /\ OpenLine /\ LinesAreWhole /\ [Next]_vars => OpenLine' /\ LinesAreWhole'
<1> SUFFICES ASSUME TypeOK, MutexHeld, OpenLine, LinesAreWhole, [Next]_vars
             PROVE  OpenLine' /\ LinesAreWhole'
    OBVIOUS
<1> USE DEF Stalled, pumpVars, readVars, writeVars, closeVars
<1>1. CASE PumpStep \/ ReadStep \/ PeerGone
  BY <1>1, WireSame DEF PumpStep, PumpLine, PumpError, PumpQuit, ReadStep, ReadItem, ReadError,
                        ReadClosed, PeerGone
<1>2. ASSUME NEW w \in Writers, WriteStep(w) PROVE OpenLine' /\ LinesAreWhole'
  <2>1. CASE WriteChunk(w)
    BY <2>1, ChunkStep
  <2>2. CASE WriteBegin(w) \/ WriteLock(w) \/ WriteFail(w)
    BY <2>2, WireSame DEF WriteBegin, WriteLock, WriteFail, TypeOK
  <2> QED BY <1>2, <2>1, <2>2 DEF WriteStep
<1>3. ASSUME NEW k \in Closers, CloseBegin(k) \/ CloseStep(k) PROVE OpenLine' /\ LinesAreWhole'
  BY <1>3, WireSame DEF CloseBegin, CloseStep, CloseStream, CloseChannel, CloseAgain
<1>4. CASE UNCHANGED vars
  BY <1>4, WireSame DEF vars
<1> QED BY <1>1, <1>2, <1>3, <1>4 DEF Next, Rest

-----------------------------------------------------------------------------
(* Read *)

\* Every step keeps EofIsReal and the pump's position.
LEMMA PositionStep ==
    TypeOK /\ PumpPosition /\ EofIsReal /\ [Next]_vars => PumpPosition' /\ EofIsReal'
<1> SUFFICES ASSUME TypeOK, PumpPosition, EofIsReal, [Next]_vars PROVE PumpPosition' /\ EofIsReal'
    OBVIOUS
<1> USE DEF PumpPosition, EofIsReal, pumpVars, readVars, writeVars, closeVars
<1>a. /\ pos \in Nat /\ Len(delivered) \in Nat /\ Len(Input) \in Nat
      /\ stream' = stream => Input' = Input
  BY InputType DEF TypeOK, Input
<1>1. CASE PumpLine
  BY <1>a, <1>1 DEF PumpLine, AfterRead
<1>2. CASE PumpError
  BY <1>a, <1>2 DEF PumpError, StreamErrors, Decodes
<1>3. CASE PumpQuit
  BY <1>a, <1>3 DEF PumpQuit
<1>4. CASE ReadItem
  <2>1. CASE Decodes(item)
    <3>1. Len(delivered') = Len(delivered) + 1
      BY <2>1, <1>4, AppendProperties DEF ReadItem, Decodes, TypeOK
    <3> QED BY <1>a, <1>4, <2>1, <3>1 DEF ReadItem, AfterLine
  <2>2. CASE ~Decodes(item)
    BY <1>a, <1>4, <2>2 DEF ReadItem
  <2> QED BY <2>1, <2>2
<1>5. CASE ReadError \/ ReadClosed
  BY <1>a, <1>5 DEF ReadError, ReadClosed
<1>6. CASE PeerGone
  BY <1>a, <1>6 DEF PeerGone
<1>7. ASSUME NEW w \in Writers, WriteStep(w) PROVE PumpPosition' /\ EofIsReal'
  BY <1>a, <1>7 DEF WriteStep, WriteBegin, WriteLock, WriteChunk, WriteFail
<1>8. ASSUME NEW k \in Closers, CloseBegin(k) \/ CloseStep(k) PROVE PumpPosition' /\ EofIsReal'
  BY <1>a, <1>8 DEF CloseBegin, CloseStep, CloseStream, CloseChannel, CloseAgain
<1>9. CASE UNCHANGED vars
  BY <1>a, <1>9 DEF vars
<1> QED BY <1>1, <1>2, <1>3, <1>4, <1>5, <1>6, <1>7, <1>8, <1>9 DEF Next, Rest, PumpStep, ReadStep

\* A sequence that agrees with a longer one is its prefix.
LEMMA PrefixOf ==
    ASSUME NEW S, NEW s \in Seq(S), NEW T, NEW t \in Seq(T), Len(t) <= Len(s),
           \A i \in 1..Len(t) : t[i] = s[i]
    PROVE  t = SubSeq(s, 1, Len(t))
<1>1. Len(s) \in Nat /\ Len(t) \in Nat
  OBVIOUS
<1>2. \A i \in 1..Len(t) : s[i] \in S \cup T
  BY <1>1
<1>3. /\ SubSeq(s, 1, Len(t)) \in Seq(S \cup T) /\ Len(SubSeq(s, 1, Len(t))) = Len(t)
      /\ \A i \in 1..Len(t) : SubSeq(s, 1, Len(t))[i] = s[i]
  BY <1>1, <1>2, SubSeqProperties
<1>4. t \in Seq(S \cup T)
  OBVIOUS
<1> QED BY <1>3, <1>4, SeqEqual

\* A step that returns no message keeps DeliversInOrder, unless it reports the
\* end of the file early.
LEMMA OrderSame ==
    ASSUME DeliversInOrder, UNCHANGED <<stream, delivered>>,
           closed => closed', broken => broken',
           result' = result \/ (result' = "eof" /\ ~closed' /\ ~broken' => delivered = Input)
    PROVE  DeliversInOrder'
BY DEF DeliversInOrder, Input

\* Every step keeps what Read has returned a prefix of what the peer sent.
LEMMA OrderStep ==
    TypeOK /\ PumpPosition /\ EofIsReal /\ DeliversInOrder /\ [Next]_vars => DeliversInOrder'
<1> SUFFICES ASSUME TypeOK, PumpPosition, EofIsReal, DeliversInOrder, [Next]_vars
             PROVE  DeliversInOrder'
    OBVIOUS
<1> USE DEF pumpVars, readVars, writeVars, closeVars
<1>a. /\ Input \in Seq(Nat \cup {Bad}) /\ Len(Input) \in Nat /\ pos \in 0..Len(Input)
      /\ delivered \in Seq(Nat) /\ Len(delivered) \in Nat
  BY InputType DEF TypeOK
<1>1. CASE ReadItem
  <2>1. CASE Decodes(item)
    <3>1. /\ delivered' = Append(delivered, item) /\ result' = "none" /\ Input' = Input
          /\ item = Input[Len(delivered) + 1] /\ Len(delivered) + 1 <= Len(Input) /\ item \in Nat
      BY <1>1, <1>a, <2>1 DEF ReadItem, PumpPosition, Decodes, TypeOK, Input
    <3>2. /\ delivered' \in Seq(Nat) /\ Len(delivered') = Len(delivered) + 1
          /\ delivered'[Len(delivered) + 1] = item
          /\ \A i \in 1..Len(delivered) : delivered'[i] = delivered[i]
      BY <1>a, <3>1, AppendProperties
    <3>3. \A i \in 1..Len(delivered) : delivered[i] = Input[i]
      <4>1. \A i \in 1..Len(delivered) : Input[i] \in Nat \cup {Bad}
        BY <1>a, <3>1
      <4>2. \A i \in 1..Len(delivered) : SubSeq(Input, 1, Len(delivered))[i] = Input[i]
        BY <1>a, <4>1, SubSeqProperties
      <4> QED BY <4>2 DEF DeliversInOrder
    <3>4. \A i \in 1..Len(delivered') : delivered'[i] = Input[i]
      BY <1>a, <3>1, <3>2, <3>3
    <3>5. delivered' = SubSeq(Input, 1, Len(delivered'))
      BY <1>a, <3>1, <3>2, <3>4, PrefixOf
    <3> QED BY <3>1, <3>5 DEF DeliversInOrder
  <2>2. CASE ~Decodes(item)
    BY <1>1, <2>2, OrderSame DEF ReadItem
  <2> QED BY <2>1, <2>2
<1>2. CASE ReadError
  <2>1. pos = Len(delivered)
    BY <1>2 DEF ReadError, PumpPosition
  <2>2. readErr = "eof" /\ ~broken => delivered = Input
    BY <1>a, <2>1, SubSeqFull DEF EofIsReal, DeliversInOrder
  <2> QED BY <1>2, <2>2, OrderSame DEF ReadError
<1>3. CASE PumpStep \/ ReadClosed \/ PeerGone
  BY <1>3, OrderSame DEF PumpStep, PumpLine, PumpError, PumpQuit, ReadClosed, PeerGone
<1>4. ASSUME NEW w \in Writers, WriteStep(w) PROVE DeliversInOrder'
  BY <1>4, OrderSame DEF WriteStep, WriteBegin, WriteLock, WriteChunk, WriteFail
<1>5. ASSUME NEW k \in Closers, CloseBegin(k) \/ CloseStep(k) PROVE DeliversInOrder'
  BY <1>5, OrderSame DEF CloseBegin, CloseStep, CloseStream, CloseChannel, CloseAgain
<1>6. CASE UNCHANGED vars
  BY <1>6, OrderSame DEF vars
<1> QED BY <1>1, <1>2, <1>3, <1>4, <1>5, <1>6 DEF Next, Rest, ReadStep

-----------------------------------------------------------------------------
(* The theorems *)

\* The initial state satisfies the inductive invariant.
LEMMA IInvInit == Init => IInv
<1> SUFFICES ASSUME Init PROVE IInv
    OBVIOUS
<1> USE DEF Init
<1>1. TypeOK
  <2>1. delivered \in Seq(Nat) /\ wire \in Seq(Writers \X {1, 2})
    OBVIOUS
  <2>2. pos \in 0..Len(Input)
    BY InputType
  <2> QED BY <2>1, <2>2 DEF TypeOK
<1>2. DeliversInOrder
  <2>1. delivered = <<>> /\ result = "none"
    OBVIOUS
  <2>2. SubSeq(Input, 1, 0) = <<>>
    BY SubSeqEmpty
  <2>3. Len(delivered) = 0
    BY <2>1
  <2> QED BY <2>1, <2>2, <2>3 DEF DeliversInOrder
<1>3. LinesAreWhole /\ MutexHeld /\ OpenLine /\ PumpPosition /\ EofIsReal
  BY CallersAssumption DEF LinesAreWhole, MutexHeld, OpenLine, PumpPosition, EofIsReal
<1> QED BY <1>1, <1>2, <1>3 DEF IInv

\* The pump, Read, the Writes and the Closes keep the transport's invariant.
THEOREM TransportInvariant == Spec => []IInv
<1>1. IInv /\ [Next]_vars => IInv'
  BY TypeStep, MutexStep, LinesStep, PositionStep, OrderStep DEF IInv
<1> QED BY IInvInit, <1>1, PTL DEF Spec

\* Every variable stays in its type: Read returns decoded messages only.
THEOREM TypeCorrect == Spec => []TypeOK
<1>1. IInv => TypeOK
  BY DEF IInv
<1> QED BY TransportInvariant, <1>1, PTL

\* Read returns the peer's messages in order and without a gap, and reports the
\* end of a stream that still works only after the last one.
THEOREM ReadsInOrder == Spec => []DeliversInOrder
<1>1. IInv => DeliversInOrder
  BY DEF IInv
<1> QED BY TransportInvariant, <1>1, PTL

\* Concurrent Writes never mix their lines.
THEOREM WritesDoNotMix == Spec => []LinesAreWhole
<1>1. IInv => LinesAreWhole
  BY DEF IInv
<1> QED BY TransportInvariant, <1>1, PTL
=============================================================================
