--------------------------- MODULE DispatchProofs ---------------------------
(***************************************************************************)
(* TLAPS proofs about the dispatch of ACP messages and about ExtensionMux, *)
(* for any number of messages and registrations, whatever the handler      *)
(* implements, and whatever IDs and errors are given.                      *)
(***************************************************************************)
EXTENDS Dispatch, TLAPS

-----------------------------------------------------------------------------
(* The tables and the wire *)

\* Each side sends exactly what the other side's switch handles.
LEMMA TablesAgree == ClientSends = handleAgentRequest /\ AgentSends = handleClientRequest
BY DEF ClientSends, AgentSends, handleAgentRequest, handleClientRequest, AgentCalls,
       AgentNotifications, ClientCalls, ClientNotifications

\* A string, or an integer that is exact as float64, survives decoding and encoding.
LEMMA ExactIDs ==
    ASSUME NEW j \in WireIDs, Exact(j)
    PROVE  /\ EncodeID(MakeID(j)) = j
           /\ MakeID(j) \notin {NoID, BadID}
<1>1. CASE j[1] = "string"
  <2>1. MakeID(j) = j
    BY <1>1 DEF MakeID, Absent, Null
  <2> QED BY <1>1, <2>1 DEF EncodeID, NoID, BadID
<1>2. CASE j[1] = "number"
  <2> DEFINE h == j[2]
             i == <<"int64", Truncate(Float64(h))>>
  <2>1. h \in Int /\ j = Number(h)
    BY <1>2, WireAssumption DEF Other
  <2>2. h % 2 = 0 /\ -(2 * MaxExact) <= h /\ h <= 2 * MaxExact
    BY <1>2 DEF Exact
  <2>3. Float64(h) = h
    BY <2>1, <2>2, MaxExactAssumption DEF Float64
  <2>4. 2 * Truncate(h) = h
    BY <2>1, <2>2 DEF Truncate
  <2>5. MakeID(j) = i
    BY <1>2 DEF MakeID, Absent, Null
  <2>6. i # NoID /\ i # BadID /\ i[1] = "int64" /\ i[2] = Truncate(h)
    BY <2>3 DEF NoID, BadID
  <2>7. EncodeID(i) = Number(2 * Truncate(h))
    BY <2>6 DEF EncodeID
  <2> QED BY <2>1, <2>4, <2>5, <2>6, <2>7
<1> QED BY <1>1, <1>2 DEF Exact

\* A message whose ID is one is never unreadable.
LEMMA ExactIsReadable ==
    ASSUME NEW j \in WireIDs, Exact(j), NEW m, m # ""
    PROVE  DecodeMessage(EncodeRequest(j, m)).kind = "request"
BY ExactIDs DEF DecodeMessage, EncodeRequest, wireVersion

\* What the caller makes of a response: it has a result exactly if the handler had,
\* and otherwise the handler's error, or a closing one.
LEMMA AnswerTells ==
    ASSUME NEW e \in DispatchErrors, NEW i, NEW result \in {"value", "null", "absent"},
           e.nil => result # "absent",
           NEW l, l = call(DecodeMessage(EncodeResponse(i, result, e)))
    PROVE  /\ l.ok <=> e.nil
           /\ l.closed => CodeOf(e) \in {ErrClientClosing, ErrServerClosing}
           /\ l.ok \/ l.closed \/ (/\ Is(l.err, CodeOf(e))
                                   /\ e.direct => l.err.data = e.data)
<1> DEFINE w == toWireError(e)
           resp == DecodeMessage(EncodeResponse(i, result, e))
           closed == Is(w, ErrClientClosing) \/ Is(w, ErrServerClosing)
<1>1. resp.result = result /\ resp.error = w
  BY DEF DecodeMessage, EncodeResponse
<1>2. CASE e.nil
  <2>1. w = e /\ Await(resp) = NoError
    BY <1>1, <1>2 DEF toWireError, Await
  <2>2. l.ok /\ ~l.closed
    BY <2>1 DEF call, NoError
  <2> QED BY <1>2, <2>2
<1>3. CASE ~e.nil
  <2> DEFINE GoError == [nil : {FALSE}, codes : Seq(Int), direct : BOOLEAN, data : BOOLEAN]
  <2>1. e \in GoError /\ (e.direct => Len(e.codes) = 1)
    <3>1. CASE e \in HandlerErrors
      BY <3>1, WireAssumption
    <3>2. CASE e \in {Wrap(<<ErrMethodNotFound>>), Wrap(<<ErrInvalidParams>>)}
      <4>1. <<ErrMethodNotFound>> \in Seq(Int) /\ <<ErrInvalidParams>> \in Seq(Int)
        BY DEF ErrMethodNotFound, ErrInvalidParams
      <4> HIDE DEF GoError
      <4>2. \A s \in Seq(Int) : Wrap(s) \in GoError /\ Wrap(s).direct = FALSE
        BY DEF Wrap, Error, GoError
      <4> QED BY <3>2, <4>1, <4>2
    <3>3. NoError.nil
      BY DEF NoError
    <3> QED BY <1>3, <3>1, <3>2, <3>3 DEF DispatchErrors
  <2>2. /\ w.codes = <<CodeOf(e)>>
        /\ ~w.nil
        /\ w \in GoError
        /\ e.direct => w.data = e.data
    <3>1. CASE e.direct
      <4>1. w = e
        BY <3>1 DEF toWireError
      <4>2. e.codes = <<e.codes[1]>> /\ e.codes # << >>
        BY <2>1, <3>1
      <4> QED BY <2>1, <4>1, <4>2 DEF CodeOf
    <3>2. CASE ~e.direct
      <4>1. w = Error(<<CodeOf(e)>>, TRUE, FALSE)
        BY <1>3, <3>2 DEF toWireError, CodeOf
      <4>2. CodeOf(e) \in Int
        BY <2>1 DEF CodeOf
      <4>3. <<CodeOf(e)>> \in Seq(Int)
        BY <4>2
      <4>4. \A s \in Seq(Int) : LET x == Error(s, TRUE, FALSE)
                               IN  x \in GoError /\ x.codes = s /\ ~x.nil
        BY DEF Error
      <4> HIDE DEF w, GoError
      <4> QED BY <3>2, <4>1, <4>3, <4>4
    <3> QED BY <3>1, <3>2
  <2>3. \A c : Is(w, c) <=> CodeOf(e) = c
    BY <2>2 DEF Is
  <2>4. Await(resp) = w
    BY <1>1, <2>2 DEF Await
  <2>5. /\ ~l.ok
        /\ l.closed = closed
        /\ ~closed => l.err = [w EXCEPT !.direct = FALSE]
    BY <2>2, <2>4 DEF call, translateCallError
  <2>6. ~closed => l.err.codes = w.codes /\ l.err.data = w.data
    BY <2>2, <2>5
  <2>7. ~closed => Is(l.err, CodeOf(e))
    BY <2>2, <2>6 DEF Is
  <2> QED BY <1>3, <2>2, <2>3, <2>5, <2>6, <2>7
<1> QED BY <1>2, <1>3

-----------------------------------------------------------------------------
(* Types, and what a step leaves alone *)

\* The fields of request r are as they were.
Untouched(r) ==
    /\ msg'[r] = msg[r] /\ id'[r] = id[r] /\ pc'[r] = pc[r] /\ op'[r] = op[r]
    /\ outcome'[r] = outcome[r] /\ err'[r] = err[r]
    /\ answer'[r] = answer[r] /\ learned'[r] = learned[r]

\* What the peer sends is of a kind and has a method that the model knows.
LEMMA PeerSendsTyped ==
    PeerSends \subseteq Kinds \X ({o[2] : o \in ClientSends \cup AgentSends}
                                    \cup Extensions \cup {"other"})
<1>1. Handled \subseteq ClientSends \cup AgentSends
  BY TablesAgree DEF Handled
<1>2. \A o \in ClientSends \cup AgentSends : o = <<o[1], o[2]>> /\ o[1] \in Kinds
  BY DEF ClientSends, AgentSends, Kinds
<1> QED BY <1>1, <1>2 DEF PeerSends, ExtensionSends

\* What the dispatch of r sets when it finishes with error e.
LEMMA FinishTypes ==
    ASSUME IInv, NEW r \in Reqs, NEW o \in Outcomes, NEW e \in DispatchErrors,
           FinishWith(r, o, e), e.nil <=> o \in {"result", "nil", "unreadable"}
    PROVE  /\ pc' \in [Reqs -> {"idle", "start", "lookup", "running", "done", "sent",
                                "learned", "lost"}]
           /\ outcome' \in [Reqs -> Outcomes \cup {"none"}]
           /\ err' \in [Reqs -> DispatchErrors]
           /\ \A q \in Reqs : err'[q].nil <=> outcome'[q] \in {"none", "result", "nil", "unreadable"}
           /\ op' = op
           /\ pc'[r] = "done" /\ outcome'[r] = o /\ err'[r] = e
           /\ \A q \in Reqs \ {r} : /\ pc'[q] = pc[q]
                                    /\ outcome'[q] = outcome[q] /\ err'[q] = err[q]
<1> USE DEF FinishWith
<1>1. pc' \in [Reqs -> {"idle", "start", "lookup", "running", "done", "sent", "learned", "lost"}]
  BY DEF IInv, TypeOK
<1>2. outcome' \in [Reqs -> Outcomes \cup {"none"}] /\ err' \in [Reqs -> DispatchErrors]
  BY DEF IInv, TypeOK, FieldsOK
<1>3. pc'[r] = "done" /\ outcome'[r] = o /\ err'[r] = e
  BY DEF IInv, TypeOK, FieldsOK
<1>4. \A q \in Reqs \ {r} : pc'[q] = pc[q] /\ outcome'[q] = outcome[q] /\ err'[q] = err[q]
  BY DEF IInv, TypeOK, FieldsOK
<1>5. \A q \in Reqs : err[q].nil <=> outcome[q] \in {"none", "result", "nil", "unreadable"}
  BY DEF IInv, TypeOK
<1>6. ASSUME NEW q \in Reqs
      PROVE  err'[q].nil <=> outcome'[q] \in {"none", "result", "nil", "unreadable"}
  <2>1. CASE q = r
    BY <1>3, <2>1 DEF Outcomes
  <2>2. CASE q # r
    BY <1>4, <1>5, <2>2
  <2> QED BY <2>1, <2>2
<1> QED BY <1>1, <1>2, <1>3, <1>4, <1>6

\* The error that Finish gives agrees with the outcome.
LEMMA FinishIsFinishWith ==
    ASSUME NEW r \in Reqs, NEW o \in {"result", "nil", "notfound", "badparams"}, Finish(r, o)
    PROVE  \E e \in DispatchErrors : FinishWith(r, o, e) /\ (e.nil <=> o \in {"result", "nil"})
<1>1. Wrap(<<ErrMethodNotFound>>).nil = FALSE /\ Wrap(<<ErrInvalidParams>>).nil = FALSE
  BY DEF Wrap, Error
<1>2. NoError.nil = TRUE
  BY DEF NoError
<1>3. CASE o = "notfound"
  BY <1>1, <1>3 DEF Finish, DispatchErrors
<1>4. CASE o = "badparams"
  BY <1>1, <1>4 DEF Finish, DispatchErrors
<1>5. CASE o \in {"result", "nil"}
  BY <1>2, <1>5 DEF Finish, DispatchErrors
<1> QED BY <1>3, <1>4, <1>5

\* The dispatch of r returns one of the outcomes os, with an error that agrees.
Finishes(r, os) ==
    \E o \in os, e \in DispatchErrors :
        FinishWith(r, o, e) /\ (e.nil <=> o \in {"result", "nil"})

\* The dispatch of r goes on in an operation of the given kind.
Runs(r, kind) ==
    /\ op' = [op EXCEPT ![r] = kind]
    /\ pc' = [pc EXCEPT ![r] = "running"]
    /\ UNCHANGED <<outcome, err>>

\* The dispatch of r goes on to the lookup in the ExtensionMux.
LooksUp(r) ==
    /\ pc' = [pc EXCEPT ![r] = "lookup"]
    /\ UNCHANGED <<op, outcome, err>>

\* What each step of a dispatch comes to.
LEMMA DispatchCases ==
    ASSUME NEW r \in Reqs
    PROVE  /\ DispatchKnown(r) =>
                \/ <<Operation(r), Method(r)>> \in Missing /\ Finishes(r, {"notfound"})
                \/ Finishes(r, {"badparams"})
                \/ Runs(r, Operation(r))
           /\ DispatchExtension(r) =>
                \/ Method(r) \notin Extensions /\ Finishes(r, {"notfound"})
                \/ Method(r) \in Extensions /\ Finishes(r, {IF IsCall(r) THEN "notfound" ELSE "nil"})
                \/ Method(r) \in Extensions /\ LooksUp(r)
           /\ Lookup(r) =>
                \/ Finishes(r, {"badparams"})
                \/ Runs(r, msg[r][1])
                \/ /\ ~HasHandler(msg[r][1], Method(r))
                   /\ Finishes(r, {IF IsCall(r) THEN "notfound" ELSE "nil"})
           /\ Return(r) =>
                \/ Finishes(r, {IF op[r] = "call" THEN "result" ELSE "nil"})
                \/ Finishes(r, {"failed"})
<1>1. \A o \in {"result", "nil", "notfound", "badparams"} : Finish(r, o) => Finishes(r, {o})
  BY FinishIsFinishWith DEF Finishes
<1>2. \A k : Invoke(r, k) => Finishes(r, {"badparams"}) \/ Runs(r, k)
  BY <1>1 DEF Invoke, Runs
<1>3. \A e \in HandlerErrors : FinishWith(r, "failed", e) => Finishes(r, {"failed"})
  <2>1. \A e \in HandlerErrors : e.nil = FALSE /\ e \in DispatchErrors
    BY WireAssumption DEF DispatchErrors
  <2> QED BY <2>1 DEF Finishes
<1>4. DispatchKnown(r) => \/ <<Operation(r), Method(r)>> \in Missing /\ Finishes(r, {"notfound"})
                          \/ Finishes(r, {"badparams"})
                          \/ Runs(r, Operation(r))
  BY <1>1, <1>2 DEF DispatchKnown
<1>5. DispatchExtension(r) =>
        \/ Method(r) \notin Extensions /\ Finishes(r, {"notfound"})
        \/ Method(r) \in Extensions /\ Finishes(r, {IF IsCall(r) THEN "notfound" ELSE "nil"})
        \/ Method(r) \in Extensions /\ LooksUp(r)
  BY <1>1 DEF DispatchExtension, LooksUp
<1>6. Lookup(r) => \/ Finishes(r, {"badparams"})
                   \/ Runs(r, msg[r][1])
                   \/ /\ ~HasHandler(msg[r][1], Method(r))
                      /\ Finishes(r, {IF IsCall(r) THEN "notfound" ELSE "nil"})
  BY <1>1, <1>2 DEF Lookup
<1>7. Return(r) => \/ Finishes(r, {IF op[r] = "call" THEN "result" ELSE "nil"})
                   \/ Finishes(r, {"failed"})
  BY <1>1, <1>3 DEF Return
<1> QED BY <1>4, <1>5, <1>6, <1>7

\* What the steps of a dispatch leave alone.
Frame(r) == UNCHANGED <<side, mux, registered, mu, rpc, rkey, rres>>
            /\ \A q \in Reqs \ {r} : Untouched(q)

\* A step of a dispatch keeps the types, and changes its own request only.
LEMMA DispatchTypes ==
    ASSUME IInv, NEW r \in Reqs, DispatchStep(r)
    PROVE  TypeOK' /\ FieldsOK' /\ Frame(r)
<1> USE DEF IInv, TypeOK, FieldsOK, Frame, muxVars
<1>1. ASSUME UNCHANGED <<side, mux, msg, id, answer, learned, muxVars>>,
             NEW os \in SUBSET (Outcomes \ {"unreadable"}), Finishes(r, os)
      PROVE  TypeOK' /\ FieldsOK' /\ Frame(r)
  <2>1. PICK o \in os, e \in DispatchErrors : FinishWith(r, o, e) /\ (e.nil <=> o \in {"result", "nil"})
    BY <1>1 DEF Finishes
  <2>2. o \in Outcomes /\ o # "unreadable"
    OBVIOUS
  <2>3. /\ pc' \in [Reqs -> {"idle", "start", "lookup", "running", "done", "sent",
                             "learned", "lost"}]
        /\ outcome' \in [Reqs -> Outcomes \cup {"none"}]
        /\ err' \in [Reqs -> DispatchErrors]
        /\ \A q \in Reqs : err'[q].nil <=> outcome'[q] \in {"none", "result", "nil", "unreadable"}
        /\ op' = op
        /\ \A q \in Reqs \ {r} : /\ pc'[q] = pc[q]
                                 /\ outcome'[q] = outcome[q] /\ err'[q] = err[q]
    BY <2>1, <2>2, FinishTypes
  <2>4. FieldsOK' /\ Frame(r)
    BY <1>1, <2>3 DEF Untouched
  <2> QED BY <1>1, <2>3, <2>4
<1>2. ASSUME UNCHANGED <<side, mux, msg, id, answer, learned, muxVars>>,
             NEW k \in Kinds, Runs(r, k)
      PROVE  TypeOK' /\ FieldsOK' /\ Frame(r)
  BY <1>2 DEF Runs, Untouched
<1>3. ASSUME UNCHANGED <<side, mux, msg, id, answer, learned, muxVars>>, LooksUp(r)
      PROVE  TypeOK' /\ FieldsOK' /\ Frame(r)
  BY <1>3 DEF LooksUp, Untouched
<1>4. CASE Receive(r)
  <2>1. PICK m \in PeerSends, p \in {"ok", "bad"}, j \in WireIDs \cup {Absent} :
               /\ msg' = [msg EXCEPT ![r] = <<m[1], m[2], p>>]
               /\ id' = [id EXCEPT ![r] = j]
    <3> HIDE DEF IInv, TypeOK, FieldsOK, Frame, muxVars
    <3>1. PICK m \in PeerSends, p \in {"ok", "bad"} :
            \E j \in IF m[1] = "call" THEN WireIDs ELSE {Absent} :
              /\ msg' = [msg EXCEPT ![r] = <<m[1], m[2], p>>]
              /\ id' = [id EXCEPT ![r] = j]
      BY <1>4 DEF Receive
    <3>2. (IF m[1] = "call" THEN WireIDs ELSE {Absent}) \subseteq WireIDs \cup {Absent}
      OBVIOUS
    <3> QED BY <3>1, <3>2
  <2>2. <<m[1], m[2], p>> \in Messages
    BY <2>1, PeerSendsTyped DEF Messages
  <2>3. FieldsOK' /\ Frame(r)
    BY <1>4, <2>1 DEF Receive, Untouched
  <2> QED BY <1>4, <2>1, <2>2, <2>3 DEF Receive
<1>5. CASE ReceiveUnreadable(r)
  <2>1. PICK m \in PeerSends, j \in WireIDs :
               /\ msg' = [msg EXCEPT ![r] = <<m[1], m[2], "ok">>]
               /\ id' = [id EXCEPT ![r] = j]
    BY <1>5 DEF ReceiveUnreadable
  <2>2. <<m[1], m[2], "ok">> \in Messages
    BY <2>1, PeerSendsTyped DEF Messages
  <2>3. FieldsOK' /\ Frame(r)
    BY <1>5, <2>1 DEF ReceiveUnreadable, Untouched
  <2>4. outcome' \in [Reqs -> Outcomes \cup {"none"}]
    BY <1>5 DEF ReceiveUnreadable, Outcomes
  <2>5. outcome[r] = "none"
    BY <1>5 DEF ReceiveUnreadable, RequestOK, OutcomeOK
  <2>6. ASSUME NEW q \in Reqs
        PROVE  err'[q].nil <=> outcome'[q] \in {"none", "result", "nil", "unreadable"}
    BY <1>5, <2>5 DEF ReceiveUnreadable
  <2> QED BY <1>5, <2>1, <2>2, <2>3, <2>4, <2>6 DEF ReceiveUnreadable
<1>6. CASE DispatchKnown(r)
  <2>1. Operation(r) \in Kinds
    BY DEF Operation, Kinds
  <2>2. UNCHANGED <<side, mux, msg, id, answer, learned, muxVars>>
    BY <1>6 DEF DispatchKnown
  <2> QED BY <1>1, <1>2, <1>6, <2>1, <2>2, DispatchCases DEF Outcomes
<1>7. CASE DispatchExtension(r)
  <2>1. UNCHANGED <<side, mux, msg, id, answer, learned, muxVars>>
    BY <1>7 DEF DispatchExtension
  <2> QED BY <1>1, <1>3, <1>7, <2>1, DispatchCases DEF Outcomes
<1>8. CASE Lookup(r)
  <2>1. UNCHANGED <<side, mux, msg, id, answer, learned, muxVars>> /\ pc[r] = "lookup"
    BY <1>8 DEF Lookup
  <2>2. msg[r][1] \in Kinds
    BY <2>1, PeerSendsTyped DEF RequestOK, MessageOK
  <2> QED BY <1>1, <1>2, <1>8, <2>1, <2>2, DispatchCases DEF Outcomes
<1>9. CASE Return(r)
  <2>1. UNCHANGED <<side, mux, msg, id, answer, learned, muxVars>>
    BY <1>9 DEF Return
  <2> QED BY <1>1, <1>9, <2>1, DispatchCases DEF Outcomes
<1>10. CASE Respond(r)
  <2>1. PICK a : answer' = [answer EXCEPT ![r] = a]
    BY <1>10 DEF Respond
  <2>2. FieldsOK' /\ Frame(r)
    BY <1>10, <2>1 DEF Respond, Untouched
  <2> QED BY <1>10, <2>2 DEF Respond
<1>11. CASE Learn(r)
  BY <1>11 DEF Learn, Untouched
<1> QED BY <1>4, <1>5, <1>6, <1>7, <1>8, <1>9, <1>10, <1>11 DEF DispatchStep

-----------------------------------------------------------------------------
(* What is known of a request *)

\* The dispatch function does not change, nor does what the peer sends it.
LEMMA PeerSendsSame == side' = side => PeerSends' = PeerSends /\ Handled' = Handled
BY DEF PeerSends, Handled

\* A request that a step leaves alone is as it should be.
LEMMA UntouchedKeeps ==
    ASSUME NEW q \in Reqs, Untouched(q), side' = side, RequestOK(q)
    PROVE  RequestOK(q)'
<1>1. MessageOK(q)'
  BY PeerSendsSame DEF Untouched, RequestOK, MessageOK, IsCall, Method
<1>2. OutcomeOK(q)'
  BY DEF Untouched, RequestOK, OutcomeOK, IsCall
<1>3. AnswerOK(q)'
  BY DEF Untouched, RequestOK, AnswerOK
<1> QED BY <1>1, <1>2, <1>3 DEF RequestOK

\* The kind of the operation that runs is the message's, if the peer keeps to the
\* generated senders: only a method with two forms needs the ID to tell.
LEMMA OperationFits ==
    ASSUME ~AnyPeer, NEW r \in Reqs, <<msg[r][1], msg[r][2]>> \in PeerSends,
           \E k \in Kinds : <<k, Method(r)>> \in Handled
    PROVE  Operation(r) = msg[r][1] /\ Method(r) \notin Extensions
<1>1. Method(r) \notin Extensions
  BY ExtensionAssumption DEF Handled
<1>2. <<msg[r][1], Method(r)>> \in Handled /\ msg[r][1] \in Kinds
  BY <1>1, TablesAgree, PeerSendsTyped DEF PeerSends, ExtensionSends, Handled, Method
<1> HIDE DEF Handled
<1>3. CASE Kinds \X {Method(r)} \subseteq Handled
  BY <1>1, <1>2, <1>3 DEF Operation, IsCall, Kinds
<1>4. CASE ~(Kinds \X {Method(r)} \subseteq Handled)
  <2>1. ~(<<"call", Method(r)>> \in Handled /\ <<"notify", Method(r)>> \in Handled)
    BY <1>4 DEF Kinds
  <2> QED BY <1>1, <1>2, <1>4, <2>1 DEF Operation, Kinds
<1> QED BY <1>1, <1>3, <1>4

\* A message that the generated senders send and no switch has a case for is an
\* extension's.
LEMMA UnknownIsExtension ==
    ASSUME ~AnyPeer, NEW r \in Reqs, <<msg[r][1], msg[r][2]>> \in PeerSends,
           \A k \in Kinds : <<k, Method(r)>> \notin Handled
    PROVE  Method(r) \in Extensions
<1>1. msg[r][1] \in Kinds
  BY PeerSendsTyped
<1> QED BY <1>1, TablesAgree DEF PeerSends, ExtensionSends, Handled, Method

\* What a dispatch that returns sets.
LEMMA FinishesSets ==
    ASSUME IInv, NEW r \in Reqs, NEW os \in SUBSET (Outcomes \ {"unreadable"}), Finishes(r, os)
    PROVE  pc'[r] = "done" /\ outcome'[r] \in os /\ op' = op
<1>1. PICK o \in os, e \in DispatchErrors : FinishWith(r, o, e) /\ (e.nil <=> o \in {"result", "nil"})
  BY DEF Finishes
<1>2. o \in Outcomes /\ o # "unreadable"
  OBVIOUS
<1> QED BY <1>1, <1>2, FinishTypes

\* A request whose dispatch returns, runs or looks up stays as it should be.
LEMMA DispatchingKeeps ==
    ASSUME IInv, NEW r \in Reqs, UNCHANGED <<side, msg, id, answer, learned>>,
           pc[r] \in {"start", "lookup", "running"},
           \/ \E os \in SUBSET (Outcomes \ {"unreadable"}) : Finishes(r, os)
           \/ LooksUp(r) /\ Method(r) \in Extensions
           \/ \E k \in Kinds : Runs(r, k) /\ (~AnyPeer => k = msg[r][1])
    PROVE  RequestOK(r)'
<1>1. RequestOK(r)
  BY DEF IInv
<1>2. \/ pc'[r] = "done" /\ outcome'[r] \in Outcomes \ {"unreadable"}
      \/ pc'[r] = "lookup" /\ outcome'[r] = outcome[r] /\ Method(r) \in Extensions
      \/ /\ pc'[r] = "running" /\ outcome'[r] = outcome[r]
         /\ op'[r] \in Kinds /\ (~AnyPeer => op'[r] = msg[r][1])
  <2>1. CASE \E os \in SUBSET (Outcomes \ {"unreadable"}) : Finishes(r, os)
    BY <2>1, FinishesSets
  <2>2. CASE LooksUp(r) /\ Method(r) \in Extensions
    BY <2>2 DEF LooksUp, IInv, TypeOK
  <2>3. CASE \E k \in Kinds : Runs(r, k) /\ (~AnyPeer => k = msg[r][1])
    <3>1. PICK k \in Kinds : Runs(r, k) /\ (~AnyPeer => k = msg[r][1])
      BY <2>3
    <3> QED BY <3>1 DEF Runs, IInv, TypeOK
  <2> QED BY <2>1, <2>2, <2>3
<1>3. MessageOK(r)'
  BY <1>1, <1>2, PeerSendsSame DEF RequestOK, MessageOK, IsCall, Method
<1>4. OutcomeOK(r)'
  BY <1>1, <1>2 DEF RequestOK, OutcomeOK, Outcomes
<1>5. AnswerOK(r)'
  BY <1>2 DEF AnswerOK
<1> QED BY <1>3, <1>4, <1>5 DEF RequestOK

\* Every step of a dispatch leaves its request as it should be.
LEMMA RequestStep ==
    ASSUME IInv, NEW r \in Reqs, DispatchStep(r)
    PROVE  RequestOK(r)'
<1>1. RequestOK(r) /\ side' = side
  BY DispatchTypes DEF IInv, Frame
<1>2. CASE Receive(r)
  <2>1. PICK m \in PeerSends, p \in {"ok", "bad"} :
          \E j \in IF m[1] = "call" THEN WireIDs ELSE {Absent} :
            msg' = [msg EXCEPT ![r] = <<m[1], m[2], p>>] /\ id' = [id EXCEPT ![r] = j]
    BY <1>2 DEF Receive
  <2>2. m = <<m[1], m[2]>>
    BY PeerSendsTyped
  <2>3. msg'[r] = <<m[1], m[2], p>> /\ (m[1] = "call" => id'[r] \in WireIDs)
    BY <2>1 DEF IInv, TypeOK
  <2>4. pc'[r] = "start" /\ outcome'[r] = "none"
    BY <1>1, <1>2 DEF Receive, IInv, TypeOK, RequestOK, OutcomeOK
  <2>5. MessageOK(r)'
    BY <1>1, <2>2, <2>3, <2>4, PeerSendsSame DEF MessageOK, IsCall
  <2>6. OutcomeOK(r)' /\ AnswerOK(r)'
    BY <2>4 DEF OutcomeOK, AnswerOK
  <2> QED BY <2>5, <2>6 DEF RequestOK
<1>3. CASE ReceiveUnreadable(r)
  <2>1. PICK m \in PeerSends, j \in WireIDs :
          /\ DecodeMessage(EncodeRequest(j, m[2])).kind # "request"
          /\ msg' = [msg EXCEPT ![r] = <<m[1], m[2], "ok">>] /\ id' = [id EXCEPT ![r] = j]
    BY <1>3 DEF ReceiveUnreadable
  <2>2. m = <<m[1], m[2]>>
    BY PeerSendsTyped
  <2>3. msg'[r] = <<m[1], m[2], "ok">> /\ id'[r] = j
    BY <2>1 DEF IInv, TypeOK
  <2>4. pc'[r] = "lost"
    BY <1>3 DEF ReceiveUnreadable, IInv, TypeOK
  <2>5. m[2] # ""
    <3>1. \A o \in ClientSends \cup AgentSends : o[2] # ""
      BY DEF ClientSends, AgentSends
    <3> QED BY <3>1, PeerSendsTyped, DispatchAssumption
  <2>6. ~Exact(j)
    BY <2>1, <2>5, ExactIsReadable
  <2>7. MessageOK(r)'
    BY <1>1, <2>2, <2>3, <2>4, <2>6, PeerSendsSame DEF MessageOK, Exact
  <2>8. OutcomeOK(r)' /\ AnswerOK(r)'
    BY <2>4 DEF OutcomeOK, AnswerOK
  <2> QED BY <2>7, <2>8 DEF RequestOK
<1>4. CASE DispatchKnown(r)
  <2>1. /\ UNCHANGED <<side, msg, id, answer, learned>> /\ pc[r] = "start"
        /\ \E k \in Kinds : <<k, Method(r)>> \in Handled
    BY <1>4 DEF DispatchKnown
  <2>2. Operation(r) \in Kinds
    BY DEF Operation, Kinds
  <2>3. ~AnyPeer => Operation(r) = msg[r][1]
    BY <1>1, <2>1, OperationFits DEF RequestOK, MessageOK
  <2>4. Finishes(r, {"notfound"}) \/ Finishes(r, {"badparams"}) \/ Runs(r, Operation(r))
    BY <1>4, DispatchCases
  <2> QED BY <2>1, <2>2, <2>3, <2>4, DispatchingKeeps DEF Outcomes
<1>5. CASE DispatchExtension(r)
  <2>1. UNCHANGED <<side, msg, id, answer, learned>> /\ pc[r] = "start"
    BY <1>5 DEF DispatchExtension
  <2>2. \/ Finishes(r, {"notfound"}) \/ Finishes(r, {"nil"})
        \/ LooksUp(r) /\ Method(r) \in Extensions
    BY <1>5, DispatchCases
  <2> QED BY <2>1, <2>2, DispatchingKeeps DEF Outcomes
<1>6. CASE Lookup(r)
  <2>1. UNCHANGED <<side, msg, id, answer, learned>> /\ pc[r] = "lookup"
    BY <1>6 DEF Lookup
  <2>2. msg[r][1] \in Kinds
    BY <1>1, <2>1, PeerSendsTyped DEF RequestOK, MessageOK
  <2>3. \/ Finishes(r, {"badparams"}) \/ Runs(r, msg[r][1])
        \/ Finishes(r, {"notfound"}) \/ Finishes(r, {"nil"})
    BY <1>6, DispatchCases
  <2> QED BY <2>1, <2>2, <2>3, DispatchingKeeps DEF Outcomes
<1>7. CASE Return(r)
  <2>1. UNCHANGED <<side, msg, id, answer, learned>> /\ pc[r] = "running"
    BY <1>7 DEF Return
  <2>2. Finishes(r, {"result"}) \/ Finishes(r, {"nil"}) \/ Finishes(r, {"failed"})
    BY <1>7, DispatchCases
  <2> QED BY <2>1, <2>2, DispatchingKeeps DEF Outcomes
<1>8. CASE Respond(r)
  <2>1. PICK result \in IF outcome[r] = "result" THEN {"value", "null"} ELSE {"absent"} :
          answer' = [answer EXCEPT ![r] = EncodeResponse(MakeID(id[r]), result, err[r])]
    BY <1>8 DEF Respond
  <2>2. answer'[r] = EncodeResponse(MakeID(id[r]), result, err[r])
    BY <2>1 DEF IInv, FieldsOK
  <2>3. /\ pc[r] = "done" /\ pc'[r] = "sent" /\ IsCall(r) /\ outcome[r] # "nil"
        /\ UNCHANGED <<msg, id, outcome, err, op>>
    BY <1>8 DEF Respond, IInv, TypeOK
  <2>4. MessageOK(r)'
    BY <1>1, <2>3, PeerSendsSame DEF RequestOK, MessageOK, IsCall
  <2>5. OutcomeOK(r)'
    BY <1>1, <2>3 DEF RequestOK, OutcomeOK, IsCall
  <2>6. AnswerOK(r)'
    BY <2>2, <2>3 DEF AnswerOK
  <2> QED BY <2>4, <2>5, <2>6 DEF RequestOK
<1>9. CASE Learn(r)
  <2>1. pc[r] = "sent" /\ UNCHANGED <<msg, id, outcome, err, op, answer>>
    BY <1>9 DEF Learn
  <2>2. IsCall(r) /\ id[r] \in WireIDs /\ IsCall(r)'
    BY <1>1, <2>1 DEF RequestOK, OutcomeOK, MessageOK, IsCall
  <2>3. \/ pc'[r] = "learned" /\ learned'[r] = call(DecodeMessage(answer[r]))
        \/ pc'[r] = "lost" /\ answer[r].id # id[r]
    BY <1>9 DEF Learn, IInv, TypeOK, FieldsOK
  <2>4. answer[r].id = EncodeID(MakeID(id[r]))
    <3>1. \A i, result, e : EncodeResponse(i, result, e).id = EncodeID(i)
      BY DEF EncodeResponse
    <3> QED BY <1>1, <2>1, <3>1 DEF RequestOK, AnswerOK
  <2>5. pc'[r] = "lost" => ~Exact(id[r])
    BY <2>2, <2>3, <2>4, ExactIDs
  <2>6. MessageOK(r)'
    BY <1>1, <2>1, <2>2, <2>3, <2>5, PeerSendsSame DEF RequestOK, MessageOK, Exact
  <2>7. OutcomeOK(r)'
    BY <1>1, <2>1, <2>2, <2>3 DEF RequestOK, OutcomeOK
  <2>8. AnswerOK(r)'
    BY <1>1, <2>1, <2>3 DEF RequestOK, AnswerOK
  <2> QED BY <2>6, <2>7, <2>8 DEF RequestOK
<1> QED BY <1>2, <1>3, <1>4, <1>5, <1>6, <1>7, <1>8, <1>9 DEF DispatchStep

\* Between the generated senders and the generated switches, every dispatch returns
\* what Handler's contract asks for, and finds a case for what is no extension.
LEMMA ContractStep ==
    ASSUME IInv, ~AnyPeer, NEW r \in Reqs, DispatchStep(r)
    PROVE  ContractKept' /\ SentIsHandled'
<1> DEFINE Kept(q) ==
             pc[q] = "done" =>
               outcome[q] \in {"notfound", "badparams", "failed"}
                                \cup (IF IsCall(q) THEN {"result"} ELSE {"nil"})
           Found(q) ==
             outcome[q] = "notfound" /\ Method(q) \notin Extensions
               => <<msg[q][1], Method(q)>> \in Missing
<1>1. \A q \in Reqs : Kept(q) /\ Found(q)
  BY DEF IInv, ContractKept, ContractFor, SentIsHandled
<1>2. ASSUME NEW q \in Reqs \ {r}
      PROVE  (Kept(q) /\ Found(q))'
  BY <1>1, DispatchTypes DEF Frame, Untouched, IsCall, Method
<1> SUFFICES (Kept(r) /\ Found(r))'
  <2>1. ASSUME (Kept(r) /\ Found(r))', NEW q \in Reqs PROVE (Kept(q) /\ Found(q))'
    BY <1>2, <2>1
  <2> QED BY <2>1 DEF ContractKept, ContractFor, SentIsHandled
<1>3. RequestOK(r)
  BY DEF IInv
<1>4. ASSUME NEW os \in SUBSET (Outcomes \ {"unreadable"}), Finishes(r, os), msg' = msg,
             os \subseteq {"notfound", "badparams", "failed"}
                            \cup (IF IsCall(r) THEN {"result"} ELSE {"nil"}),
             "notfound" \in os /\ Method(r) \notin Extensions => <<msg[r][1], Method(r)>> \in Missing
      PROVE  (Kept(r) /\ Found(r))'
  <2>1. pc'[r] = "done" /\ outcome'[r] \in os
    BY <1>4, FinishesSets
  <2> QED BY <1>4, <2>1 DEF IsCall, Method
<1>5. ASSUME pc'[r] # "done", outcome'[r] # "notfound"
      PROVE  (Kept(r) /\ Found(r))'
  BY <1>5
<1>6. ASSUME Runs(r, "call") \/ Runs(r, "notify") \/ LooksUp(r), outcome[r] = "none"
      PROVE  (Kept(r) /\ Found(r))'
  BY <1>5, <1>6 DEF Runs, LooksUp, IInv, TypeOK
<1>7. pc[r] \in {"idle", "start", "lookup", "running"} => outcome[r] = "none"
  BY <1>3 DEF RequestOK, OutcomeOK
<1> HIDE DEF Kept, Found
<1>8. CASE Receive(r) \/ ReceiveUnreadable(r)
  <2>1. pc'[r] # "done" /\ outcome'[r] \in {"none", "unreadable"}
    BY <1>7, <1>8 DEF Receive, ReceiveUnreadable, IInv, TypeOK
  <2> QED BY <1>5, <2>1
<1>9. CASE DispatchKnown(r)
  <2>1. pc[r] = "start" /\ msg' = msg /\ \E k \in Kinds : <<k, Method(r)>> \in Handled
    BY <1>9 DEF DispatchKnown
  <2>2. Operation(r) = msg[r][1] /\ msg[r][1] \in {"call", "notify"}
    BY <1>3, <2>1, OperationFits, PeerSendsTyped DEF RequestOK, MessageOK, Kinds
  <2>3. CASE <<Operation(r), Method(r)>> \in Missing /\ Finishes(r, {"notfound"})
    BY <1>4, <2>1, <2>2, <2>3 DEF Outcomes
  <2>4. CASE Finishes(r, {"badparams"})
    BY <1>4, <2>1, <2>4 DEF Outcomes
  <2>5. CASE Runs(r, Operation(r))
    BY <1>6, <1>7, <2>1, <2>2, <2>5
  <2> QED BY <1>9, <2>3, <2>4, <2>5, DispatchCases
<1>10. CASE DispatchExtension(r)
  <2>1. /\ pc[r] = "start" /\ msg' = msg
        /\ \A k \in Kinds : <<k, Method(r)>> \notin Handled
    BY <1>10 DEF DispatchExtension
  <2>2. Method(r) \in Extensions
    BY <1>3, <2>1, UnknownIsExtension DEF RequestOK, MessageOK
  <2>3. CASE Finishes(r, {IF IsCall(r) THEN "notfound" ELSE "nil"})
    BY <1>4, <2>1, <2>2, <2>3 DEF Outcomes
  <2>4. CASE LooksUp(r)
    BY <1>6, <1>7, <2>1, <2>4
  <2> QED BY <1>10, <2>2, <2>3, <2>4, DispatchCases
<1>11. CASE Lookup(r)
  <2>1. pc[r] = "lookup" /\ msg' = msg
    BY <1>11 DEF Lookup
  <2>2. msg[r][1] \in {"call", "notify"}
    BY <1>3, <2>1, PeerSendsTyped DEF RequestOK, MessageOK, Kinds
  <2>3. CASE Finishes(r, {"badparams"})
    BY <1>4, <2>1, <2>3 DEF Outcomes
  <2>4. CASE Runs(r, msg[r][1])
    BY <1>6, <1>7, <2>1, <2>2, <2>4
  <2>5. CASE Finishes(r, {IF IsCall(r) THEN "notfound" ELSE "nil"})
    <3>1. Method(r) \in Extensions
      BY <1>3, <2>1 DEF RequestOK, MessageOK
    <3> QED BY <1>4, <2>1, <2>5, <3>1 DEF Outcomes
  <2> QED BY <1>11, <2>3, <2>4, <2>5, DispatchCases
<1>12. CASE Return(r)
  <2>1. pc[r] = "running" /\ msg' = msg
    BY <1>12 DEF Return
  <2>2. op[r] = msg[r][1] /\ op[r] \in {"call", "notify"}
    BY <1>3, <2>1 DEF RequestOK, OutcomeOK, Kinds
  <2>3. CASE Finishes(r, {IF op[r] = "call" THEN "result" ELSE "nil"})
    BY <1>4, <2>1, <2>2, <2>3 DEF Outcomes, IsCall
  <2>4. CASE Finishes(r, {"failed"})
    BY <1>4, <2>1, <2>4 DEF Outcomes
  <2> QED BY <1>12, <2>3, <2>4, DispatchCases
<1>13. CASE Respond(r) \/ Learn(r)
  <2>1. pc'[r] # "done" /\ UNCHANGED <<outcome, msg>>
    BY <1>13 DEF Respond, Learn, IInv, TypeOK
  <2> QED BY <1>1, <2>1 DEF Kept, Found, Method
<1> QED BY <1>8, <1>9, <1>10, <1>11, <1>12, <1>13 DEF DispatchStep

-----------------------------------------------------------------------------
(* Peers that do not keep to the generated senders *)

\* Whether the generated switch has a case for the method, and as what it takes the
\* message: only a method with two forms is told apart by the ID.
Known(r) == \E k \in Kinds : <<k, Method(r)>> \in Handled
Taken(r) == IF Known(r) THEN Operation(r) ELSE msg[r][1]
Failures == {"notfound", "badparams", "failed"}

\* A dispatch runs and returns what the message was taken for.
TakenOK(r) ==
    /\ pc[r] = "lookup" => ~Known(r)
    /\ pc[r] = "running" => op[r] = Taken(r)
    /\ pc[r] = "done" =>
         outcome[r] \in Failures \cup {IF Taken(r) = "call" THEN "result" ELSE "nil"}

\* As long as the message of a request and the dispatch function are what they were, it
\* is taken for the same.
LEMMA TakenSame ==
    ASSUME NEW r \in Reqs, side' = side, msg'[r] = msg[r]
    PROVE  Known(r)' = Known(r) /\ Taken(r)' = Taken(r)
<1>1. Handled' = Handled /\ Method(r)' = Method(r) /\ IsCall(r)' = IsCall(r)
  BY PeerSendsSame DEF Method, IsCall
<1> HIDE DEF Handled
<1>2. Known(r)' = Known(r)
  BY <1>1 DEF Known
<1>3. Operation(r)' = Operation(r)
  BY <1>1 DEF Operation
<1> QED BY <1>2, <1>3 DEF Taken

\* A step of a dispatch goes on as what the message was taken for.
LEMMA TakenStep ==
    ASSUME IInv, NEW r \in Reqs, DispatchStep(r), TakenOK(r)
    PROVE  TakenOK(r)'
<1> USE DEF IInv, TypeOK
<1>1. side' = side
  BY DispatchTypes DEF Frame
<1>2. ASSUME NEW os \in SUBSET (Outcomes \ {"unreadable"}), Finishes(r, os), msg' = msg,
             os \subseteq Failures \cup {IF Taken(r) = "call" THEN "result" ELSE "nil"}
      PROVE  TakenOK(r)'
  <2>1. pc'[r] = "done" /\ outcome'[r] \in os
    BY <1>2, FinishesSets
  <2>2. Taken(r)' = Taken(r)
    BY <1>1, <1>2, TakenSame
  <2> QED BY <1>2, <2>1, <2>2 DEF TakenOK
<1>3. ASSUME Runs(r, Taken(r)), msg' = msg
      PROVE  TakenOK(r)'
  <2>1. pc'[r] = "running" /\ op'[r] = Taken(r)
    BY <1>3 DEF Runs
  <2>2. Taken(r)' = Taken(r)
    BY <1>1, <1>3, TakenSame
  <2> QED BY <2>1, <2>2 DEF TakenOK
<1>4. ASSUME pc'[r] \notin {"lookup", "running", "done"}
      PROVE  TakenOK(r)'
  BY <1>4 DEF TakenOK
<1>5. {"notfound"} \subseteq Failures /\ {"badparams"} \subseteq Failures /\ {"failed"} \subseteq Failures
  BY DEF Failures
<1>6. CASE Receive(r) \/ ReceiveUnreadable(r) \/ Respond(r) \/ Learn(r)
  BY <1>4, <1>6 DEF Receive, ReceiveUnreadable, Respond, Learn
<1>7. CASE DispatchKnown(r)
  <2>1. msg' = msg /\ Known(r)
    BY <1>7 DEF DispatchKnown, Known
  <2>2. Taken(r) = Operation(r)
    BY <2>1 DEF Taken
  <2>3. Finishes(r, {"notfound"}) \/ Finishes(r, {"badparams"}) \/ Runs(r, Operation(r))
    BY <1>7, DispatchCases
  <2> QED BY <1>2, <1>3, <1>5, <2>1, <2>2, <2>3 DEF Outcomes
<1>8. CASE DispatchExtension(r)
  <2>1. msg' = msg /\ ~Known(r) /\ pc[r] = "start"
    BY <1>8 DEF DispatchExtension, Known
  <2>2. Taken(r) = msg[r][1]
    BY <2>1 DEF Taken
  <2>3. CASE Finishes(r, {"notfound"})
    BY <1>2, <1>5, <2>1, <2>3 DEF Outcomes
  <2>4. CASE Finishes(r, {IF IsCall(r) THEN "notfound" ELSE "nil"})
    BY <1>2, <1>5, <2>1, <2>2, <2>4 DEF Outcomes, IsCall
  <2>5. CASE LooksUp(r)
    <3>1. pc'[r] = "lookup"
      BY <2>5 DEF LooksUp
    <3>2. ~Known(r)'
      BY <1>1, <2>1, TakenSame
    <3> QED BY <3>1, <3>2 DEF TakenOK
  <2> QED BY <1>8, <2>3, <2>4, <2>5, DispatchCases
<1>9. CASE Lookup(r)
  <2>1. msg' = msg /\ ~Known(r)
    BY <1>9 DEF Lookup, TakenOK
  <2>2. Taken(r) = msg[r][1]
    BY <2>1 DEF Taken
  <2>3. CASE Finishes(r, {"badparams"})
    BY <1>2, <1>5, <2>1, <2>3 DEF Outcomes
  <2>4. CASE Runs(r, msg[r][1])
    BY <1>3, <2>1, <2>2, <2>4
  <2>5. CASE Finishes(r, {IF IsCall(r) THEN "notfound" ELSE "nil"})
    BY <1>2, <1>5, <2>1, <2>2, <2>5 DEF Outcomes, IsCall
  <2> QED BY <1>9, <2>3, <2>4, <2>5, DispatchCases
<1>10. CASE Return(r)
  <2>1. msg' = msg /\ op[r] = Taken(r)
    BY <1>10 DEF Return, TakenOK
  <2>2. CASE Finishes(r, {IF op[r] = "call" THEN "result" ELSE "nil"})
    BY <1>2, <2>1, <2>2 DEF Outcomes
  <2>3. CASE Finishes(r, {"failed"})
    BY <1>2, <1>5, <2>1, <2>3 DEF Outcomes
  <2> QED BY <1>10, <2>2, <2>3, DispatchCases
<1> QED BY <1>6, <1>7, <1>8, <1>9, <1>10 DEF DispatchStep

-----------------------------------------------------------------------------
(* ExtensionMux *)

\* Steps of a dispatch and of Rest do not touch the ExtensionMux.
LEMMA MuxSame ==
    ASSUME IInv, UNCHANGED muxVars
    PROVE  RegisteredOK' /\ \A g \in Registrants : RegistrantOK(g)'
<1>1. RegisteredOK'
  BY DEF IInv, RegisteredOK, muxVars
<1>2. \A g \in Registrants : RegistrantOK(g)'
  BY DEF IInv, RegistrantOK, HasHandler, muxVars
<1> QED BY <1>1, <1>2

\* Steps of a registration, and of Rest, do not touch a dispatch.
LEMMA DispatchSame ==
    ASSUME IInv, UNCHANGED dispatchVars
    PROVE  /\ FieldsOK'
           /\ \A r \in Reqs : RequestOK(r)'
           /\ ~AnyPeer => ContractKept' /\ SentIsHandled'
<1> USE DEF IInv, dispatchVars
<1>1. FieldsOK'
  BY DEF FieldsOK
<1>2. \A r \in Reqs : RequestOK(r)'
  BY UntouchedKeeps DEF Untouched
<1>3. ~AnyPeer => ContractKept' /\ SentIsHandled'
  BY DEF ContractKept, ContractFor, SentIsHandled, IsCall, Method
<1> QED BY <1>1, <1>2, <1>3

\* A step of one registration keeps what is known of all of them: the lock is held
\* from the lookup of a name to its registration.
LEMMA RegisterKeeps ==
    ASSUME IInv, NEW g \in Registrants, RegisterStep(g)
    PROVE  /\ TypeOK' /\ RegisteredOK'
           /\ \A h \in Registrants : RegistrantOK(h)'
<1>1. /\ registered \subseteq Kinds \X Extensions \X Registrants
      /\ mu \in Registrants \cup {Nobody}
      /\ rpc \in [Registrants -> {"idle", "lock", "check", "write", "done"}]
      /\ rkey \in [Registrants -> (Kinds \X (Extensions \cup {"other"})) \cup {NoKey}]
      /\ rres \in [Registrants -> {"none", "ok", "invalid", "duplicate"}]
  BY DEF IInv, TypeOK
<1>2. RegisteredOK /\ \A h \in Registrants : RegistrantOK(h)
  BY DEF IInv
<1>3. UNCHANGED dispatchVars
  BY DEF RegisterStep, Register, RegisterLock, RegisterCheck, RegisterWrite
<1>4. ASSUME registered' \subseteq Kinds \X Extensions \X Registrants,
             mu' \in Registrants \cup {Nobody},
             rpc' \in [Registrants -> {"idle", "lock", "check", "write", "done"}],
             rkey' \in [Registrants -> (Kinds \X (Extensions \cup {"other"})) \cup {NoKey}],
             rres' \in [Registrants -> {"none", "ok", "invalid", "duplicate"}]
      PROVE  TypeOK'
  BY <1>3, <1>4 DEF IInv, TypeOK, dispatchVars
<1>5. Nobody \notin Registrants
  BY DispatchAssumption
<1>6. CASE Register(g)
  <2>1. PICK key \in Kinds \X (Extensions \cup {"other"}) :
          /\ rkey' = [rkey EXCEPT ![g] = key]
          /\ \/ /\ key[2] \in Extensions
                /\ rpc' = [rpc EXCEPT ![g] = "lock"] /\ UNCHANGED rres
             \/ /\ rres' = [rres EXCEPT ![g] = "invalid"]
                /\ rpc' = [rpc EXCEPT ![g] = "done"]
    BY <1>6 DEF Register, validateExtensionMethod
  <2>2. rpc[g] = "idle" /\ registered' = registered /\ mu' = mu
    BY <1>6 DEF Register
  <2>3. TypeOK'
    BY <1>1, <1>4, <2>1, <2>2
  <2>4. rres[g] = "none"
    BY <1>2, <2>2 DEF RegistrantOK
  <2>5. RegisteredOK'
    BY <1>1, <1>2, <2>1, <2>2, <2>4 DEF RegisteredOK
  <2>6. ASSUME NEW h \in Registrants PROVE RegistrantOK(h)'
    <3>1. CASE h = g
      <4>1. key[2] \in Extensions => key \in Kinds \X Extensions
        BY <2>1
      <4> QED BY <1>1, <1>2, <2>1, <2>2, <2>4, <3>1, <4>1 DEF RegistrantOK
    <3>2. CASE h # g
      BY <1>1, <1>2, <2>1, <2>2, <3>2 DEF RegistrantOK, HasHandler
    <3> QED BY <3>1, <3>2
  <2> QED BY <2>3, <2>5, <2>6
<1>7. CASE RegisterLock(g)
  <2>1. /\ rpc[g] = "lock" /\ mu = Nobody
        /\ mu' = g /\ rpc' = [rpc EXCEPT ![g] = "check"]
        /\ UNCHANGED <<registered, rkey, rres>>
    BY <1>7 DEF RegisterLock, MuFree
  <2>2. TypeOK'
    BY <1>1, <1>4, <2>1
  <2>3. RegisteredOK'
    BY <1>2, <2>1 DEF RegisteredOK
  <2>4. ASSUME NEW h \in Registrants PROVE RegistrantOK(h)'
    BY <1>1, <1>2, <1>5, <2>1 DEF RegistrantOK, HasHandler
  <2> QED BY <2>2, <2>3, <2>4
<1>8. CASE RegisterCheck(g)
  <2>1. /\ rpc[g] = "check"
        /\ UNCHANGED <<registered, rkey>>
        /\ \/ /\ rres' = [rres EXCEPT ![g] = "duplicate"]
              /\ rpc' = [rpc EXCEPT ![g] = "done"]
              /\ mu' = Nobody
           \/ /\ ~HasHandler(rkey[g][1], rkey[g][2])
              /\ rpc' = [rpc EXCEPT ![g] = "write"]
              /\ UNCHANGED <<rres, mu>>
    BY <1>8 DEF RegisterCheck
  <2>2. TypeOK'
    BY <1>1, <1>4, <2>1
  <2>3. rres[g] = "none" /\ mu = g
    BY <1>2, <2>1 DEF RegistrantOK
  <2>4. RegisteredOK'
    BY <1>1, <1>2, <2>1, <2>3 DEF RegisteredOK
  <2>5. ASSUME NEW h \in Registrants PROVE RegistrantOK(h)'
    BY <1>1, <1>2, <1>5, <2>1, <2>3 DEF RegistrantOK, HasHandler
  <2> QED BY <2>2, <2>4, <2>5
<1>9. CASE RegisterWrite(g)
  <2> DEFINE entry == <<rkey[g][1], rkey[g][2], g>>
  <2>1. /\ rpc[g] = "write"
        /\ registered' = {x \in registered : <<x[1], x[2]>> # rkey[g]} \cup {entry}
        /\ rres' = [rres EXCEPT ![g] = "ok"]
        /\ rpc' = [rpc EXCEPT ![g] = "done"]
        /\ mu' = Nobody /\ rkey' = rkey
    BY <1>9 DEF RegisterWrite
  <2>2. /\ rkey[g] \in Kinds \X Extensions /\ mu = g
        /\ ~HasHandler(rkey[g][1], rkey[g][2])
    BY <1>2, <2>1 DEF RegistrantOK
  <2>3. registered' = registered \cup {entry}
    BY <2>1, <2>2 DEF HasHandler
  <2>4. entry \in Kinds \X Extensions \X Registrants
    BY <2>2
  <2>5. TypeOK'
    BY <1>1, <1>4, <2>1, <2>3, <2>4
  <2>6. RegisteredOK'
    <3>1. ASSUME NEW x \in registered'
          PROVE  (rres[x[3]] = "ok" /\ rkey[x[3]] = <<x[1], x[2]>>)'
      <4>1. CASE x = entry
        BY <1>1, <2>1, <2>2, <4>1
      <4>2. CASE x \in registered
        BY <1>1, <1>2, <2>1, <4>2 DEF RegisteredOK
      <4> QED BY <2>3, <4>1, <4>2
    <3> QED BY <3>1 DEF RegisteredOK
  <2>7. ASSUME NEW h \in Registrants PROVE RegistrantOK(h)'
    <3>1. CASE h = g
      BY <1>1, <1>5, <2>1, <2>3, <3>1 DEF RegistrantOK
    <3>2. CASE h # g
      <4>1. rpc'[h] = rpc[h] /\ rres'[h] = rres[h] /\ rpc[h] \notin {"check", "write"}
        BY <1>1, <1>2, <2>1, <2>2, <3>2 DEF RegistrantOK
      <4> QED BY <1>2, <1>5, <2>1, <2>3, <3>2, <4>1 DEF RegistrantOK
    <3> QED BY <3>1, <3>2
  <2> QED BY <2>5, <2>6, <2>7
<1> QED BY <1>6, <1>7, <1>8, <1>9 DEF RegisterStep

-----------------------------------------------------------------------------
(* Theorems *)

\* What is known of the messages, their dispatch, their answers and the ExtensionMux
\* holds in every state.
THEOREM DispatchInvariant == Spec => []IInv
<1>1. Init => IInv
  <2> SUFFICES ASSUME Init PROVE IInv
    OBVIOUS
  <2>1. NoError.nil
    BY DEF NoError
  <2>2. TypeOK
    BY <2>1 DEF Init, TypeOK
  <2>3. FieldsOK /\ RegisteredOK
    BY DEF Init, FieldsOK, RegisteredOK, DispatchErrors
  <2>4. \A r \in Reqs : RequestOK(r)
    BY DEF Init, RequestOK, MessageOK, OutcomeOK, AnswerOK
  <2>5. \A g \in Registrants : RegistrantOK(g)
    BY DispatchAssumption DEF Init, RegistrantOK
  <2>6. ContractKept /\ SentIsHandled
    BY DEF Init, ContractKept, SentIsHandled
  <2> QED BY <2>2, <2>3, <2>4, <2>5, <2>6 DEF IInv
<1>2. IInv /\ [Next]_vars => IInv'
  <2> SUFFICES ASSUME IInv, [Next]_vars PROVE IInv'
    OBVIOUS
  <2>1. ASSUME NEW r \in Reqs, DispatchStep(r) PROVE IInv'
    <3>1. TypeOK' /\ FieldsOK' /\ Frame(r)
      BY <2>1, DispatchTypes
    <3>2. ASSUME NEW q \in Reqs PROVE RequestOK(q)'
      <4>1. CASE q = r
        BY <2>1, <4>1, RequestStep
      <4>2. CASE q # r
        BY <3>1, <4>2, UntouchedKeeps DEF Frame, IInv
      <4> QED BY <4>1, <4>2
    <3>3. RegisteredOK' /\ \A g \in Registrants : RegistrantOK(g)'
      BY <3>1, MuxSame DEF Frame, muxVars
    <3>4. ~AnyPeer => ContractKept' /\ SentIsHandled'
      BY <2>1, ContractStep
    <3> QED BY <3>1, <3>2, <3>3, <3>4 DEF IInv
  <2>2. ASSUME NEW g \in Registrants, RegisterStep(g) PROVE IInv'
    <3>1. UNCHANGED dispatchVars
      BY <2>2 DEF RegisterStep, Register, RegisterLock, RegisterCheck, RegisterWrite
    <3> QED BY <2>2, <3>1, RegisterKeeps, DispatchSame DEF IInv
  <2>3. CASE UNCHANGED vars
    <3>1. UNCHANGED dispatchVars /\ UNCHANGED muxVars
      BY <2>3 DEF vars, dispatchVars, muxVars
    <3>2. TypeOK'
      BY <3>1 DEF IInv, TypeOK, dispatchVars, muxVars
    <3> QED BY <3>1, <3>2, DispatchSame, MuxSame DEF IInv
  <2> QED BY <2>1, <2>2, <2>3 DEF Next, Rest
<1> QED BY <1>1, <1>2, PTL DEF Spec

\* Every variable stays in its type: no handler is registered under a name that does
\* not begin with an underscore, and an error is there exactly if the outcome is one.
THEOREM TypeCorrect == Spec => []TypeOK
<1>1. IInv => TypeOK
  BY DEF IInv
<1> QED BY DispatchInvariant, <1>1, PTL

\* Between the generated senders and the generated switches, Handler's contract is
\* kept, whatever the handler implements, returns and is asked to register.
THEOREM ContractIsKept == ASSUME ~AnyPeer PROVE Spec => []ContractKept
<1>1. IInv => ContractKept
  BY DEF IInv
<1> QED BY DispatchInvariant, <1>1, PTL

\* Whatever the peer sends, Handler's contract is broken exactly by the handlers that
\* succeed with a message whose ID does not fit its method: the generated switch takes
\* it for the other kind, so that a call gets neither a result nor an error, or a
\* notification a result, and processResult panics.
THEOREM MisfitsBreakContract ==
    Spec => [](\A r \in Reqs : pc[r] = "done" =>
                 (ContractFor(r) <=> outcome[r] \in Failures \/ Taken(r) = msg[r][1]))
<1> DEFINE Goal == \A r \in Reqs : pc[r] = "done" =>
                     (ContractFor(r) <=> outcome[r] \in Failures \/ Taken(r) = msg[r][1])
           TInv == \A r \in Reqs : TakenOK(r)
<1>1. Init => TInv
  BY DEF Init, TakenOK
<1>2. IInv /\ TInv /\ [Next]_vars => TInv'
  <2> SUFFICES ASSUME IInv, TInv, [Next]_vars, NEW q \in Reqs PROVE TakenOK(q)'
    OBVIOUS
  <2>1. TakenOK(q)
    OBVIOUS
  <2>2. ASSUME UNCHANGED dispatchVars PROVE TakenOK(q)'
    <3>1. Known(q)' = Known(q) /\ Taken(q)' = Taken(q)
      BY <2>2, TakenSame DEF dispatchVars
    <3> QED BY <2>1, <2>2, <3>1 DEF TakenOK, dispatchVars
  <2>3. ASSUME NEW r \in Reqs, DispatchStep(r) PROVE TakenOK(q)'
    <3>1. CASE q = r
      BY <2>1, <2>3, <3>1, TakenStep
    <3>2. CASE q # r
      <4>1. Untouched(q) /\ side' = side
        BY <2>3, <3>2, DispatchTypes DEF Frame
      <4>2. Known(q)' = Known(q) /\ Taken(q)' = Taken(q)
        BY <4>1, TakenSame DEF Untouched
      <4> QED BY <2>1, <4>1, <4>2 DEF TakenOK, Untouched
    <3> QED BY <3>1, <3>2
  <2>4. ASSUME NEW g \in Registrants, RegisterStep(g) PROVE TakenOK(q)'
    BY <2>2, <2>4 DEF RegisterStep, Register, RegisterLock, RegisterCheck, RegisterWrite
  <2>5. CASE UNCHANGED vars
    BY <2>2, <2>5 DEF vars, dispatchVars
  <2> QED BY <2>3, <2>4, <2>5 DEF Next, Rest
<1>3. IInv /\ TInv => Goal
  <2> SUFFICES ASSUME IInv, TInv, NEW r \in Reqs, pc[r] = "done"
               PROVE  ContractFor(r) <=> outcome[r] \in Failures \/ Taken(r) = msg[r][1]
    OBVIOUS
  <2>1. msg[r][1] \in {"call", "notify"}
    BY PeerSendsTyped DEF IInv, RequestOK, MessageOK, Kinds
  <2>2. Taken(r) \in {"call", "notify"}
    BY <2>1 DEF Taken, Operation
  <2>3. outcome[r] \in Failures \cup {IF Taken(r) = "call" THEN "result" ELSE "nil"}
    BY DEF TakenOK
  <2> QED BY <2>1, <2>2, <2>3 DEF ContractFor, Failures, IsCall
<1> QED BY <1>1, <1>2, <1>3, DispatchInvariant, PTL DEF Spec

\* What the generated senders send is not found only if the handler does not
\* implement it.
THEOREM SentFindsItsCase == ASSUME ~AnyPeer PROVE Spec => []SentIsHandled
<1>1. IInv => SentIsHandled
  BY DEF IInv
<1> QED BY DispatchInvariant, <1>1, PTL

\* What is known of the registrations says which of them are in force: exactly those
\* that reported success.
LEMMA InvStands == IInv => RegistrationStands
<1> SUFFICES ASSUME IInv, NEW g \in Registrants
             PROVE  rres[g] = "ok" <=> <<rkey[g][1], rkey[g][2], g>> \in registered
    BY DEF RegistrationStands
<1>1. rres[g] = "ok" => <<rkey[g][1], rkey[g][2], g>> \in registered
  BY DEF IInv, RegistrantOK
<1>2. <<rkey[g][1], rkey[g][2], g>> \in registered => rres[g] = "ok"
  BY DEF IInv, RegisteredOK
<1> QED BY <1>1, <1>2

\* A registration that reported success stands, for any number of registrations.
THEOREM RegistrationsStand == Spec => []RegistrationStands
BY DispatchInvariant, InvStands, PTL

\* An extension message is refused as unknown only in a state in which no
\* registration of its method and kind has reported success.
THEOREM RefusedIsUnregistered == Spec => NotFoundMeansUnregistered
<1>1. ASSUME IInv, [Next]_vars, NEW r \in Reqs, pc[r] = "lookup",
             outcome'[r] \in {"notfound", "nil"}, NEW g \in Registrants, rres[g] = "ok"
      PROVE  rkey[g] # <<msg[r][1], msg[r][2]>>
  <2>1. outcome[r] = "none"
    BY <1>1 DEF IInv, RequestOK, OutcomeOK
  <2>2. DispatchStep(r)
    <3>1. CASE \E q \in Reqs \ {r} : DispatchStep(q)
      BY <1>1, <2>1, <3>1, DispatchTypes DEF Frame, Untouched
    <3>2. CASE \E h \in Registrants : RegisterStep(h)
      <4>1. outcome' = outcome
        BY <3>2 DEF RegisterStep, Register, RegisterLock, RegisterCheck, RegisterWrite, dispatchVars
      <4> QED BY <1>1, <2>1, <4>1
    <3>3. CASE UNCHANGED vars
      BY <1>1, <2>1, <3>3 DEF vars, dispatchVars
    <3> QED BY <1>1, <3>1, <3>2, <3>3 DEF Next, Rest
  <2>3. Lookup(r)
    BY <1>1, <2>2 DEF DispatchStep, Receive, ReceiveUnreadable, DispatchKnown,
       DispatchExtension, Return, Respond, Learn
  <2>4. ~HasHandler(msg[r][1], msg[r][2])
    <3>1. CASE Finishes(r, {"badparams"})
      BY <1>1, <3>1, FinishesSets DEF Outcomes
    <3>2. CASE Runs(r, msg[r][1])
      BY <1>1, <2>1, <3>2 DEF Runs
    <3> QED BY <2>3, <3>1, <3>2, DispatchCases DEF Method
  <2>5. <<rkey[g][1], rkey[g][2], g>> \in registered
    BY <1>1 DEF IInv, RegistrantOK
  <2> QED BY <2>4, <2>5 DEF HasHandler
<1>2. IInv /\ [Next]_vars =>
        [\A r \in Reqs :
           pc[r] = "lookup" /\ outcome'[r] \in {"notfound", "nil"}
             => \A g \in Registrants : rres[g] = "ok" => rkey[g] # <<msg[r][1], msg[r][2]>>]_vars
  BY <1>1
<1> QED BY DispatchInvariant, <1>2, PTL DEF Spec, NotFoundMeansUnregistered

\* What the caller is told is what the handler returned.
LEMMA InvLearns == IInv => CallerLearnsOutcome
<1> SUFFICES ASSUME IInv, NEW r \in Reqs
             PROVE  /\ pc[r] = "lost" => ~Exact(id[r])
                    /\ pc[r] = "learned" =>
                         /\ learned[r].ok <=> outcome[r] = "result"
                         /\ learned[r].closed => CodeOf(err[r]) \in {ErrClientClosing, ErrServerClosing}
                         /\ learned[r].ok \/ learned[r].closed
                              \/ (/\ Is(learned[r].err, CodeOf(err[r]))
                                  /\ err[r].direct => learned[r].err.data = err[r].data)
    BY DEF CallerLearnsOutcome
<1>1. pc[r] = "lost" => ~Exact(id[r])
  BY DEF IInv, RequestOK, MessageOK
<1>2. ASSUME pc[r] = "learned"
      PROVE  /\ learned[r].ok <=> outcome[r] = "result"
             /\ learned[r].closed => CodeOf(err[r]) \in {ErrClientClosing, ErrServerClosing}
             /\ learned[r].ok \/ learned[r].closed
                  \/ (/\ Is(learned[r].err, CodeOf(err[r]))
                      /\ err[r].direct => learned[r].err.data = err[r].data)
  <2>1. err[r] \in DispatchErrors
    BY DEF IInv, FieldsOK
  <2>2. outcome[r] \in {"result", "notfound", "badparams", "failed"}
    BY <1>2 DEF IInv, RequestOK, OutcomeOK
  <2>3. err[r].nil <=> outcome[r] = "result"
    BY <2>2 DEF IInv, TypeOK
  <2>4. PICK result \in IF outcome[r] = "result" THEN {"value", "null"} ELSE {"absent"} :
          answer[r] = EncodeResponse(MakeID(id[r]), result, err[r])
    BY <1>2 DEF IInv, RequestOK, AnswerOK
  <2>5. learned[r] = call(DecodeMessage(EncodeResponse(MakeID(id[r]), result, err[r])))
    BY <1>2, <2>4 DEF IInv, RequestOK, AnswerOK
  <2>6. result \in {"value", "null", "absent"} /\ (err[r].nil => result # "absent")
    BY <2>3, <2>4
  <2> QED BY <2>1, <2>3, <2>5, <2>6, AnswerTells
<1> QED BY <1>1, <1>2

\* The caller learns what the handler returned, whatever the IDs and the errors are
\* and whatever the peer sends: only an ID that float64 does not hold is lost.
THEOREM CallersLearn == Spec => []CallerLearnsOutcome
BY DispatchInvariant, InvLearns, PTL
=============================================================================
