------------------------------ MODULE Dispatch ------------------------------
(***************************************************************************)
(* What the Handle function of an ACP connection does with a message: the  *)
(* generated handleAgentRequest (acp/agent_gen.go) and handleClientRequest *)
(* (acp/client_gen.go), extension dispatch and ExtensionMux                *)
(* (acp/extensions.go), decodeParams and rpcResult (acp/rpc.go).           *)
(*                                                                         *)
(* Every dispatch begins with Async, so dispatches run concurrently, and   *)
(* handlers may be registered meanwhile.  The other side of the connection *)
(* uses the generated senders, or, if AnyPeer, sends what it likes, and    *)
(* waits for the answer to its call.                                       *)
(***************************************************************************)
EXTENDS FiniteSets, WireCodec

CONSTANTS
    Reqs,           \* messages being dispatched
    Registrants,    \* calls of AddExtensionRequest and AddExtensionNotification
    Extensions,     \* method names that begin with an underscore
    Muxes,          \* how the handler may embed an ExtensionMux
    Missing,        \* the operations that the handler does not implement
    AnyPeer,        \* the peer is not bound to the generated senders
    WireIDs,        \* the IDs that the peer gives its calls, in JSON
    HandlerErrors,  \* the errors that handlers return
    Nobody          \* nobody holds ExtensionMux.mu

ASSUME DispatchAssumption ==
    /\ Muxes \subseteq {"absent", "nil", "set"} /\ AnyPeer \in BOOLEAN
    /\ Nobody \notin Registrants /\ Extensions \cap {"", "other"} = {}

\* An ID in JSON is a number, a string or something else that is no ID; a *WireError
\* wraps no other error, so errors.As finds its own code only.
ASSUME WireAssumption ==
    /\ \A j \in WireIDs :
         \/ j = Other
         \/ j[1] = "string" /\ j = Text(j[2])
         \/ j[1] = "number" /\ j[2] \in Int /\ j = Number(j[2])
    /\ \A e \in HandlerErrors :
         /\ e \in [nil : {FALSE}, codes : Seq(Int), direct : BOOLEAN, data : BOOLEAN]
         /\ e.direct => Len(e.codes) = 1

VARIABLES
    side,           \* "agent" or "client": which dispatch function runs
    mux,            \* "absent", "nil" or "set": the handler's ExtensionMux
    msg,            \* the message of each request, or NoMessage
    id,             \* the ID of each request, in JSON
    pc,             \* "idle", "start", "lookup", "running", "done", "sent",
                    \* "learned" or "lost"
    op,             \* the operation that runs: "call" or "notify"
    outcome,        \* what the dispatch returned, "none" before it did
    err,            \* the error it returned
    answer,         \* the response on the wire
    learned,        \* what the caller was told
    registered,     \* ExtensionMux: <<kind, method, registrant>>
    mu,             \* who holds ExtensionMux.mu for writing
    rpc,            \* "idle", "lock", "check", "write" or "done"
    rkey,           \* the <<kind, method>> each registrant asks for
    rres            \* what the registration returned

dispatchVars == <<side, mux, msg, id, pc, op, outcome, err, answer, learned>>
muxVars == <<registered, mu, rpc, rkey, rres>>
vars == <<dispatchVars, muxVars>>

-----------------------------------------------------------------------------
(* The generated tables *)

Kinds == {"call", "notify"}

\* What handleAgentRequest's switch knows.
AgentCalls ==
    {"auth/status", "authenticate", "initialize", "logout", "providers/disable",
     "providers/list", "providers/set", "proxy/initialize", "proxy/successor",
     "session/archive", "session/close", "session/delete", "session/fork",
     "session/list", "session/load", "session/new", "session/prompt",
     "session/resume", "session/set_config_option", "session/set_mode",
     "session/set_title", "session/status", "session/unarchive"}
AgentNotifications == {"mcp/message", "proxy/successor", "session/cancel"}

\* What handleClientRequest's switch knows.
ClientCalls ==
    {"elicitation/create", "fs/read_text_file", "fs/write_text_file", "mcp/message",
     "proxy/successor", "session/request_permission", "terminal/create",
     "terminal/kill", "terminal/output", "terminal/release", "terminal/wait_for_exit"}
ClientNotifications ==
    {"auth/status_update", "elicitation/complete", "proxy/successor", "session/update"}

handleAgentRequest == ({"call"} \X AgentCalls) \cup ({"notify"} \X AgentNotifications)

\* Seeded fault: a notification has no case.
UpdateForgotten ==
    ({"call"} \X ClientCalls) \cup ({"notify"} \X (ClientNotifications \ {"session/update"}))

handleClientRequest == ({"call"} \X ClientCalls) \cup ({"notify"} \X ClientNotifications)

Handled == IF side = "agent" THEN handleAgentRequest ELSE handleClientRequest

\* What the methods of Client send to the agent.
ClientSends ==
    ({"call"} \X
       {"auth/status", "authenticate", "initialize", "logout", "providers/disable",
        "providers/list", "providers/set", "proxy/initialize", "proxy/successor",
        "session/archive", "session/close", "session/delete", "session/fork",
        "session/list", "session/load", "session/new", "session/prompt",
        "session/resume", "session/set_config_option", "session/set_mode",
        "session/set_title", "session/status", "session/unarchive"})
      \cup ({"notify"} \X {"mcp/message", "proxy/successor", "session/cancel"})

\* What the methods of AgentConnection send to the client.
AgentSends ==
    ({"call"} \X
       {"elicitation/create", "fs/read_text_file", "fs/write_text_file",
        "mcp/message", "proxy/successor", "session/request_permission",
        "terminal/create", "terminal/kill", "terminal/output", "terminal/release",
        "terminal/wait_for_exit"})
      \cup ({"notify"} \X
        {"auth/status_update", "elicitation/complete", "proxy/successor", "session/update"})

\* CallExtension and NotifyExtension send underscore-prefixed methods only.
ExtensionSends == Kinds \X Extensions

\* "other" is a method that no table knows.
PeerSends ==
    IF AnyPeer THEN Kinds \X ({o[2] : o \in Handled} \cup Extensions \cup {"other"})
    ELSE ExtensionSends \cup IF side = "agent" THEN ClientSends ELSE AgentSends

\* The names in the tables do not begin with an underscore.
ASSUME ExtensionAssumption ==
    Extensions \cap {o[2] : o \in handleAgentRequest \cup handleClientRequest} = {}

NoMessage == <<"none", "none", "none">>
NoKey == <<"none", "none">>
Messages == Kinds \X ({o[2] : o \in ClientSends \cup AgentSends}
                        \cup Extensions \cup {"other"}) \X {"ok", "bad"}
IsCall(r) == msg[r][1] = "call"
Method(r) == msg[r][2]
Outcomes == {"result", "nil", "notfound", "badparams", "failed", "unreadable"}
NoAnswer == EncodeRequest(Absent, "")
Unknown == [ok |-> FALSE, closed |-> FALSE, err |-> NoError]

\* Every variable stays in its type: in particular no handler is registered
\* under a name that does not begin with an underscore.
TypeOK ==
    /\ side \in {"agent", "client"} /\ mux \in Muxes
    /\ msg \in [Reqs -> Messages \cup {NoMessage}]
    /\ pc \in [Reqs -> {"idle", "start", "lookup", "running", "done", "sent", "learned", "lost"}]
    /\ id \in [Reqs -> WireIDs \cup {Absent}]
    /\ op \in [Reqs -> Kinds \cup {"none"}]
    /\ outcome \in [Reqs -> Outcomes \cup {"none"}]
    /\ \A r \in Reqs : err[r].nil <=> outcome[r] \in {"none", "result", "nil", "unreadable"}
    /\ registered \subseteq Kinds \X Extensions \X Registrants
    /\ mu \in Registrants \cup {Nobody}
    /\ rpc \in [Registrants -> {"idle", "lock", "check", "write", "done"}]
    /\ rkey \in [Registrants -> (Kinds \X (Extensions \cup {"other"})) \cup {NoKey}]
    /\ rres \in [Registrants -> {"none", "ok", "invalid", "duplicate"}]

Init ==
    /\ side \in {"agent", "client"} /\ mux \in Muxes
    /\ msg = [r \in Reqs |-> NoMessage]
    /\ id = [r \in Reqs |-> Absent]
    /\ pc = [r \in Reqs |-> "idle"]
    /\ op = [r \in Reqs |-> "none"]
    /\ outcome = [r \in Reqs |-> "none"]
    /\ err = [r \in Reqs |-> NoError]
    /\ answer = [r \in Reqs |-> NoAnswer]
    /\ learned = [r \in Reqs |-> Unknown]
    /\ registered = {} /\ mu = Nobody
    /\ rpc = [g \in Registrants |-> "idle"]
    /\ rkey = [g \in Registrants |-> NoKey]
    /\ rres = [g \in Registrants |-> "none"]

-----------------------------------------------------------------------------
(* Dispatch *)

\* A message of the peer is decoded and handed to the Handler.
Receive(r) ==
    /\ pc[r] = "idle"
    /\ \E m \in PeerSends, p \in {"ok", "bad"} :
         \E j \in IF m[1] = "call" THEN WireIDs ELSE {Absent} :
           /\ DecodeMessage(EncodeRequest(j, m[2])).kind = "request"
           /\ msg' = [msg EXCEPT ![r] = <<m[1], m[2], p>>]
           /\ id' = [id EXCEPT ![r] = j]
    /\ pc' = [pc EXCEPT ![r] = "start"]
    /\ UNCHANGED <<side, mux, op, outcome, err, answer, learned, muxVars>>

\* A message that DecodeMessage refuses ends the connection.
ReceiveUnreadable(r) ==
    /\ pc[r] = "idle"
    /\ \E m \in PeerSends, j \in WireIDs :
         /\ DecodeMessage(EncodeRequest(j, m[2])).kind # "request"
         /\ msg' = [msg EXCEPT ![r] = <<m[1], m[2], "ok">>]
         /\ id' = [id EXCEPT ![r] = j]
    /\ outcome' = [outcome EXCEPT ![r] = "unreadable"]
    /\ pc' = [pc EXCEPT ![r] = "lost"]
    /\ UNCHANGED <<side, mux, op, err, answer, learned, muxVars>>

FinishWith(r, o, e) ==
    /\ outcome' = [outcome EXCEPT ![r] = o]
    /\ err' = [err EXCEPT ![r] = e]
    /\ pc' = [pc EXCEPT ![r] = "done"]
    /\ UNCHANGED op

\* The errors that the dispatch itself returns wrap one of the standard ones.
Finish(r, o) ==
    FinishWith(r, o, CASE o = "notfound" -> Wrap(<<ErrMethodNotFound>>)
                       [] o = "badparams" -> Wrap(<<ErrInvalidParams>>)
                       [] OTHER -> NoError)

\* The operation's handler is called once the parameters are decoded.
Invoke(r, kind) ==
    \/ msg[r][3] = "bad" /\ Finish(r, "badparams")
    \/ /\ msg[r][3] = "ok"
       /\ op' = [op EXCEPT ![r] = kind]
       /\ pc' = [pc EXCEPT ![r] = "running"]
       /\ UNCHANGED <<outcome, err>>

\* Seeded fault: a method with two forms is always taken for a request.
FirstForm(r) == IF <<"call", Method(r)>> \in Handled THEN "call" ELSE "notify"

\* The operation of a known method: only one with two forms looks at the ID.
Operation(r) ==
    CASE Kinds \X {Method(r)} \subseteq Handled -> IF IsCall(r) THEN "call" ELSE "notify"
      [] <<"notify", Method(r)>> \notin Handled -> "call"
      [] OTHER -> "notify"

\* A case of the generated switch.
DispatchKnown(r) ==
    /\ pc[r] = "start" /\ \E k \in Kinds : <<k, Method(r)>> \in Handled
    /\ \/ <<Operation(r), Method(r)>> \in Missing /\ Finish(r, "notfound")
       \/ <<Operation(r), Method(r)>> \notin Missing /\ Invoke(r, Operation(r))
    /\ UNCHANGED <<side, mux, msg, id, answer, learned, muxVars>>

\* handleExtension, up to the lookup in the ExtensionMux.
DispatchExtension(r) ==
    /\ pc[r] = "start" /\ \A k \in Kinds : <<k, Method(r)>> \notin Handled
    /\ \/ Method(r) \notin Extensions /\ Finish(r, "notfound")
       \/ /\ Method(r) \in Extensions /\ mux # "set"
          /\ Finish(r, IF IsCall(r) THEN "notfound" ELSE "nil")
       \/ /\ Method(r) \in Extensions /\ mux = "set"
          /\ pc' = [pc EXCEPT ![r] = "lookup"]
          /\ UNCHANGED <<op, outcome, err>>
    /\ UNCHANGED <<side, mux, msg, id, answer, learned, muxVars>>

\* Seeded fault: the map of the other kind is looked at.
HasOtherHandler(kind, m) == \E x \in registered : x[1] # kind /\ x[2] = m

HasHandler(kind, m) == \E x \in registered : x[1] = kind /\ x[2] = m

\* handleExtensionRequest and handleExtensionNotification, under the read lock.
Lookup(r) ==
    /\ pc[r] = "lookup" /\ mu = Nobody
    /\ \/ HasHandler(msg[r][1], Method(r)) /\ Invoke(r, msg[r][1])
       \/ /\ ~HasHandler(msg[r][1], Method(r))
          /\ Finish(r, IF IsCall(r) THEN "notfound" ELSE "nil")
    /\ UNCHANGED <<side, mux, msg, id, answer, learned, muxVars>>

\* The handler returns.  rpcResult never returns a nil result without an error,
\* and an extension's result is replaced by null if it is empty.
Return(r) ==
    /\ pc[r] = "running"
    /\ \/ Finish(r, IF op[r] = "call" THEN "result" ELSE "nil")
       \/ \E e \in HandlerErrors : FinishWith(r, "failed", e)
    /\ UNCHANGED <<side, mux, msg, id, answer, learned, muxVars>>

\* processResult: NewResponse and EncodeMessage.  A result is never empty, a nil
\* pointer is null.
Respond(r) ==
    /\ pc[r] = "done" /\ IsCall(r) /\ outcome[r] # "nil"
    /\ \E result \in IF outcome[r] = "result" THEN {"value", "null"} ELSE {"absent"} :
         answer' = [answer EXCEPT ![r] = EncodeResponse(MakeID(id[r]), result, err[r])]
    /\ pc' = [pc EXCEPT ![r] = "sent"]
    /\ UNCHANGED <<side, mux, msg, id, op, outcome, err, learned, muxVars>>

\* The caller reads a response; one whose ID it did not use it drops.
Learn(r) ==
    /\ pc[r] = "sent"
    /\ \/ /\ answer[r].id = id[r]
          /\ learned' = [learned EXCEPT ![r] = call(DecodeMessage(answer[r]))]
          /\ pc' = [pc EXCEPT ![r] = "learned"]
       \/ /\ answer[r].id # id[r]
          /\ pc' = [pc EXCEPT ![r] = "lost"]
          /\ UNCHANGED learned
    /\ UNCHANGED <<side, mux, msg, id, op, outcome, err, answer, muxVars>>

-----------------------------------------------------------------------------
(* ExtensionMux *)

\* Seeded fault: the name is not validated.
AnyName(m) == TRUE

validateExtensionMethod(m) == m \in Extensions

\* AddExtensionRequest or AddExtensionNotification begins.
Register(g) ==
    /\ rpc[g] = "idle"
    /\ \E key \in Kinds \X (Extensions \cup {"other"}) :
         /\ rkey' = [rkey EXCEPT ![g] = key]
         /\ \/ /\ validateExtensionMethod(key[2]) /\ mux = "set"
               /\ rpc' = [rpc EXCEPT ![g] = "lock"]
               /\ UNCHANGED rres
            \/ /\ ~(validateExtensionMethod(key[2]) /\ mux = "set")
               /\ rres' = [rres EXCEPT ![g] = "invalid"]
               /\ rpc' = [rpc EXCEPT ![g] = "done"]
    /\ UNCHANGED <<dispatchVars, registered, mu>>

\* Seeded fault: the lock is not taken.
Unguarded == TRUE

MuFree == mu = Nobody

RegisterLock(g) ==
    /\ rpc[g] = "lock" /\ MuFree
    /\ mu' = g
    /\ rpc' = [rpc EXCEPT ![g] = "check"]
    /\ UNCHANGED <<dispatchVars, registered, rkey, rres>>

\* The name is looked up in the map ...
RegisterCheck(g) ==
    /\ rpc[g] = "check"
    /\ \/ /\ HasHandler(rkey[g][1], rkey[g][2])
          /\ rres' = [rres EXCEPT ![g] = "duplicate"]
          /\ rpc' = [rpc EXCEPT ![g] = "done"]
          /\ mu' = Nobody
       \/ /\ ~HasHandler(rkey[g][1], rkey[g][2])
          /\ rpc' = [rpc EXCEPT ![g] = "write"]
          /\ UNCHANGED <<rres, mu>>
    /\ UNCHANGED <<dispatchVars, registered, rkey>>

\* ... and the handler is stored, in place of any that is there.
RegisterWrite(g) ==
    /\ rpc[g] = "write"
    /\ registered' = {x \in registered : <<x[1], x[2]>> # rkey[g]}
                       \cup {<<rkey[g][1], rkey[g][2], g>>}
    /\ rres' = [rres EXCEPT ![g] = "ok"]
    /\ rpc' = [rpc EXCEPT ![g] = "done"]
    /\ mu' = Nobody
    /\ UNCHANGED <<dispatchVars, rkey>>

-----------------------------------------------------------------------------
DispatchStep(r) ==
    \/ Receive(r) \/ ReceiveUnreadable(r) \/ DispatchKnown(r) \/ DispatchExtension(r)
    \/ Lookup(r) \/ Return(r) \/ Respond(r) \/ Learn(r)
RegisterStep(g) ==
    \/ Register(g) \/ RegisterLock(g) \/ RegisterCheck(g) \/ RegisterWrite(g)

Rest ==
    /\ \A r \in Reqs :
         pc[r] \in {"learned", "lost"} \/ (pc[r] = "done" /\ (~IsCall(r) \/ outcome[r] = "nil"))
    /\ \A g \in Registrants : rpc[g] = "done"
    /\ UNCHANGED vars

Next ==
    \/ \E r \in Reqs : DispatchStep(r)
    \/ \E g \in Registrants : RegisterStep(g)
    \/ Rest

Spec == Init /\ [][Next]_vars

-----------------------------------------------------------------------------
(* Properties *)

\* Handler's contract (jsonrpc2.go): a call gets a non-nil result or an error,
\* a notification no result.  processResult panics when it is broken.
ContractFor(r) ==
    outcome[r] \in {"notfound", "badparams", "failed"}
                     \cup (IF IsCall(r) THEN {"result"} ELSE {"nil"})
ContractKept == \A r \in Reqs : pc[r] = "done" => ContractFor(r)

\* Every message of the generated senders finds its case in the other side's
\* switch: it is not found only if the handler does not implement it.
SentIsHandled ==
    \A r \in Reqs :
        outcome[r] = "notfound" /\ Method(r) \notin Extensions
            => <<msg[r][1], Method(r)>> \in Missing

\* A registration that reported success is the one that is in force, whatever
\* was registered at the same time.
RegistrationStands ==
    \A g \in Registrants :
        rres[g] = "ok" <=> <<rkey[g][1], rkey[g][2], g>> \in registered

\* An extension call is refused as unknown only if nobody had registered it.
NotFoundMeansUnregistered ==
    [][\A r \in Reqs :
         pc[r] = "lookup" /\ outcome'[r] \in {"notfound", "nil"}
             => \A g \in Registrants : rres[g] = "ok" => rkey[g] # <<msg[r][1], msg[r][2]>>]_vars

\* The code that an error is known by on the other side: its first, or 0.
CodeOf(e) == IF e.codes = << >> THEN 0 ELSE e.codes[1]

\* IDs that survive MakeID: strings, and integers that are exact as float64.
Exact(j) ==
    \/ j[1] = "string"
    \/ /\ j[1] = "number" /\ j[2] % 2 = 0
       /\ -(2 * MaxExact) <= j[2] /\ j[2] <= 2 * MaxExact

\* The caller learns what the handler returned.  A call whose ID is a string, or
\* an integer that MakeID's float64 holds exactly, is answered under that ID; the
\* caller has a result exactly if the handler had one, a null one included; it recognises the
\* handler's error by its code, however often that was wrapped, with its data if
\* the handler returned it as it is; and it is told ErrConnectionClosed on a
\* connection that is open only if the handler's own error has a closing code.
CallerLearnsOutcome ==
    \A r \in Reqs :
        /\ pc[r] = "lost" => ~Exact(id[r])
        /\ pc[r] = "learned" =>
             /\ learned[r].ok <=> outcome[r] = "result"
             /\ learned[r].closed => CodeOf(err[r]) \in {ErrClientClosing, ErrServerClosing}
             /\ learned[r].ok \/ learned[r].closed
                  \/ (/\ Is(learned[r].err, CodeOf(err[r]))
                      /\ err[r].direct => learned[r].err.data = err[r].data)

-----------------------------------------------------------------------------
(* The inductive invariant behind these properties *)

\* A message that was received is one that the peer sends, a call has an ID, the
\* ExtensionMux is asked for extensions only, and what is lost was lost because of
\* the ID.
MessageOK(r) ==
    /\ pc[r] # "idle" => <<msg[r][1], msg[r][2]>> \in PeerSends
    /\ pc[r] # "idle" /\ IsCall(r) => id[r] \in WireIDs
    /\ pc[r] = "lookup" => Method(r) \in Extensions
    /\ pc[r] = "lost" => ~Exact(id[r])

\* What a dispatch returned is set when it has returned, and only calls are answered.
\* The operation that runs is of the message's kind, if the peer keeps to the senders.
OutcomeOK(r) ==
    /\ pc[r] \in {"idle", "start", "lookup", "running"} => outcome[r] = "none"
    /\ pc[r] \in {"done", "sent", "learned"}
         => outcome[r] \in {"result", "nil", "notfound", "badparams", "failed"}
    /\ pc[r] \in {"sent", "learned"} => IsCall(r) /\ outcome[r] # "nil"
    /\ pc[r] = "running" => op[r] \in Kinds /\ (~AnyPeer => op[r] = msg[r][1])

\* The response on the wire is the outcome's, and the caller read that response.
AnswerOK(r) ==
    /\ pc[r] \in {"sent", "learned"} =>
         \E result \in IF outcome[r] = "result" THEN {"value", "null"} ELSE {"absent"} :
            answer[r] = EncodeResponse(MakeID(id[r]), result, err[r])
    /\ pc[r] = "learned" => learned[r] = call(DecodeMessage(answer[r]))

RequestOK(r) == MessageOK(r) /\ OutcomeOK(r) /\ AnswerOK(r)

\* Who is between the lookup of a name and its registration holds the lock, and
\* nobody has the name; until it is decided, nothing is reported.
RegistrantOK(g) ==
    /\ mu = g <=> rpc[g] \in {"check", "write"}
    /\ rpc[g] \in {"lock", "check", "write"} => rkey[g] \in Kinds \X Extensions
    /\ rpc[g] = "write" => ~HasHandler(rkey[g][1], rkey[g][2])
    /\ rpc[g] # "done" => rres[g] = "none"
    /\ rres[g] = "ok" => <<rkey[g][1], rkey[g][2], g>> \in registered

\* What is registered was reported as registered, by whom it was asked for.
RegisteredOK ==
    \A x \in registered : rres[x[3]] = "ok" /\ rkey[x[3]] = <<x[1], x[2]>>

\* The records of the wire, which TypeOK leaves out.
DispatchErrors == {NoError, Wrap(<<ErrMethodNotFound>>), Wrap(<<ErrInvalidParams>>)} \cup HandlerErrors
FieldsOK ==
    /\ err \in [Reqs -> DispatchErrors]
    /\ answer = [r \in Reqs |-> answer[r]]
    /\ learned = [r \in Reqs |-> learned[r]]

IInv ==
    /\ TypeOK /\ FieldsOK /\ RegisteredOK
    /\ \A r \in Reqs : RequestOK(r)
    /\ \A g \in Registrants : RegistrantOK(g)
    /\ ~AnyPeer => ContractKept /\ SentIsHandled
=============================================================================
