------------------------------ MODULE WireCodec ------------------------------
(***************************************************************************)
(* JSON-RPC messages on the wire: IDs, errors and the classification of    *)
(* messages (internal/jsonrpc2/messages.go and wire.go), and what a caller *)
(* makes of a response (acp/rpc.go).                                       *)
(***************************************************************************)
EXTENDS Integers, Sequences

CONSTANT MaxExact     \* bound: integers up to it are exact as float64 (2^53 in Go)

ASSUME MaxExactAssumption == MaxExact \in Nat

-----------------------------------------------------------------------------
(* IDs *)

\* An "id" in JSON.  Number(h) is h / 2, so odd numbers have a fraction.
Absent == <<"absent">>
Null == <<"null">>
Other == <<"other">>
Number(h) == <<"number", h>>
Text(s) == <<"string", s>>

\* encoding/json decodes a number into a float64: above MaxExact only every
\* second integer is one, and a tie goes to the even neighbour.
Float64(h) ==
    LET Round(n) == 4 * (n \div 4 + IF n % 4 > 2 \/ n % 8 = 6 THEN 1 ELSE 0)
    IN  CASE h > 2 * MaxExact -> Round(h)
          [] h < -(2 * MaxExact) -> -Round(-h)
          [] OTHER -> h

\* int64(v) drops the fraction.
Truncate(h) == IF h < 0 THEN -((-h) \div 2) ELSE h \div 2

NoID == <<"none">>
BadID == <<"invalid">>
IsValid(id) == id # NoID

MakeID(j) ==
    CASE j \in {Absent, Null} -> NoID
      [] j[1] = "number" -> <<"int64", Truncate(Float64(j[2]))>>
      [] j[1] = "string" -> j
      [] OTHER -> BadID

\* ID.value with omitempty: an interface is left out only if it is nil.
EncodeID(id) ==
    CASE id = NoID -> Absent
      [] id[1] = "int64" -> Number(2 * id[2])
      [] OTHER -> id

-----------------------------------------------------------------------------
(* Errors *)

\* A Go error: the codes of the WireErrors that errors.As finds in it, in order;
\* whether it is a *WireError itself, and whether that has Data.
Error(codes, direct, data) == [nil |-> FALSE, codes |-> codes, direct |-> direct, data |-> data]
NoError == [nil |-> TRUE, codes |-> << >>, direct |-> FALSE, data |-> FALSE]
Plain == Error(<< >>, FALSE, FALSE)
Wrap(codes) == Error(codes, FALSE, FALSE)

ErrMethodNotFound == -32601
ErrInvalidParams == -32602
ErrInternal == -32603
ErrClientClosing == -32003
ErrServerClosing == -32004

\* errors.Is, which compares WireErrors by their code.
Is(e, code) == \E i \in DOMAIN e.codes : e.codes[i] = code

\* Seeded fault: only a *WireError itself keeps its code.
DirectCodeOnly(e) == IF e.nil \/ e.direct THEN e ELSE Error(<<0>>, TRUE, FALSE)

\* A wrapped WireError keeps its code, without its Data; other errors have code 0.
toWireError(e) ==
    IF e.nil \/ e.direct THEN e
    ELSE Error(<<IF e.codes = << >> THEN 0 ELSE e.codes[1]>>, TRUE, FALSE)

-----------------------------------------------------------------------------
(* Messages *)

wireVersion == "2.0"

\* wireCombined, of which params are left out; result is "absent", "null" or "value".
EncodeRequest(j, method) ==
    [version |-> wireVersion, id |-> j, method |-> method, result |-> "absent", error |-> NoError]
EncodeResponse(id, result, e) ==
    [version |-> wireVersion, id |-> EncodeID(id), method |-> "", result |-> result,
     error |-> toWireError(e)]

\* What has a method is a request, the rest is a response.
DecodeMessage(w) ==
    LET id == MakeID(w.id)
        kind == CASE w.version # wireVersion \/ id = BadID -> "unreadable"
                  [] w.version = wireVersion /\ id # BadID /\ w.method # "" -> "request"
                  [] OTHER -> IF IsValid(id) THEN "response" ELSE "unreadable"
    IN  [kind |-> kind, id |-> id, method |-> w.method, result |-> w.result, error |-> w.error]

-----------------------------------------------------------------------------
(* The caller *)

\* Await: an empty result does not decode.
Await(resp) ==
    CASE ~resp.error.nil -> resp.error
      [] resp.error.nil /\ resp.result = "absent" -> Plain
      [] OTHER -> NoError

\* Errors of a connection that closes become ErrConnectionClosed, without their code.
translateCallError(e) ==
    LET closed == Is(e, ErrClientClosing) \/ Is(e, ErrServerClosing)
    IN  [closed |-> closed, err |-> IF closed THEN Plain ELSE [e EXCEPT !.direct = FALSE]]

call(resp) ==
    LET e == Await(resp)
        told == IF e.nil THEN [closed |-> FALSE, err |-> NoError] ELSE translateCallError(e)
    IN  [ok |-> e.nil, closed |-> told.closed, err |-> told.err]
=============================================================================
