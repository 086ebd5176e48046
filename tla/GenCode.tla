------------------------------- MODULE GenCode -------------------------------
(***************************************************************************)
(* What the MarshalJSON and UnmarshalJSON methods of acp/types_gen.go do,  *)
(* on top of acp/json.go and encoding/json.                                *)
(*                                                                         *)
(* A JSON value is told apart by what a field may make of it: "absent",    *)
(* "null", "empty" ("", 0, false, {} or []), "good", "alien" (a string     *)
(* that a closed enum does not know), "mixed" (an array of which some      *)
(* items are invalid) and "bad" (a value of another type).  A Go value is  *)
(* "zero", or what it was decoded from: "empty" is a pointer to a zero     *)
(* value or a collection that is empty but not nil.  "husk" is a pointer   *)
(* that a failed decode left allocated, "nilptr" a non-nil interface or    *)
(* pointer that encodes as null.                                           *)
(*                                                                         *)
(* A generated type is a record:                                           *)
(*   fields   for each JSON key its Go kind, its tag and its decode rule;  *)
(*   by       for each key whose rule depends on the discriminator, the    *)
(*            rule of each variant;                                        *)
(*   need     for each variant the keys that MarshalJSON always writes;    *)
(*   nulls    for each variant the keys of NullFields that it honours;     *)
(*   ctors    the constructors: <<discriminator, keys set>>;               *)
(*   carriers the keys of which exactly one is sent, in schema order, for a *)
(*            union whose variants are told apart by a required key.       *)
(* A type that is not a union has the one variant "".                      *)
(***************************************************************************)
EXTENDS Naturals, Sequences, TLC

Shapes == {"absent", "null", "empty", "good", "alien", "mixed", "bad"}
Pointers == {"ptr", "ptrslice", "ptrraw"}
Collections == {"slice", "map"}
Kinds == Pointers \cup Collections \cup {"scalar", "struct", "any", "raw"}

-----------------------------------------------------------------------------
(* Decode rules *)

\* How a key is decoded.  via "place": into the field itself; "temp": into a
\* variable of kind src, assigned when that succeeds; "enum": the same, and
\* only a known string is assigned; "items": item by item; "none": not at all.
\* lax: an error is dropped; keep: null is recorded in NullFields.
Rule(via, src, lax, keep) == [via |-> via, src |-> src, lax |-> lax, keep |-> keep]

Direct == Rule("place", "field", FALSE, FALSE)
Lax == Rule("place", "field", TRUE, FALSE)
Temp(src) == Rule("temp", src, FALSE, FALSE)
LaxTemp(src) == Rule("temp", src, TRUE, FALSE)
Enum == Rule("enum", "scalar", TRUE, FALSE)
Items(src) == Rule("items", src, TRUE, FALSE)
StrictItems(src) == Rule("items", src, FALSE, FALSE)
Keep(r) == [r EXCEPT !.keep = TRUE]
Ignored == Rule("none", "field", TRUE, FALSE)

\* encoding/json, decoding j into a zero variable of kind k.
Unmarshal(k, j) ==
    LET err == k \notin {"any", "raw", "ptrraw"} /\ j \in {"bad", "mixed"}
    IN  [err |-> err,
         val |-> CASE j = "absent" -> "zero"
                   [] j = "null" -> IF k = "raw" THEN "nilptr" ELSE "zero"
                   [] err -> IF k \in Pointers THEN "husk" ELSE "zero"
                   [] j = "empty" /\ k \in {"scalar", "struct"} -> "zero"
                   [] OTHER -> j]

\* The zero value of kind src, in an interface or behind a pointer: neither is nil, and
\* what is nil in it, a pointer, a slice or a map, is encoded as null.
Boxed(src) == IF src \in {"scalar", "struct"} THEN "empty" ELSE "nilptr"

\* convertUnionFieldValue: a value of kind src is assigned to a field of kind k.
Convert(src, k, v) ==
    IF v = "zero" /\ src # k /\ (k = "any" \/ (k \in Pointers /\ src \notin Pointers))
    THEN Boxed(src) ELSE v

\* unmarshalJSON(raw.X, &decoded.X)
Place(k, r, j) ==
    LET u == Unmarshal(k, j) IN [err |-> u.err /\ ~r.lax, val |-> u.val]

\* Seeded fault: what a failed decode left behind is assigned.
AssignAnyway(k, r, j) ==
    LET u == Unmarshal(r.src, j)
    IN  [err |-> u.err /\ ~r.lax, val |-> Convert(r.src, k, u.val)]

\* Seeded fault: the error of a variant's field is always returned.
AssignOrFail(k, r, j) ==
    LET u == Unmarshal(r.src, j)
    IN  [err |-> u.err, val |-> IF u.err THEN "zero" ELSE Convert(r.src, k, u.val)]

\* var value T; unmarshalJSON(raw.X, &value); decoded.X = value
Assign(k, r, j) ==
    LET u == Unmarshal(r.src, j)
    IN  [err |-> u.err /\ ~r.lax,
         val |-> IF u.err THEN "zero" ELSE Convert(r.src, k, u.val)]

\* Only the strings of a closed enum are assigned.
AssignKnown(k, r, j) == [err |-> FALSE, val |-> IF j = "good" THEN "good" ELSE "zero"]

\* The array is decoded as raw items, of which the valid ones are kept.  null
\* makes a value slice empty and leaves a pointer nil.
KeepValid(k, r, j) ==
    [err |-> j \in {"bad", "alien"} /\ ~r.lax,
     val |-> CASE j \in {"good", "mixed"} -> "good"
               [] j = "empty" \/ (j = "null" /\ r.src = "slice") -> "empty"
               [] OTHER -> "zero"]

\* Seeded fault: null is decoded like any other value.
NullIsValue(r, j) == FALSE

\* isJSONNull(raw.X), for a field that keeps null apart.
KeepsNull(r, j) == r.keep /\ j = "null"

\* One field of UnmarshalJSON: a key that is absent is left alone.
DecodeField(k, r, j) ==
    IF j = "absent" \/ r.via = "none" \/ KeepsNull(r, j) THEN [err |-> FALSE, val |-> "zero"]
    ELSE CASE r.via = "place" -> Place(k, r, j)
           [] r.via = "temp" -> Assign(k, r, j)
           [] r.via = "enum" -> AssignKnown(k, r, j)
           [] r.via = "items" -> KeepValid(k, r, j)

-----------------------------------------------------------------------------
(* UnmarshalJSON *)

Keys(T) == DOMAIN T.fields
KindOf(T, f) == T.fields[f].kind

\* The switch on decoded.<discriminator>; "" stands for its default.
RuleOf(T, tag, f) ==
    IF f \notin DOMAIN T.by THEN T.fields[f].rule
    ELSE LET variants == DOMAIN T.by[f]
         IN  CASE tag \in variants -> T.by[f][tag]
               [] tag \notin variants /\ "" \in variants -> T.by[f][""]
               [] OTHER -> Ignored

\* The first unmarshalJSON decodes the discriminator and the fields without a
\* method of their own, then each raw field is decoded; *t is assigned last.
DecodeFields(T, w) ==
    LET one == [f \in Keys(T) |->
                  DecodeField(KindOf(T, f), RuleOf(T, w.tag, f), w.body[f])]
    IN  [ok |-> w.tag # "bad" /\ \A f \in Keys(T) : ~one[f].err,
         tag |-> w.tag,
         val |-> [f \in Keys(T) |-> one[f].val],
         nulls |-> {f \in Keys(T) : KeepsNull(RuleOf(T, w.tag, f), w.body[f])}]

IsCarrier(T, f) == \E i \in DOMAIN T.carriers : T.carriers[i] = f

\* The first carrier, in schema order, that x does not miss; "" when there is none.
FirstCarrier(T, x, missing) ==
    LET there == {i \in DOMAIN T.carriers : x[T.carriers[i]] # missing}
    IN  IF there = {} THEN ""
        ELSE T.carriers[CHOOSE i \in there : \A j \in there : i <= j]

\* The switch on the raw carriers.  An object must have its required properties,
\* a carrier of any type may be null; the other carriers are not decoded.
DecodeCarrier(T, w) ==
    LET c == FirstCarrier(T, w.body, "absent")
        j == w.body[c]
        value(f) == CASE f = c -> IF j = "null" THEN "nilptr" ELSE j
                      [] f # c /\ IsCarrier(T, f) -> "zero"
                      [] OTHER -> DecodeField(KindOf(T, f), T.fields[f].rule, w.body[f]).val
    IN  IF c = "" \/ (KindOf(T, c) = "ptr" /\ j # "good")
        THEN [ok |-> FALSE, tag |-> "", val |-> [f \in Keys(T) |-> "zero"], nulls |-> {}]
        ELSE [ok |-> TRUE, tag |-> "", val |-> [f \in Keys(T) |-> value(f)], nulls |-> {}]

Decode(T, w) == IF T.carriers = << >> THEN DecodeFields(T, w) ELSE DecodeCarrier(T, w)

-----------------------------------------------------------------------------
(* MarshalJSON *)

\* encoding/json, encoding v of kind k.
Marshal(k, v) ==
    CASE v = "zero" -> IF k \in {"scalar", "struct"} THEN "empty" ELSE "null"
      [] v = "nilptr" -> "null"
      [] v = "husk" -> "empty"
      [] OTHER -> v

\* The field's tag: omitempty says nothing of a struct, omitzero keeps an empty
\* collection that is not nil.
Omitted(k, omit, v) ==
    \/ omit = "zero" /\ v = "zero"
    \/ omit = "empty" /\ k # "struct" /\ (v = "zero" \/ (v = "empty" /\ k \in Collections))

At(table, tag) == IF tag \in DOMAIN table THEN table[tag] ELSE {}

\* Seeded fault: a nil slice is written as null.
NilAsNull(T, g, f) == Marshal(KindOf(T, f), g.val[f])

\* A required slice that is nil is written as [].
Required(T, g, f) ==
    IF KindOf(T, f) = "slice" /\ g.val[f] = "zero" THEN "empty"
    ELSE Marshal(KindOf(T, f), g.val[f])

Needed(T, tag) == At(T.need, tag)

\* Seeded fault: NullFields is not consulted.
NullsLost(T, g) == {}

NullsSent(T, g) == g.nulls \cap At(T.nulls, g.tag)

EncodeFields(T, g) ==
    [tag |-> g.tag,
     body |-> [f \in Keys(T) |->
        CASE f \in NullsSent(T, g) -> "null"
          [] f \in Needed(T, g.tag) \ NullsSent(T, g) -> Required(T, g, f)
          [] OTHER -> IF Omitted(KindOf(T, f), T.fields[f].omit, g.val[f]) THEN "absent"
                      ELSE Marshal(KindOf(T, f), g.val[f])]]

\* Only the first carrier that is set is written; an object carrier always has
\* its required properties.
EncodeCarrier(T, g) ==
    LET c == FirstCarrier(T, g.val, "zero")
    IN  [tag |-> "",
         body |-> [f \in Keys(T) |->
            CASE f = c -> IF KindOf(T, c) = "ptr" THEN "good" ELSE Marshal("any", g.val[c])
              [] f # c /\ (IsCarrier(T, f) \/ g.val[f] = "zero") -> "absent"
              [] OTHER -> Marshal(KindOf(T, f), g.val[f])]]

\* MarshalJSON fails when no carrier is set.
Encodes(T, g) == T.carriers = << >> \/ FirstCarrier(T, g.val, "zero") # ""

Encode(T, g) == IF T.carriers = << >> THEN EncodeFields(T, g) ELSE EncodeCarrier(T, g)

-----------------------------------------------------------------------------
(* Notation of the tables *)

Fields(k, omit, r, keys) == [f \in keys |-> [kind |-> k, omit |-> omit, rule |-> r]]

\* A field that is always written, one that is left out when it is empty, and
\* one that is in addition decoded leniently.
Always(k, keys) == Fields(k, "never", Direct, keys)
Optional(k, keys) == Fields(k, "empty", Direct, keys)
Lenient(k, keys) == Fields(k, "empty", Lax, keys)
ItemWise(k, omit, keys) == Fields(k, omit, Items(k), keys)
Metadata == Fields("map", "zero", Direct, {"_meta"})

Nothing == [x \in {} |-> {}]
Each(vs, r) == [v \in vs |-> r]

\* A type whose zero value is where users begin; lists are its required slices.
Lists(fields, lists) ==
    [fields |-> fields, by |-> Nothing, need |-> ("" :> lists), nulls |-> Nothing,
     carriers |-> << >>,
     ctors |-> {<<"", {f \in DOMAIN fields : fields[f].omit = "never"}>>}]
Object(fields) == Lists(fields, {})

BuiltBy(T, ctors) == [T EXCEPT !.ctors = ctors]
SendsNulls(T, nulls) == [T EXCEPT !.nulls = nulls]

\* A type with NullFields: every key that is not required can be sent as null.
NullAware(fields, required) ==
    SendsNulls(Object(fields), "" :> (DOMAIN fields \ required))

\* A union whose constructors take what the variant requires, and common.
Union(fields, by, need, common) ==
    [fields |-> fields, by |-> by, need |-> need, nulls |-> Nothing,
     carriers |-> << >>,
     ctors |-> {<<v, need[v] \cup common>> : v \in DOMAIN need}]

\* A union whose variants are told apart by the key that they require.
CarrierUnion(fields, carriers) ==
    [Object(fields) EXCEPT !.carriers = carriers,
                           !.ctors = {<<"", {carriers[i]}>> : i \in DOMAIN carriers}]
=============================================================================
