---------------------------- MODULE MessageTypes ----------------------------
(***************************************************************************)
(* The journey of one protocol message: a program builds a value with a    *)
(* constructor and sets a field, the value is marshalled, a peer that is   *)
(* newer, older or careless may have written one field differently, the    *)
(* receiver unmarshals what it got, and a proxy sends what it understood   *)
(* on to the next receiver.                                                *)
(***************************************************************************)
EXTENDS GenCode, FiniteSets

CONSTANTS
    Catalog,     \* the types that are sent: a sequence of records with the name,
                 \* the type, and for a union the type that stands alone for
                 \* each variant
    MaxHops      \* bound: how often a message is sent on

ASSUME CatalogAssumption ==
    /\ \A i \in DOMAIN Catalog : DOMAIN Catalog[i] = {"name", "type", "alone"}
    /\ MaxHops \in Nat

\* A decode rule is one of those of GenCode, a tag one of Go's, and a union whose
\* variants are told apart by a required key, one of its keys, has no discriminator,
\* no rules by variant and keeps no null apart.
IsRule(r) ==
    r.via \in {"place", "temp", "enum", "items", "none"} /\ r.lax \in BOOLEAN /\ r.keep \in BOOLEAN
RulesFit(T) ==
    /\ \A f \in Keys(T) : IsRule(T.fields[f].rule) /\ T.fields[f].omit \in {"never", "zero", "empty"}
    /\ \A f \in DOMAIN T.by : \A t \in DOMAIN T.by[f] : IsRule(T.by[f][t])
    /\ T.carriers \in Seq(Keys(T))
    /\ T.carriers # << >> =>
         /\ DOMAIN T.by = {} /\ \A f \in Keys(T) : ~T.fields[f].rule.keep
         /\ \A c \in T.ctors : c[1] = ""

\* A key that keeps null apart, in a variant that has a constructor, is one that
\* MarshalJSON looks up in NullFields, does not always write, and omits when nil.
NullsFit(T) ==
    \A c \in T.ctors, f \in Keys(T) : RuleOf(T, c[1], f).keep =>
        /\ f \in At(T.nulls, c[1]) \ Needed(T, c[1])
        /\ Omitted(KindOf(T, f), T.fields[f].omit, "zero")

\* Conversely a key of which null can be sent keeps null apart, and is none that a
\* constructor sets.
NullsRead(T) ==
    \A c \in T.ctors : \A f \in Keys(T) \cap At(T.nulls, c[1]) :
        RuleOf(T, c[1], f).keep /\ f \notin c[2]

\* Keys and discriminators are none of the names that the model uses for others.
NamesFit(T) == "" \notin Keys(T) /\ \A c \in T.ctors : c[1] # "bad"

\* A variant's field is decoded into a variable of the field's own kind, unless the
\* field is a pointer or an any; and item by item only into a slice or an any.
KindsFit(T) ==
    \A c \in T.ctors, f \in Keys(T) :
        LET r == RuleOf(T, c[1], f)
            k == KindOf(T, f)
        IN  /\ r.via = "temp" => r.src = k \/ k \in Pointers \cup {"any"}
            /\ r.via = "items" => k \in {"slice", "ptrslice", "any"}

\* The variant tag sends a nil in f as null, and what it makes of null.
NilIsNull(T, tag, f) ==
    LET k == KindOf(T, f)
    IN  /\ k \notin {"scalar", "struct"}
        /\ IF f \in Needed(T, tag) THEN k # "slice"
           ELSE ~Omitted(k, T.fields[f].omit, "zero")
NullIsRead(T, tag, f) == DecodeField(KindOf(T, f), RuleOf(T, tag, f), "null").val

\* A nil that is sent as null is not read as a value that is not nil but is null.
NilsFit(T) ==
    \A c \in T.ctors, f \in Keys(T) :
        NilIsNull(T, c[1], f) => NullIsRead(T, c[1], f) # "nilptr"

\* A nil that is sent as null and read as an empty value drifts: it is a key that the
\* variant requires, that is not decoded leniently and that no message without a
\* known variant has.
Drifts(T, tag, f) == NilIsNull(T, tag, f) /\ NullIsRead(T, tag, f) = "empty"
DriftsFit(T) ==
    \A c \in T.ctors, f \in Keys(T) :
        /\ Drifts(T, c[1], f) => ~RuleOf(T, c[1], f).lax
        /\ c[1] # "" => ~Drifts(T, "?", f)

TypeFits(T) ==
    /\ RulesFit(T) /\ NullsFit(T) /\ NullsRead(T) /\ NamesFit(T)
    /\ KindsFit(T) /\ NilsFit(T) /\ DriftsFit(T)

\* A field whose variants have incompatible types, and no decoder of their own,
\* is an any, and one that may hold any JSON value a json.RawMessage:
\* UnmarshalJSON takes whatever the peer wrote.
Opaque(U, f) == KindOf(U, f) \in {"any", "raw"} /\ f \notin DOMAIN U.by

\* Kinds of which encoding/json takes the same JSON values, but for null.
Alike(k, l) ==
    \E F \in {{"ptr", "scalar", "struct"}, {"slice", "ptrslice"}, {"map"}} : {k, l} \subseteq F
Source(k, r) == IF r.via = "place" THEN k ELSE r.src

\* A variant of U decodes f by the rule of the type S that stands alone for it.
ReadsAlike(S, U, tag, f) ==
    LET k == KindOf(S, f)
        r == RuleOf(S, "", f)
        q == RuleOf(U, tag, f)
        value == {"place", "temp"}
    IN  /\ r.lax = q.lax /\ r.keep = q.keep
        /\ IF r.via \in value
           THEN q.via \in value /\ Source(k, r) = k /\ Alike(k, Source(KindOf(U, f), q))
           ELSE q.via = r.via /\ q.src = r.src /\ r.via # "none"

\* What S always writes is a list or a value that cannot be nil, is not lenient unless it
\* is a list, and is written by the variant; what S may omit the variant may omit.
WritesAlike(S, U, tag, f) ==
    LET k == KindOf(S, f)
        l == KindOf(U, f)
        r == RuleOf(S, "", f)
        q == RuleOf(U, tag, f)
        always == f \in Needed(U, tag) \/ U.fields[f].omit = "never"
    IN  IF S.fields[f].omit = "never"
        THEN IF k = "slice" THEN l = "slice" /\ f \in Needed(S, "") \cap Needed(U, tag)
             ELSE /\ k \in {"scalar", "struct"} /\ r.via = "place" /\ ~r.lax
                  /\ l \notin Collections
                  /\ \/ always
                     \/ /\ q.via = "temp" /\ q.src \notin Pointers
                        /\ l \in Pointers \cup {"any"}
        ELSE ~always /\ f \notin Needed(S, "")

\* S is the type that stands alone for the variant tag of the union U.
VariantFits(S, U, tag) ==
    /\ TypeFits(S) /\ S.carriers = << >> /\ U.carriers = << >>
    /\ Keys(S) \subseteq Keys(U) /\ tag # "bad" /\ \E c \in U.ctors : c[1] = tag
    /\ "" \in {c[1] : c \in S.ctors}
    /\ \A f \in Keys(S) : ~Opaque(U, f) =>
         /\ ReadsAlike(S, U, tag, f) /\ WritesAlike(S, U, tag, f)
         /\ f \in At(S.nulls, "") <=> f \in At(U.nulls, tag)

ASSUME TypesAssumption ==
    \A i \in DOMAIN Catalog :
        LET U == Catalog[i].type
            alone == Catalog[i].alone
        IN  TypeFits(U) /\ \A tag \in DOMAIN alone : VariantFits(alone[tag], U, tag)

VARIABLES
    stage,   \* "idle", "built", "wire", "seen" or "refused"
    typ,     \* the message's type: an element of Catalog
    msg,     \* the Go value that is sent
    wire,    \* the JSON message
    seen,    \* the Go value that was unmarshalled
    alter,   \* what the peer wrote differently: [key, shape]
    prev,    \* the JSON message that arrived at the previous receiver
    hops

vars == <<stage, typ, msg, wire, seen, alter, prev, hops>>

None == [tag |-> "", body |-> << >>]
NoValue == [ok |-> TRUE, tag |-> "", val |-> << >>, nulls |-> {}]
Unaltered == [key |-> "", shape |-> "absent"]

TypeOf == typ.type

\* The values that a program may give a field.
GoValues(k) ==
    {"zero", "good"} \cup (IF k \in {"scalar", "struct", "raw"} THEN {} ELSE {"empty"})

\* What a peer may write where a field is expected.
WireValues(T, tag, f) ==
    {"absent", "null", "empty", "good", "bad"}
    \cup (IF RuleOf(T, tag, f).via = "items" THEN {"mixed"} ELSE {})
    \cup (IF RuleOf(T, tag, f).via = "enum" THEN {"alien"} ELSE {})

-----------------------------------------------------------------------------
Init ==
    /\ stage = "idle" /\ \E i \in DOMAIN Catalog : typ = Catalog[i]
    /\ msg = NoValue /\ wire = None /\ seen = NoValue /\ prev = None
    /\ alter = Unaltered /\ hops = 0

\* A constructor, which sets the keys of c.
Constructed(T, c) ==
    [ok |-> TRUE, tag |-> c[1], nulls |-> {},
     val |-> [f \in Keys(T) |-> IF f \in c[2] THEN "good" ELSE "zero"]]

\* A program constructs a message.
Construct(c) ==
    /\ stage = "idle"
    /\ msg' = Constructed(TypeOf, c)
    /\ stage' = "built"
    /\ UNCHANGED <<typ, wire, seen, alter, prev, hops>>

\* The same, and one field is set, or listed in NullFields.
ConstructWith(c, f) ==
    /\ stage = "idle"
    /\ LET g == Constructed(TypeOf, c)
       IN  \/ \E v \in GoValues(KindOf(TypeOf, f)) \ {g.val[f]} :
                 msg' = [g EXCEPT !.val[f] = v]
           \/ /\ f \in At(TypeOf.nulls, g.tag)
              /\ msg' = [g EXCEPT !.nulls = {f}]
    /\ stage' = "built"
    /\ UNCHANGED <<typ, wire, seen, alter, prev, hops>>

MarshalJSON ==
    /\ stage = "built"
    /\ IF Encodes(TypeOf, msg)
       THEN wire' = Encode(TypeOf, msg) /\ stage' = "wire"
       ELSE wire' = None /\ stage' = "refused"
    /\ UNCHANGED <<typ, msg, seen, alter, prev, hops>>

\* The sender is another implementation and writes f as j, or names a variant
\* that this library does not know, or a discriminator that is not a string.
Untouched == stage = "wire" /\ hops = 0 /\ alter = Unaltered

PeerWrites(f, j) ==
    /\ Untouched /\ j # wire.body[f]
    /\ \E c \in TypeOf.ctors : msg = Constructed(TypeOf, c)
    /\ wire' = [wire EXCEPT !.body[f] = j]
    /\ alter' = [key |-> f, shape |-> j]
    /\ UNCHANGED <<stage, typ, msg, seen, prev, hops>>

PeerNames(tag) ==
    /\ Untouched /\ wire.tag # "" /\ wire.tag # tag
    /\ wire' = [wire EXCEPT !.tag = tag]
    /\ alter' = [key |-> "", shape |-> tag]
    /\ UNCHANGED <<stage, typ, msg, seen, prev, hops>>

UnmarshalJSON ==
    /\ stage = "wire"
    /\ seen' = Decode(TypeOf, wire)
    /\ stage' = IF seen'.ok THEN "seen" ELSE "refused"
    /\ UNCHANGED <<typ, msg, wire, alter, prev, hops>>

\* A proxy sends the value that it received.
Forward ==
    /\ stage = "seen" /\ hops < MaxHops
    /\ msg' = seen /\ prev' = wire /\ hops' = hops + 1
    /\ stage' = "built"
    /\ UNCHANGED <<typ, wire, seen, alter>>

Finished ==
    /\ stage = "refused" \/ (stage = "seen" /\ hops = MaxHops)
    /\ UNCHANGED vars

Next ==
    \/ \E c \in TypeOf.ctors : Construct(c)
    \/ \E c \in TypeOf.ctors, f \in Keys(TypeOf) : ConstructWith(c, f)
    \/ MarshalJSON
    \/ \E f \in Keys(TypeOf) : \E j \in WireValues(TypeOf, wire.tag, f) : PeerWrites(f, j)
    \/ \E tag \in {"?", "bad"} : PeerNames(tag)
    \/ UnmarshalJSON
    \/ Forward
    \/ Finished

Spec == Init /\ [][Next]_vars

-----------------------------------------------------------------------------
(* Properties *)

\* The fields that the variant of g has: those that UnmarshalJSON reads for it.
Read(T, g, f) ==
    IF IsCarrier(T, f) THEN f = FirstCarrier(T, g.val, "zero")
    ELSE RuleOf(T, g.tag, f).via # "none"

\* A field that the variant requires, which is a pointer or an any because
\* another variant may omit it or gives it another type, and that the program left
\* nil: it is sent as null and read as the zero value of the variant's type.
Unset(T, g, f) ==
    /\ g.val[f] = "zero" /\ KindOf(T, f) \in Pointers \cup {"any"}
    /\ RuleOf(T, g.tag, f).via # "place" /\ RuleOf(T, g.tag, f).src \notin Pointers

\* A nil and an empty collection mean the same, "" is no string of an enum, and
\* a zero struct that carries the variant has its required properties.
Same(T, g, f, v) ==
    \/ g.val[f] = v
    \/ KindOf(T, f) \in Collections /\ {g.val[f], v} = {"zero", "empty"}
    \/ RuleOf(T, g.tag, f).via = "enum" /\ g.val[f] = "empty" /\ v = "zero"
    \/ IsCarrier(T, f) /\ KindOf(T, f) = "ptr" /\ g.val[f] = "empty" /\ v = "good"

\* What MarshalJSON writes, UnmarshalJSON reads back: no message that the
\* library wrote itself is refused, and every field of the variant, null or not,
\* arrives as it was sent.
RoundTrip ==
    alter = Unaltered =>
        /\ stage = "refused" => ~Encodes(TypeOf, msg)
        /\ stage = "seen" =>
              /\ seen.tag = msg.tag /\ seen.nulls = msg.nulls
              /\ \A f \in Keys(TypeOf) :
                    Read(TypeOf, msg, f) /\ ~Unset(TypeOf, msg, f)
                        => Same(TypeOf, msg, f, seen.val[f])

\* A wire message that has what the type that stands alone for its variant
\* requires; and the message with the keys of that type.
Carries(S, w) ==
    \A f \in Keys(S) : S.fields[f].omit = "never" =>
        w.body[f] # "absent" /\ (KindOf(S, f) \notin Pointers => w.body[f] # "null")
Strip(S, w) == [tag |-> "", body |-> [f \in Keys(S) |-> w.body[f]]]

\* What one type may write and the other leave out, of an optional field that came as
\* j: an empty value, since a variant that shares a by-value field omits what a pointer
\* writes; and null, but only if the peer wrote null.  The type that stands alone reads
\* that as a nil and omits it; in the field of the union a nil pointer may be in an
\* any, and a nil slice behind a pointer, and both are sent on as null.
Blank(j) == {"absent", "empty"} \cup ({"null"} \cap {j})

\* A variant of a union is the type that it names: UnmarshalJSON of the union
\* accepts a message exactly when UnmarshalJSON of the variant's own type does,
\* and both send the same message on; neither invents a null.
VariantAgrees ==
    stage = "wire" /\ wire.tag \in DOMAIN typ.alone =>
        LET S == typ.alone[wire.tag]
            U == TypeOf
            alone == Decode(S, Strip(S, wire))
            joint == Decode(U, wire)
            sentAlone == Encode(S, alone)
            sentJoint == Encode(U, joint)
            shared == {f \in Keys(S) : ~Opaque(U, f)}
        IN  Carries(S, wire) /\ (alter.key = "" \/ alter.key \in shared) =>
                /\ alone.ok = joint.ok
                /\ joint.ok => \A f \in shared :
                      \/ sentAlone.body[f] = sentJoint.body[f]
                      \/ /\ S.fields[f].omit # "never"
                         /\ {sentAlone.body[f], sentJoint.body[f]} \subseteq Blank(wire.body[f])

\* The message as it would be had the peer not written the field that it wrote
\* differently.
Without(w, f) == [w EXCEPT !.body[f] = "absent"]

Lenience(T, tag, f) == ~IsCarrier(T, f) /\ RuleOf(T, tag, f).lax

TakesAll(T, r, f) ==
    (IF r.via = "place" THEN KindOf(T, f) ELSE r.src) \in {"any", "raw", "ptrraw"}

\* The peer got a field wrong that is marked x-deserialize-default-on-error, in a
\* message that would be accepted without it.
GotWrong(f) ==
    /\ f # "" /\ hops = 0 /\ stage \in {"seen", "refused"}
    /\ Lenience(TypeOf, wire.tag, f) /\ Decode(TypeOf, Without(wire, f)).ok

\* The field failed to decode.
Failed(f) ==
    /\ GotWrong(f) /\ alter.shape \in {"bad", "alien"}
    /\ ~TakesAll(TypeOf, RuleOf(TypeOf, wire.tag, f), f)

\* A pointer that is decoded in place is allocated before its value fails to decode.
InPlacePointer(f) ==
    RuleOf(TypeOf, wire.tag, f).via = "place" /\ KindOf(TypeOf, f) \in Pointers

\* A field marked x-deserialize-default-on-error that the peer got wrong costs
\* that field only: the message is accepted, every other field is what it would
\* be without it, of an array the valid items are kept, and a field that failed to
\* decode stays at its zero value.  Of pointers that are decoded in place the last is
\* false, see BadFieldIsZero.
BadFieldIsContained ==
    LET f == alter.key
        clean == Decode(TypeOf, Without(wire, f))
    IN  /\ GotWrong(f) =>
             /\ stage = "seen"
             /\ \A x \in Keys(TypeOf) \ {f} : seen.val[x] = clean.val[x]
             /\ alter.shape = "mixed" => seen.val[f] = "good"
        /\ Failed(f) /\ ~InPlacePointer(f) => seen.val[f] = "zero"

\* What src/internal/schemagen/doc.go:116-118 says of fields marked
\* x-deserialize-default-on-error: UnmarshalJSON leaves the field at its Go zero value
\* when only that field fails to decode.  The code decodes a field that all variants
\* declare alike in place, which allocates a pointer first.
BadFieldIsZero == Failed(alter.key) => seen.val[alter.key] = "zero"

\* A proxy that forwards what it decoded neither invents nor loses an explicit
\* null in a field for which null and absence mean different things, if it knows
\* the variant.
NullIsForwarded ==
    stage = "wire" /\ hops > 0 /\ (\E c \in TypeOf.ctors : c[1] = prev.tag) =>
        \A f \in Keys(TypeOf) :
            RuleOf(TypeOf, prev.tag, f).keep =>
                /\ prev.body[f] = "null" <=> wire.body[f] = "null"
                /\ prev.body[f] = "absent" => wire.body[f] = "absent"

\* The peer left out a field that its variant, or every variant, requires.
Incomplete ==
    /\ alter.shape = "absent" /\ alter.key # ""
    /\ alter.key \in Needed(TypeOf, msg.tag) \/ TypeOf.fields[alter.key].omit = "never"

\* Forwarding settles: what a second proxy sends is what the first one sent.
ForwardingSettles ==
    stage = "wire" /\ hops > 1 /\ ~Incomplete => wire = prev

-----------------------------------------------------------------------------
(* The inductive invariant *)

GoShapes == (Shapes \ {"absent", "null"}) \cup {"zero", "husk", "nilptr"}

\* A Go value has a value for each field, a JSON message one for each key.
GoValue(T, g) ==
    g.val = [f \in Keys(T) |-> g.val[f]] /\ \A f \in Keys(T) : g.val[f] \in GoShapes
Message(T, w) ==
    /\ w = [tag |-> w.tag, body |-> w.body]
    /\ w.body = [f \in Keys(T) |-> w.body[f]]
    /\ \A f \in Keys(T) : w.body[f] \in Shapes

\* What is sent and what arrives are values and messages of the message's type.
WellTyped ==
    /\ TypeFits(TypeOf)
    /\ hops \in Nat /\ stage \in {"idle", "built", "wire", "seen", "refused"}
    /\ stage = "built" => GoValue(TypeOf, msg)
    /\ stage \in {"wire", "seen"} => Message(TypeOf, wire)

\* What the peer wrote differently is on the wire until the message is sent on,
\* and is one of the things that it may write there.
AlteredOnce ==
    /\ stage = "idle" => hops = 0
    /\ stage \in {"idle", "built"} /\ hops = 0 => alter = Unaltered
    /\ alter.key # "" /\ hops = 0 =>
         /\ Message(TypeOf, wire) /\ alter.key \in Keys(TypeOf)
         /\ wire.body[alter.key] = alter.shape
         /\ alter.shape \in WireValues(TypeOf, wire.tag, alter.key)

\* What the receiver saw is what UnmarshalJSON makes of the message on the wire, and
\* a proxy's message what MarshalJSON makes of what it saw.
Decoded ==
    /\ stage = "seen" => seen = Decode(TypeOf, wire) /\ seen.ok
    /\ stage = "refused" /\ alter.key # "" /\ hops = 0
         => seen = Decode(TypeOf, wire) /\ ~seen.ok
    /\ stage \in {"built", "wire", "seen"} /\ hops > 0
         => Message(TypeOf, prev) /\ msg = Decode(TypeOf, prev) /\ msg.ok
    /\ stage \in {"wire", "seen"} /\ hops > 0 => wire = Encode(TypeOf, msg)

IInv == WellTyped /\ AlteredOnce /\ Decoded

\* The shapes and values of which the library writes and makes no others.
CleanShapes == {"absent", "null", "empty", "good"}
CleanValues == {"zero", "good", "empty", "nilptr"}

\* A value that the library built itself, or decoded from what it wrote itself.
Clean(T, g) ==
    /\ \E c \in T.ctors : g.tag = c[1]
    /\ \A f \in Keys(T) :
         /\ g.val[f] \in CleanValues
         /\ g.val[f] = "empty" => KindOf(T, f) \notin {"scalar", "struct"}
         /\ g.val[f] = "nilptr" => IF IsCarrier(T, f) THEN KindOf(T, f) # "ptr"
                                   ELSE NullIsRead(T, g.tag, f) = "nilptr"
    /\ \A f \in g.nulls : f \in Keys(T) \cap At(T.nulls, g.tag) /\ g.val[f] = "zero"

\* As long as the peer wrote nothing differently, what is sent is clean, and nothing is
\* refused but what MarshalJSON itself refuses.
Untampered ==
    alter = Unaltered =>
        /\ stage \in {"built", "wire", "seen"} => Clean(TypeOf, msg)
        /\ stage \in {"wire", "seen"} => wire = Encode(TypeOf, msg) /\ Encodes(TypeOf, msg)
        /\ stage = "refused" => ~Encodes(TypeOf, msg)

\* A message without carriers has every key that drifts, and none of them is decoded
\* leniently.
Provided(T, w) ==
    T.carriers = << >> =>
        \A f \in Keys(T) :
            Drifts(T, w.tag, f) => w.body[f] # "absent" /\ ~RuleOf(T, w.tag, f).lax

\* The variant that was sent is the one that arrived, unless the peer named another.
TagKept ==
    /\ stage \in {"built", "wire"} /\ hops = 0 => \E c \in TypeOf.ctors : msg.tag = c[1]
    /\ stage \in {"built", "wire", "seen"} /\ TypeOf.carriers # << >> => msg.tag = ""
    /\ stage \in {"wire", "seen"} /\ (alter = Unaltered \/ alter.key # "")
         => wire.tag = msg.tag

\* Unless the peer left out what is required, the message that the first proxy got
\* has every key that drifts, and what it sent is what every later one sends.
Settling ==
    ~Incomplete =>
        /\ stage \in {"wire", "seen"} /\ hops = 0 /\ wire.tag # "bad" => Provided(TypeOf, wire)
        /\ stage \in {"built", "wire", "seen"} /\ hops = 1 => Provided(TypeOf, prev)
        /\ stage \in {"built", "wire", "seen"} /\ hops > 1
             => Encode(TypeOf, Decode(TypeOf, prev)) = prev

\* The types that stand alone go with the union, and what the peer wrote differently
\* stays in its field, in a type without carriers.
Elsewhere ==
    /\ \A tag \in DOMAIN typ.alone : VariantFits(typ.alone[tag], TypeOf, tag)
    /\ TypeOf.carriers = << >> =>
         \A f \in Keys(TypeOf) \ {alter.key} :
            /\ stage = "built" => msg.val[f] \in CleanValues
            /\ stage \in {"wire", "seen"} => wire.body[f] \in CleanShapes

JourneyInv == IInv /\ Untampered /\ TagKept /\ Settling /\ Elsewhere
=============================================================================
