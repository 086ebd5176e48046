------------------------- MODULE MessageTypesProofs -------------------------
(***************************************************************************)
(* TLAPS proofs about protocol messages: what MarshalJSON and              *)
(* UnmarshalJSON do to them, for every catalog of types whose rules are    *)
(* those of the generator, and any number of proxies.                      *)
(***************************************************************************)
EXTENDS MessageTypes, WellFoundedInduction, TLAPS

-----------------------------------------------------------------------------
(* One field *)

\* The rule of a key is one of the rules of GenCode, whatever the discriminator.
LEMMA RuleFits ==
    ASSUME NEW T, RulesFit(T), NEW tag, NEW f \in Keys(T)
    PROVE  IsRule(RuleOf(T, tag, f))
<1>1. IsRule(Ignored)
  BY DEF Ignored, Rule, IsRule
<1>2. CASE f \notin DOMAIN T.by
  BY <1>2 DEF RulesFit, RuleOf
<1>3. CASE f \in DOMAIN T.by
  <2>1. CASE tag \in DOMAIN T.by[f]
    BY <1>3, <2>1 DEF RulesFit, RuleOf
  <2>2. CASE tag \notin DOMAIN T.by[f] /\ "" \in DOMAIN T.by[f]
    BY <1>3, <2>2 DEF RulesFit, RuleOf
  <2>3. CASE tag \notin DOMAIN T.by[f] /\ "" \notin DOMAIN T.by[f]
    BY <1>1, <1>3, <2>3 DEF RuleOf
  <2> QED BY <2>1, <2>2, <2>3
<1> QED BY <1>2, <1>3

\* What encoding/json makes of a value that is there and not null: no pointer that
\* encodes as null, and nothing at all unless it failed or has nothing to hold.
LEMMA UnmarshalShape ==
    ASSUME NEW k, NEW j \in Shapes
    PROVE  /\ Unmarshal(k, j).val \in GoShapes
           /\ j # "null" => Unmarshal(k, j).val # "nilptr"
           /\ j # "null" /\ j # "absent" /\ ~Unmarshal(k, j).err /\ k \notin {"scalar", "struct"}
                => Unmarshal(k, j).val # "zero"
           /\ Unmarshal(k, j).err \in BOOLEAN
BY DEF Unmarshal, Shapes, GoShapes

\* What UnmarshalJSON makes of one field: a lenient rule drops the error, a key that
\* is absent or keeps null apart leaves the field alone, and a field that keeps null
\* apart never holds what would be sent as null.
LEMMA FieldShape ==
    ASSUME NEW k, NEW r, IsRule(r), NEW j \in Shapes
    PROVE  LET d == DecodeField(k, r, j) IN
           /\ d.val \in GoShapes
           /\ r.lax => ~d.err
           /\ j = "absent" \/ (j = "null" /\ r.keep) => d.val = "zero"
           /\ r.keep => d.val # "nilptr"
<1> DEFINE d == DecodeField(k, r, j)
<1>1. CASE j = "absent" \/ r.via = "none" \/ KeepsNull(r, j)
  <2>1. d = [err |-> FALSE, val |-> "zero"]
    BY <1>1 DEF DecodeField
  <2> QED BY <2>1 DEF GoShapes
<1>2. CASE ~(j = "absent" \/ r.via = "none" \/ KeepsNull(r, j))
  <2>1. j # "absent" /\ ~(j = "null" /\ r.keep)
    BY <1>2 DEF KeepsNull
  <2>2. CASE r.via = "place"
    <3>1. d = Place(k, r, j)
      BY <1>2, <2>2 DEF DecodeField
    <3>2. d.val = Unmarshal(k, j).val /\ d.err = (Unmarshal(k, j).err /\ ~r.lax)
      BY <3>1 DEF Place
    <3>3. j = "null" => ~r.keep
      BY <2>1
    <3> QED BY <2>1, <3>2, <3>3, UnmarshalShape
  <2>3. CASE r.via = "temp"
    <3> DEFINE u == Unmarshal(r.src, j)
    <3>1. d = Assign(k, r, j)
      BY <1>2, <2>3 DEF DecodeField
    <3>2. CASE u.err
      <4>1. d.val = "zero" /\ d.err = (u.err /\ ~r.lax)
        BY <3>1, <3>2 DEF Assign
      <4>2. d.val \in GoShapes
        BY <4>1 DEF GoShapes
      <4> QED BY <2>1, <4>1, <4>2
    <3>3. CASE ~u.err
      <4>1. d.val = Convert(r.src, k, u.val) /\ ~d.err
        <5> HIDE DEF u
        <5>1. Assign(k, r, j) = [err |-> u.err /\ ~r.lax,
                                 val |-> IF u.err THEN "zero" ELSE Convert(r.src, k, u.val)]
          BY DEF Assign, u
        <5>2. d.err = (u.err /\ ~r.lax)
          BY <3>1, <5>1
        <5>3. d.val = Convert(r.src, k, u.val)
          BY <3>1, <3>3, <5>1
        <5> QED BY <3>3, <5>2, <5>3
      <4>2. u.val \in GoShapes
        BY UnmarshalShape
      <4>3. Convert(r.src, k, u.val) \in GoShapes
        <5>1. \A v \in GoShapes : Convert(r.src, k, v) \in {v, "nilptr", "empty"}
          BY DEF Convert, Boxed
        <5>2. {"nilptr", "empty"} \subseteq GoShapes
          BY DEF GoShapes, Shapes
        <5> QED BY <4>2, <5>1, <5>2
      <4>4. r.keep => u.val # "nilptr" /\ (r.src \notin {"scalar", "struct"} => u.val # "zero")
        BY <2>1, <3>3, UnmarshalShape
      <4>5. r.keep => Convert(r.src, k, u.val) # "nilptr"
        BY <4>2, <4>4 DEF Convert, Boxed, GoShapes, Pointers, Collections
      <4> QED BY <2>1, <4>1, <4>3, <4>5
    <3> QED BY <3>2, <3>3
  <2>4. CASE r.via = "enum"
    <3>1. d = AssignKnown(k, r, j)
      BY <1>2, <2>4 DEF DecodeField
    <3> QED BY <2>1, <3>1 DEF AssignKnown, GoShapes, Shapes
  <2>5. CASE r.via = "items"
    <3>1. d = KeepValid(k, r, j)
      BY <1>2, <2>5 DEF DecodeField
    <3>2. d.val \in {"good", "empty", "zero"} /\ d.err = (j \in {"bad", "alien"} /\ ~r.lax)
      BY <3>1 DEF KeepValid
    <3> QED BY <2>1, <3>2 DEF GoShapes, Shapes
  <2> QED BY <1>2, <2>2, <2>3, <2>4, <2>5 DEF IsRule
<1> QED BY <1>1, <1>2

\* A pointer that is decoded in place.
Allocates(T, r, f) == r.via = "place" /\ KindOf(T, f) \in Pointers

\* What a lenient rule makes of a value that the peer got wrong: nothing, unless it
\* allocates a pointer first, or the valid items.
LEMMA WrongValue ==
    ASSUME NEW T, NEW f \in Keys(T), NEW r, IsRule(r), r.lax, NEW j,
           j \in {"bad", "mixed", "alien"},
           j = "mixed" => r.via = "items", j = "alien" => r.via = "enum"
    PROVE  LET v == DecodeField(KindOf(T, f), r, j).val IN
           /\ j # "mixed" /\ ~TakesAll(T, r, f) /\ ~Allocates(T, r, f) => v = "zero"
           /\ j = "mixed" => v = "good"
<1> DEFINE k == KindOf(T, f)
           d == DecodeField(k, r, j)
<1>1. ~KeepsNull(r, j) /\ j # "absent"
  BY DEF KeepsNull
<1>2. CASE r.via = "none"
  BY <1>2 DEF DecodeField
<1>3. CASE r.via = "place"
  <2>1. j = "bad" /\ d = Place(k, r, j)
    BY <1>1, <1>3 DEF DecodeField
  <2>2. ~TakesAll(T, r, f) /\ ~Allocates(T, r, f) => Unmarshal(k, j).val = "zero"
    BY <1>3, <2>1 DEF TakesAll, Allocates, Unmarshal
  <2> QED BY <1>3, <2>1, <2>2 DEF Place
<1>4. CASE r.via = "temp"
  <2>1. j = "bad" /\ d = Assign(k, r, j)
    BY <1>1, <1>4 DEF DecodeField
  <2>2. ~TakesAll(T, r, f) => Unmarshal(r.src, j).err
    BY <1>4, <2>1 DEF TakesAll, Unmarshal
  <2> QED BY <2>1, <2>2 DEF Assign
<1>5. CASE r.via = "enum"
  <2>1. d = AssignKnown(k, r, j) /\ j # "mixed"
    BY <1>1, <1>5 DEF DecodeField
  <2> QED BY <2>1 DEF AssignKnown
<1>6. CASE r.via = "items"
  <2>1. d = KeepValid(k, r, j) /\ j # "alien"
    BY <1>1, <1>6 DEF DecodeField
  <2> QED BY <2>1 DEF KeepValid
<1> QED BY <1>2, <1>3, <1>4, <1>5, <1>6 DEF IsRule

-----------------------------------------------------------------------------
(* A message *)

\* UnmarshalJSON of a type without carriers decodes each field by its rule.
LEMMA DecodeByField ==
    ASSUME NEW T, T.carriers = << >>, NEW w
    PROVE  /\ Decode(T, w).tag = w.tag
           /\ Decode(T, w).val =
                [x \in Keys(T) |-> DecodeField(KindOf(T, x), RuleOf(T, w.tag, x), w.body[x]).val]
           /\ \A x \in Keys(T) :
                x \in Decode(T, w).nulls <=> KeepsNull(RuleOf(T, w.tag, x), w.body[x])
           /\ Decode(T, w).ok =
                (w.tag # "bad" /\
                 \A x \in Keys(T) :
                   ~DecodeField(KindOf(T, x), RuleOf(T, w.tag, x), w.body[x]).err)
<1> DEFINE g == Decode(T, w)
           one == [x \in Keys(T) |-> DecodeField(KindOf(T, x), RuleOf(T, w.tag, x), w.body[x])]
<1>1. g = [ok |-> w.tag # "bad" /\ \A x \in Keys(T) : ~one[x].err,
           tag |-> w.tag,
           val |-> [x \in Keys(T) |-> one[x].val],
           nulls |-> {x \in Keys(T) : KeepsNull(RuleOf(T, w.tag, x), w.body[x])}]
  BY DEF Decode, DecodeFields
<1>2. /\ g.tag = w.tag
      /\ g.val = [x \in Keys(T) |-> one[x].val]
      /\ g.nulls = {x \in Keys(T) : KeepsNull(RuleOf(T, w.tag, x), w.body[x])}
  BY <1>1
<1>3. g.ok = (w.tag # "bad" /\ \A x \in Keys(T) : ~one[x].err)
  <2> HIDE DEF one, g
  <2> QED BY <1>1
<1> QED BY <1>2, <1>3

\* Every set of numbers that has a member has a least one.
LEMMA LeastExists ==
    ASSUME NEW S \in SUBSET Nat, S # {}
    PROVE  \E i \in S : \A j \in S : i <= j
<1>1. PICK i \in S : \A j \in S : ~(<<j, i>> \in OpToRel(<, Nat))
  BY NatLessThanWellFounded, WFMin
<1>2. \A j \in S : ~(j < i)
  BY <1>1 DEF OpToRel
<1> QED BY <1>2

\* The carrier that is found is one of the type's keys, and is there.
LEMMA CarrierFound ==
    ASSUME NEW T, T.carriers \in Seq(Keys(T)), NEW x, NEW missing,
           NEW c, c = FirstCarrier(T, x, missing)
    PROVE  c = "" \/ (c \in Keys(T) /\ IsCarrier(T, c) /\ x[c] # missing)
<1> DEFINE there == {i \in DOMAIN T.carriers : x[T.carriers[i]] # missing}
<1>1. CASE there = {}
  BY <1>1 DEF FirstCarrier
<1>2. CASE there # {}
  <2>1. there \in SUBSET Nat
    OBVIOUS
  <2>2. \E i \in there : \A j \in there : i <= j
    BY <1>2, <2>1, LeastExists
  <2>3. PICK i \in there : c = T.carriers[i]
    BY <1>2, <2>2 DEF FirstCarrier
  <2>4. i \in DOMAIN T.carriers /\ x[T.carriers[i]] # missing /\ T.carriers[i] \in Keys(T)
    BY <2>3
  <2> QED BY <2>3, <2>4 DEF IsCarrier
<1> QED BY <1>1, <1>2

\* UnmarshalJSON makes a Go value of a message.
LEMMA DecodesToValue ==
    ASSUME NEW T, RulesFit(T), NEW w, Message(T, w)
    PROVE  GoValue(T, Decode(T, w))
<1>1. CASE T.carriers = << >>
  <2>1. \A x \in Keys(T) : /\ w.body[x] \in Shapes
                           /\ IsRule(RuleOf(T, w.tag, x))
    BY <1>1, RuleFits DEF Message
  <2>2. \A x \in Keys(T) :
          DecodeField(KindOf(T, x), RuleOf(T, w.tag, x), w.body[x]).val \in GoShapes
    BY <2>1, FieldShape
  <2>3. Decode(T, w).val =
          [x \in Keys(T) |-> DecodeField(KindOf(T, x), RuleOf(T, w.tag, x), w.body[x]).val]
    BY <1>1, DecodeByField
  <2> QED BY <2>2, <2>3 DEF GoValue
<1>2. CASE T.carriers # << >>
  <2>1. Decode(T, w) = DecodeCarrier(T, w)
    BY <1>2 DEF Decode
  <2>2. DecodeCarrier(T, w).val = [x \in Keys(T) |-> DecodeCarrier(T, w).val[x]]
    BY DEF DecodeCarrier
  <2> DEFINE c == FirstCarrier(T, w.body, "absent")
             j == w.body[c]
             refused == c = "" \/ (KindOf(T, c) = "ptr" /\ j # "good")
             value(x) == IF x = c THEN IF j = "null" THEN "nilptr" ELSE j
                         ELSE IF IsCarrier(T, x) THEN "zero"
                         ELSE DecodeField(KindOf(T, x), T.fields[x].rule, w.body[x]).val
  <2>3. DecodeCarrier(T, w).val = [x \in Keys(T) |-> IF refused THEN "zero" ELSE value(x)]
    BY DEF DecodeCarrier
  <2>4. c = "" \/ (j \in Shapes /\ j # "absent")
    <3>1. T.carriers \in Seq(Keys(T)) /\ \A x \in Keys(T) : w.body[x] \in Shapes
      BY DEF RulesFit, Message
    <3>2. c = "" \/ (c \in Keys(T) /\ IsCarrier(T, c) /\ w.body[c] # "absent")
      BY <3>1, CarrierFound
    <3> QED BY <3>1, <3>2
  <2>5. \A x \in Keys(T) : DecodeField(KindOf(T, x), T.fields[x].rule, w.body[x]).val \in GoShapes
    BY FieldShape DEF RulesFit, Message
  <2>6. ~refused => \A x \in Keys(T) : value(x) \in GoShapes
    BY <2>4, <2>5 DEF GoShapes
  <2>7. "zero" \in GoShapes
    BY DEF GoShapes
  <2> HIDE DEF refused, value
  <2> QED BY <1>2, <2>1, <2>2, <2>3, <2>6, <2>7 DEF GoValue
<1> QED BY <1>1, <1>2

\* MarshalJSON of a type without carriers writes each key by itself.
LEMMA EncodeByField ==
    ASSUME NEW T, T.carriers = << >>, NEW g, NEW f \in Keys(T)
    PROVE  /\ f \in NullsSent(T, g) => Encode(T, g).body[f] = "null"
           /\ f \notin NullsSent(T, g) /\ f \notin Needed(T, g.tag) =>
                Encode(T, g).body[f] =
                  IF Omitted(KindOf(T, f), T.fields[f].omit, g.val[f]) THEN "absent"
                  ELSE Marshal(KindOf(T, f), g.val[f])
           /\ f \notin NullsSent(T, g) /\ f \in Needed(T, g.tag) =>
                Encode(T, g).body[f] = Required(T, g, f)
<1>1. Encode(T, g) = EncodeFields(T, g)
  BY DEF Encode
<1>2. EncodeFields(T, g).body[f] =
        CASE f \in NullsSent(T, g) -> "null"
          [] f \in Needed(T, g.tag) \ NullsSent(T, g) -> Required(T, g, f)
          [] OTHER -> IF Omitted(KindOf(T, f), T.fields[f].omit, g.val[f]) THEN "absent"
                      ELSE Marshal(KindOf(T, f), g.val[f])
  BY DEF EncodeFields
<1>3. CASE f \in NullsSent(T, g)
  BY <1>1, <1>2, <1>3
<1>4. CASE f \notin NullsSent(T, g) /\ f \in Needed(T, g.tag)
  BY <1>1, <1>2, <1>4
<1>5. CASE f \notin NullsSent(T, g) /\ f \notin Needed(T, g.tag)
  BY <1>1, <1>2, <1>5
<1> QED BY <1>3, <1>4, <1>5

\* MarshalJSON makes a message of a Go value.
LEMMA EncodesToMessage ==
    ASSUME NEW T, RulesFit(T), NEW g, GoValue(T, g)
    PROVE  Message(T, Encode(T, g))
<1> DEFINE w == Encode(T, g)
<1>1. w = [tag |-> w.tag, body |-> w.body]
  <2>1. EncodeFields(T, g) = [tag |-> EncodeFields(T, g).tag, body |-> EncodeFields(T, g).body]
    BY DEF EncodeFields
  <2>2. EncodeCarrier(T, g) = [tag |-> EncodeCarrier(T, g).tag, body |-> EncodeCarrier(T, g).body]
    BY DEF EncodeCarrier
  <2> QED BY <2>1, <2>2 DEF Encode
<1>2. w.body = [f \in Keys(T) |-> w.body[f]]
  <2>1. EncodeFields(T, g).body = [f \in Keys(T) |-> EncodeFields(T, g).body[f]]
    BY DEF EncodeFields
  <2>2. EncodeCarrier(T, g).body = [f \in Keys(T) |-> EncodeCarrier(T, g).body[f]]
    BY DEF EncodeCarrier
  <2> QED BY <2>1, <2>2 DEF Encode
<1>3. ASSUME T.carriers = << >>, NEW f \in Keys(T)
      PROVE  w.body[f] \in Shapes
  <2>1. g.val[f] \in GoShapes
    BY <1>3 DEF GoValue
  <2>2. Marshal(KindOf(T, f), g.val[f]) \in Shapes
    BY <2>1 DEF Marshal, GoShapes, Shapes
  <2>3. Required(T, g, f) \in Shapes
    BY <2>2 DEF Required, Shapes
  <2>4. {"null", "absent"} \subseteq Shapes
    BY DEF Shapes
  <2> HIDE DEF w
  <2>5. w.body[f] \in {"null", "absent", Required(T, g, f), Marshal(KindOf(T, f), g.val[f])}
    BY <1>3, EncodeByField DEF w
  <2> QED BY <2>2, <2>3, <2>4, <2>5
<1>4. ASSUME T.carriers # << >>, NEW f \in Keys(T)
      PROVE  w.body[f] \in Shapes
  <2> DEFINE c == FirstCarrier(T, g.val, "zero")
  <2>1. w.body[f] = (IF f = c THEN IF KindOf(T, c) = "ptr" THEN "good" ELSE Marshal("any", g.val[c])
                     ELSE IF IsCarrier(T, f) \/ g.val[f] = "zero" THEN "absent"
                     ELSE Marshal(KindOf(T, f), g.val[f]))
    BY <1>4 DEF Encode, EncodeCarrier
  <2>2. g.val[f] \in GoShapes
    BY <1>4 DEF GoValue
  <2>3. \A k : Marshal(k, g.val[f]) \in Shapes
    BY <2>2 DEF Marshal, GoShapes, Shapes
  <2>4. {"good", "absent"} \subseteq Shapes
    BY DEF Shapes
  <2> HIDE DEF w, c
  <2> QED BY <2>1, <2>3, <2>4
<1> HIDE DEF w
<1> QED BY <1>1, <1>2, <1>3, <1>4 DEF Message, w

\* What the message without f has at the other keys.
LEMMA WithoutKeeps ==
    ASSUME NEW T, NEW w, Message(T, w), NEW f \in Keys(T)
    PROVE  /\ Without(w, f).tag = w.tag
           /\ Without(w, f).body[f] = "absent"
           /\ \A x \in Keys(T) \ {f} : Without(w, f).body[x] = w.body[x]
<1> DEFINE v == Without(w, f)
<1>1. v = [tag |-> w.tag, body |-> [w.body EXCEPT ![f] = "absent"]]
  <2>1. ASSUME NEW t, NEW b, w = [tag |-> t, body |-> b]
        PROVE  v = [tag |-> t, body |-> [b EXCEPT ![f] = "absent"]]
    BY <2>1 DEF Without
  <2> QED BY <2>1 DEF Message
<1>2. DOMAIN w.body = Keys(T)
  BY DEF Message
<1> HIDE DEF v
<1>3. /\ v.tag = w.tag
      /\ v.body[f] = "absent"
      /\ \A x \in Keys(T) \ {f} : v.body[x] = w.body[x]
  BY <1>1, <1>2
<1> QED BY <1>3 DEF v

\* A key that the peer got wrong and that is decoded leniently costs that key only,
\* in a type without carriers: each key is decoded by itself.
LEMMA ContainedByField ==
    ASSUME NEW T, RulesFit(T), T.carriers = << >>, NEW w, Message(T, w), NEW f \in Keys(T),
           RuleOf(T, w.tag, f).lax, Decode(T, Without(w, f)).ok
    PROVE  /\ Decode(T, w).ok
           /\ \A x \in Keys(T) \ {f} : Decode(T, w).val[x] = Decode(T, Without(w, f)).val[x]
           /\ Decode(T, w).val[f]
                = DecodeField(KindOf(T, f), RuleOf(T, w.tag, f), w.body[f]).val
<1> DEFINE v == Without(w, f)
           one(m, x) == DecodeField(KindOf(T, x), RuleOf(T, m.tag, x), m.body[x])
<1>1. v.tag = w.tag /\ \A x \in Keys(T) \ {f} : v.body[x] = w.body[x]
  BY WithoutKeeps
<1>2. \A x \in Keys(T) \ {f} : one(v, x) = one(w, x)
  BY <1>1
<1>3. Decode(T, v).ok = (v.tag # "bad" /\ \A x \in Keys(T) : ~one(v, x).err)
  BY DecodeByField
<1>4. Decode(T, w).ok = (w.tag # "bad" /\ \A x \in Keys(T) : ~one(w, x).err)
  BY DecodeByField
<1>5. ~one(w, f).err
  <2>1. IsRule(RuleOf(T, w.tag, f)) /\ w.body[f] \in Shapes
    BY RuleFits DEF Message
  <2> QED BY <2>1, FieldShape
<1>6. /\ Decode(T, v).val = [x \in Keys(T) |-> one(v, x).val]
      /\ Decode(T, w).val = [x \in Keys(T) |-> one(w, x).val]
  BY DecodeByField
<1>7. Decode(T, w).val[f] = one(w, f).val
  BY <1>6
<1>8. Decode(T, v).ok
  OBVIOUS
<1> HIDE DEF v, one
<1>9. Decode(T, w).ok
  BY <1>1, <1>2, <1>3, <1>4, <1>5, <1>8
<1>10. \A x \in Keys(T) \ {f} : Decode(T, w).val[x] = Decode(T, v).val[x]
  BY <1>2, <1>6
<1> QED BY <1>7, <1>9, <1>10 DEF v, one

\* The same in a type whose variants are told apart by a carrier, for a key that is
\* no carrier: the same carrier is found.
LEMMA ContainedByCarrier ==
    ASSUME NEW T, T.carriers \in Seq(Keys(T)), T.carriers # << >>, NEW w, Message(T, w),
           NEW f \in Keys(T), ~IsCarrier(T, f), Decode(T, Without(w, f)).ok
    PROVE  /\ Decode(T, w).ok
           /\ \A x \in Keys(T) \ {f} : Decode(T, w).val[x] = Decode(T, Without(w, f)).val[x]
           /\ Decode(T, w).val[f] = DecodeField(KindOf(T, f), T.fields[f].rule, w.body[f]).val
<1> DEFINE v == Without(w, f)
           c == FirstCarrier(T, w.body, "absent")
           value(m, x) == IF x = c THEN IF m.body[c] = "null" THEN "nilptr" ELSE m.body[c]
                          ELSE IF IsCarrier(T, x) THEN "zero"
                          ELSE DecodeField(KindOf(T, x), T.fields[x].rule, m.body[x]).val
           refused(m) == c = "" \/ (KindOf(T, c) = "ptr" /\ m.body[c] # "good")
<1>1. \A x \in Keys(T) \ {f} : v.body[x] = w.body[x]
  BY WithoutKeeps
<1>2. \A i \in DOMAIN T.carriers : /\ T.carriers[i] \in Keys(T) \ {f}
                                   /\ v.body[T.carriers[i]] = w.body[T.carriers[i]]
  BY <1>1 DEF IsCarrier
<1>3. FirstCarrier(T, v.body, "absent") = c
  <2>1. {i \in DOMAIN T.carriers : v.body[T.carriers[i]] # "absent"}
          = {i \in DOMAIN T.carriers : w.body[T.carriers[i]] # "absent"}
    BY <1>2
  <2> DEFINE first(there) == IF there = {} THEN ""
                             ELSE T.carriers[CHOOSE i \in there : \A j \in there : i <= j]
  <2>2. /\ c = first({i \in DOMAIN T.carriers : w.body[T.carriers[i]] # "absent"})
        /\ FirstCarrier(T, v.body, "absent")
             = first({i \in DOMAIN T.carriers : v.body[T.carriers[i]] # "absent"})
    BY DEF FirstCarrier
  <2> HIDE DEF first, c, v
  <2> QED BY <2>1, <2>2
<1>4. c = "" \/ c \in Keys(T) \ {f}
  BY CarrierFound
<1>5. ASSUME NEW m, FirstCarrier(T, m.body, "absent") = c
      PROVE  /\ Decode(T, m).ok = ~refused(m)
             /\ ~refused(m) => Decode(T, m).val = [x \in Keys(T) |-> value(m, x)]
  BY <1>5 DEF Decode, DecodeCarrier
<1>6. Decode(T, v).ok
  OBVIOUS
<1> HIDE DEF v, c
<1>7. ~refused(v) /\ ~refused(w)
  BY <1>1, <1>3, <1>4, <1>5, <1>6
<1>8. Decode(T, w).ok
  BY <1>5, <1>7 DEF c
<1>9. \A x \in Keys(T) \ {f} : value(w, x) = value(v, x)
  BY <1>1, <1>4, <1>7
<1>10. value(w, f) = DecodeField(KindOf(T, f), T.fields[f].rule, w.body[f]).val
  BY <1>4, <1>7
<1>11. /\ Decode(T, v).val = [x \in Keys(T) |-> value(v, x)]
       /\ Decode(T, w).val = [x \in Keys(T) |-> value(w, x)]
  BY <1>3, <1>5, <1>7 DEF c
<1> HIDE DEF value, refused
<1>12. \A x \in Keys(T) \ {f} : Decode(T, w).val[x] = Decode(T, v).val[x]
  BY <1>9, <1>11
<1>13. Decode(T, w).val[f] = DecodeField(KindOf(T, f), T.fields[f].rule, w.body[f]).val
  BY <1>10, <1>11
<1> QED BY <1>8, <1>12, <1>13 DEF v

\* What w has at f costs f only.
Contained(T, w, f) ==
    LET r == RuleOf(T, w.tag, f)
        v == Decode(T, w).val[f]
    IN  /\ Decode(T, w).ok
        /\ \A x \in Keys(T) \ {f} : Decode(T, w).val[x] = Decode(T, Without(w, f)).val[x]
        /\ w.body[f] \in {"bad", "alien"} /\ ~TakesAll(T, r, f) /\ ~Allocates(T, r, f)
             => v = "zero"
        /\ w.body[f] = "mixed" => v = "good"

\* A key that the peer got wrong and that is decoded leniently costs that key only.
LEMMA FieldIsContained ==
    ASSUME NEW T, RulesFit(T), NEW w, Message(T, w), NEW f \in Keys(T),
           Lenience(T, w.tag, f), w.body[f] \in WireValues(T, w.tag, f),
           Decode(T, Without(w, f)).ok
    PROVE  Contained(T, w, f)
<1> DEFINE r == RuleOf(T, w.tag, f)
<1>1. IsRule(r) /\ r.lax /\ ~IsCarrier(T, f)
  BY RuleFits DEF Lenience
<1>2. /\ Decode(T, w).ok
      /\ \A x \in Keys(T) \ {f} : Decode(T, w).val[x] = Decode(T, Without(w, f)).val[x]
      /\ Decode(T, w).val[f] = DecodeField(KindOf(T, f), r, w.body[f]).val
  <2>1. CASE T.carriers = << >>
    BY <1>1, <2>1, ContainedByField
  <2>2. CASE T.carriers # << >>
    <3>1. r = T.fields[f].rule /\ T.carriers \in Seq(Keys(T))
      BY <2>2 DEF RulesFit, RuleOf
    <3> QED BY <1>1, <2>2, <3>1, ContainedByCarrier
  <2> QED BY <2>1, <2>2
<1>3. /\ w.body[f] = "mixed" => r.via = "items"
      /\ w.body[f] = "alien" => r.via = "enum"
  BY DEF WireValues
<1> HIDE DEF r
<1>4. CASE w.body[f] \in {"bad", "mixed", "alien"}
  <2>1. LET v == DecodeField(KindOf(T, f), r, w.body[f]).val IN
        /\ w.body[f] # "mixed" /\ ~TakesAll(T, r, f) /\ ~Allocates(T, r, f) => v = "zero"
        /\ w.body[f] = "mixed" => v = "good"
    BY <1>1, <1>3, <1>4, WrongValue
  <2> QED BY <1>2, <2>1 DEF r, Contained
<1>5. CASE w.body[f] \notin {"bad", "mixed", "alien"}
  BY <1>2, <1>5 DEF Contained
<1> QED BY <1>4, <1>5

\* What is decoded and sent on has null for a key that keeps null apart exactly when
\* the message had, and leaves it out when the message did.
LEMMA NullSurvives ==
    ASSUME NEW T, RulesFit(T), NEW p, Message(T, p), NEW f \in Keys(T),
           RuleOf(T, p.tag, f).keep, f \in At(T.nulls, p.tag) \ Needed(T, p.tag),
           Omitted(KindOf(T, f), T.fields[f].omit, "zero")
    PROVE  LET w == Encode(T, Decode(T, p)) IN
           /\ p.body[f] = "null" <=> w.body[f] = "null"
           /\ p.body[f] = "absent" => w.body[f] = "absent"
<1> DEFINE g == Decode(T, p)
           w == Encode(T, g)
           r == RuleOf(T, p.tag, f)
           k == KindOf(T, f)
<1>1. T.carriers = << >>
  BY DEF RulesFit, RuleOf
<1>2. IsRule(r) /\ p.body[f] \in Shapes
  BY <1>1, RuleFits DEF Message
<1>3. /\ g.tag = p.tag
      /\ f \in g.nulls <=> KeepsNull(r, p.body[f])
      /\ g.val[f] = DecodeField(k, r, p.body[f]).val
  <2>1. g.val = [x \in Keys(T) |->
                   DecodeField(KindOf(T, x), RuleOf(T, p.tag, x), p.body[x]).val]
    BY <1>1, DecodeByField
  <2>2. g.val[f] = DecodeField(k, r, p.body[f]).val
    <3> HIDE DEF g
    <3> QED BY <2>1
  <2>3. g.tag = p.tag
    BY <1>1, DecodeByField
  <2>4. f \in g.nulls <=> KeepsNull(r, p.body[f])
    BY <1>1, DecodeByField
  <2> QED BY <2>2, <2>3, <2>4
<1>4. /\ f \in At(T.nulls, p.tag) /\ f \notin Needed(T, p.tag)
      /\ Omitted(k, T.fields[f].omit, "zero")
  OBVIOUS
<1>5. f \in NullsSent(T, g) <=> p.body[f] = "null"
  BY <1>3, <1>4 DEF NullsSent, KeepsNull
<1>6. /\ g.val[f] \in GoShapes /\ g.val[f] # "nilptr"
      /\ p.body[f] = "absent" => g.val[f] = "zero"
  BY <1>2, <1>3, FieldShape
<1> HIDE DEF g
<1>7. CASE p.body[f] = "null"
  BY <1>1, <1>5, <1>7, EncodeByField DEF g
<1>8. CASE p.body[f] # "null"
  <2>1. w.body[f] = IF Omitted(k, T.fields[f].omit, g.val[f]) THEN "absent"
                    ELSE Marshal(k, g.val[f])
    BY <1>1, <1>3, <1>4, <1>5, <1>8, EncodeByField
  <2>2. CASE g.val[f] = "zero"
    BY <1>4, <1>8, <2>1, <2>2 DEF g
  <2>3. CASE g.val[f] # "zero"
    <3>1. Marshal(k, g.val[f]) # "null"
      BY <1>6, <2>3 DEF Marshal, GoShapes, Shapes
    <3> QED BY <1>6, <1>8, <2>1, <2>3, <3>1 DEF g
  <2> QED BY <2>2, <2>3
<1> QED BY <1>7, <1>8

\* A constructor, whatever one field is then set to, makes a Go value.
LEMMA ConstructsValue ==
    ASSUME NEW T, NEW c
    PROVE  /\ GoValue(T, Constructed(T, c))
           /\ \A f \in Keys(T), v \in GoShapes : GoValue(T, [Constructed(T, c) EXCEPT !.val[f] = v])
           /\ \A S : GoValue(T, [Constructed(T, c) EXCEPT !.nulls = S])
<1> DEFINE val == [f \in Keys(T) |-> IF f \in c[2] THEN "good" ELSE "zero"]
<1>1. val \in [Keys(T) -> GoShapes]
  BY DEF GoShapes, Shapes
<1>2. Constructed(T, c) = [ok |-> TRUE, tag |-> c[1], nulls |-> {}, val |-> val]
  BY DEF Constructed
<1>3. ASSUME NEW g, g.val \in [Keys(T) -> GoShapes]
      PROVE  GoValue(T, g)
  BY <1>3 DEF GoValue
<1> HIDE DEF val
<1>4. Constructed(T, c).val = val
  BY <1>2
<1>5. ASSUME NEW f \in Keys(T), NEW v \in GoShapes
      PROVE  [Constructed(T, c) EXCEPT !.val[f] = v].val \in [Keys(T) -> GoShapes]
  BY <1>1, <1>2
<1>6. ASSUME NEW S
      PROVE  [Constructed(T, c) EXCEPT !.nulls = S].val \in [Keys(T) -> GoShapes]
  BY <1>1, <1>2
<1> QED BY <1>1, <1>3, <1>4, <1>5, <1>6

-----------------------------------------------------------------------------
(* The invariant *)

\* Nothing has been sent yet, and the types of the catalog fit.
LEMMA InitInv == Init => IInv
<1> SUFFICES ASSUME Init PROVE IInv
  OBVIOUS
<1>1. TypeFits(TypeOf)
  BY TypesAssumption DEF Init, TypeOf
<1>2. stage = "idle" /\ hops = 0 /\ alter = Unaltered /\ alter.key = ""
  BY DEF Init, Unaltered
<1> QED BY <1>1, <1>2 DEF IInv, WellTyped, AlteredOnce, Decoded

\* Every step of the journey preserves the invariant.
LEMMA NextInv == IInv /\ [Next]_vars => IInv'
<1> SUFFICES ASSUME IInv, [Next]_vars PROVE IInv'
  OBVIOUS
<1> DEFINE T == TypeOf
<1>1. /\ TypeFits(T) /\ RulesFit(T) /\ hops \in Nat
      /\ stage \in {"idle", "built", "wire", "seen", "refused"}
      /\ stage \in {"wire", "seen"} => Message(T, wire)
      /\ stage = "built" => GoValue(T, msg)
  BY DEF IInv, WellTyped, TypeFits
<1>2. Unaltered.key = ""
  BY DEF Unaltered
<1>3. ASSUME stage = "idle", stage' = "built", GoValue(T, msg'),
             UNCHANGED <<typ, wire, seen, alter, prev, hops>>
      PROVE  IInv'
  <2>1. hops' = 0 /\ alter' = Unaltered
    BY <1>3 DEF IInv, AlteredOnce
  <2>2. WellTyped'
    BY <1>1, <1>3, <2>1 DEF WellTyped, TypeOf
  <2>3. AlteredOnce'
    BY <1>2, <1>3, <2>1 DEF AlteredOnce
  <2>4. Decoded'
    <3>1. stage' = "built" /\ ~(hops' > 0)
      BY <1>3, <2>1
    <3> QED BY <3>1 DEF Decoded
  <2> QED BY <2>2, <2>3, <2>4 DEF IInv
<1>4. ASSUME NEW c \in T.ctors, Construct(c) PROVE IInv'
  BY <1>3, <1>4, ConstructsValue DEF Construct
<1>5. ASSUME NEW c \in T.ctors, NEW f \in Keys(T), ConstructWith(c, f) PROVE IInv'
  <2>1. GoValues(KindOf(T, f)) \subseteq GoShapes
    BY DEF GoValues, GoShapes, Shapes
  <2>2. GoValue(T, msg')
    BY <1>5, <2>1, ConstructsValue DEF ConstructWith
  <2> QED BY <1>3, <1>5, <2>2 DEF ConstructWith
<1>6. CASE MarshalJSON
  <2>1. stage = "built" /\ UNCHANGED <<typ, msg, seen, alter, prev, hops>>
    BY <1>6 DEF MarshalJSON
  <2>2. hops = 0 => alter.key = ""
    BY <1>2, <2>1 DEF IInv, AlteredOnce
  <2>3. CASE Encodes(T, msg)
    <3>1. wire' = Encode(T, msg) /\ stage' = "wire"
      BY <1>6, <2>3 DEF MarshalJSON
    <3>2. Message(T, wire')
      BY <1>1, <2>1, <3>1, EncodesToMessage
    <3> QED BY <1>1, <2>1, <2>2, <3>1, <3>2 DEF IInv, WellTyped, AlteredOnce, Decoded, TypeOf
  <2>4. CASE ~Encodes(T, msg)
    <3>1. stage' = "refused"
      BY <1>6, <2>4 DEF MarshalJSON
    <3> QED BY <1>1, <2>1, <2>2, <3>1 DEF IInv, WellTyped, AlteredOnce, Decoded, TypeOf
  <2> QED BY <2>3, <2>4
<1>7. ASSUME NEW f \in Keys(T), NEW j \in WireValues(T, wire.tag, f), PeerWrites(f, j)
      PROVE  IInv'
  <2>1. /\ stage = "wire" /\ hops = 0
        /\ UNCHANGED <<stage, typ, msg, seen, prev, hops>>
        /\ wire' = [wire EXCEPT !.body[f] = j] /\ alter' = [key |-> f, shape |-> j]
    BY <1>7 DEF PeerWrites, Untouched
  <2>2. j \in Shapes
    BY DEF WireValues, Shapes
  <2>3. Message(T, wire)
    BY <1>1, <2>1
  <2>4. wire' = [tag |-> wire.tag, body |-> [wire.body EXCEPT ![f] = j]]
    <3>1. ASSUME NEW t, NEW b, wire = [tag |-> t, body |-> b]
          PROVE  [wire EXCEPT !.body[f] = j] = [tag |-> t, body |-> [b EXCEPT ![f] = j]]
      BY <3>1
    <3> QED BY <2>1, <2>3, <3>1 DEF Message
  <2>5. wire'.tag = wire.tag /\ wire'.body = [wire.body EXCEPT ![f] = j]
    BY <2>4
  <2>6. Message(T, wire') /\ wire'.body[f] = j
    BY <2>2, <2>3, <2>4, <2>5 DEF Message
  <2>7. alter'.key = f /\ alter'.shape = j
    BY <2>1
  <2>8. TypeOf' = T /\ stage' = "wire" /\ hops' = 0
    BY <2>1 DEF TypeOf
  <2>9. WellTyped'
    BY <1>1, <2>6, <2>8 DEF WellTyped
  <2>10. AlteredOnce'
    BY <2>5, <2>6, <2>7, <2>8 DEF AlteredOnce
  <2>11. Decoded'
    BY <2>8 DEF Decoded
  <2> QED BY <2>9, <2>10, <2>11 DEF IInv
<1>8. ASSUME NEW tag \in {"?", "bad"}, PeerNames(tag) PROVE IInv'
  <2>1. /\ stage = "wire" /\ hops = 0
        /\ UNCHANGED <<stage, typ, msg, seen, prev, hops>>
        /\ wire' = [wire EXCEPT !.tag = tag] /\ alter' = [key |-> "", shape |-> tag]
    BY <1>8 DEF PeerNames, Untouched
  <2>2. Message(T, wire)
    BY <1>1, <2>1
  <2>3. wire' = [tag |-> tag, body |-> wire.body]
    <3>1. ASSUME NEW t, NEW b, wire = [tag |-> t, body |-> b]
          PROVE  [wire EXCEPT !.tag = tag] = [tag |-> tag, body |-> b]
      BY <3>1
    <3> QED BY <2>1, <2>2, <3>1 DEF Message
  <2>4. wire'.body = wire.body /\ wire'.tag = tag
    BY <2>3
  <2>5. Message(T, wire')
    BY <2>2, <2>3, <2>4 DEF Message
  <2>6. alter'.key = ""
    BY <2>1
  <2>7. TypeOf' = T /\ stage' = "wire" /\ hops' = 0
    BY <2>1 DEF TypeOf
  <2>8. WellTyped'
    BY <1>1, <2>5, <2>7 DEF WellTyped
  <2>9. AlteredOnce'
    BY <2>6, <2>7 DEF AlteredOnce
  <2>10. Decoded'
    BY <2>7 DEF Decoded
  <2> QED BY <2>8, <2>9, <2>10 DEF IInv
<1>9. CASE UnmarshalJSON
  <2>1. /\ stage = "wire" /\ seen' = Decode(T, wire)
        /\ stage' = IF seen'.ok THEN "seen" ELSE "refused"
        /\ UNCHANGED <<typ, msg, wire, alter, prev, hops>>
    BY <1>9 DEF UnmarshalJSON
  <2> QED BY <1>1, <2>1 DEF IInv, WellTyped, AlteredOnce, Decoded, TypeOf
<1>10. CASE Forward
  <2>1. /\ stage = "seen" /\ stage' = "built" /\ msg' = seen /\ prev' = wire /\ hops' = hops + 1
        /\ UNCHANGED <<typ, wire, seen, alter>>
    BY <1>10 DEF Forward
  <2>2. seen = Decode(T, wire) /\ Message(T, wire)
    BY <1>1, <2>1 DEF IInv, Decoded
  <2>3. GoValue(T, msg')
    BY <1>1, <2>1, <2>2, DecodesToValue
  <2>4. hops' \in Nat /\ hops' # 0
    BY <1>1, <2>1
  <2> QED BY <1>1, <2>1, <2>2, <2>3, <2>4 DEF IInv, WellTyped, AlteredOnce, Decoded, TypeOf
<1>11. CASE UNCHANGED vars
  BY <1>11 DEF vars, IInv, WellTyped, AlteredOnce, Decoded, TypeOf
<1>12. CASE Finished
  BY <1>11, <1>12 DEF Finished
<1> QED BY <1>4, <1>5, <1>6, <1>7, <1>8, <1>9, <1>10, <1>11, <1>12 DEF Next

-----------------------------------------------------------------------------
(* Theorems *)

\* Whatever is sent is a Go value of its type and a JSON message of its keys, the peer
\* alters one key at most, and what a receiver or a proxy holds is what UnmarshalJSON
\* and MarshalJSON made of the message before.
THEOREM MessageInvariant == Spec => []IInv
<1> QED BY InitInv, NextInv, PTL DEF Spec

\* A field marked x-deserialize-default-on-error that the peer got wrong costs that
\* field only: the message is accepted, every other field is what it would be without
\* it, of an array the valid items are kept, and a field that failed to decode is zero,
\* but for a pointer decoded in place (unmarshalJSON and the generated UnmarshalJSON).
THEOREM LenienceContains == Spec => []BadFieldIsContained
<1>1. IInv => BadFieldIsContained
  <2> DEFINE T == TypeOf
             f == alter.key
             r == RuleOf(T, wire.tag, f)
  <2> SUFFICES ASSUME IInv, GotWrong(f)
               PROVE  /\ stage = "seen"
                      /\ \A x \in Keys(T) \ {f} : seen.val[x] = Decode(T, Without(wire, f)).val[x]
                      /\ alter.shape = "mixed" => seen.val[f] = "good"
                      /\ Failed(f) /\ ~InPlacePointer(f) => seen.val[f] = "zero"
    BY DEF BadFieldIsContained, Failed
  <2>1. /\ RulesFit(T) /\ Message(T, wire) /\ f \in Keys(T)
        /\ wire.body[f] = alter.shape /\ wire.body[f] \in WireValues(T, wire.tag, f)
        /\ Lenience(T, wire.tag, f) /\ Decode(T, Without(wire, f)).ok
        /\ stage \in {"seen", "refused"}
    BY DEF IInv, WellTyped, TypeFits, AlteredOnce, GotWrong
  <2>2. /\ stage = "refused" => seen = Decode(T, wire) /\ ~seen.ok
        /\ stage = "seen" => seen = Decode(T, wire)
    BY DEF IInv, Decoded, GotWrong
  <2>3. Contained(T, wire, f)
    <3> HIDE DEF T, f
    <3> QED BY <2>1, FieldIsContained
  <2>4. /\ Failed(f) => alter.shape \in {"bad", "alien"} /\ ~TakesAll(T, r, f)
        /\ InPlacePointer(f) <=> Allocates(T, r, f)
    BY DEF Failed, InPlacePointer, Allocates
  <2> HIDE DEF T, f
  <2> QED BY <2>1, <2>2, <2>3, <2>4 DEF Contained
<1> QED BY <1>1, MessageInvariant, PTL

\* A proxy that forwards what it decoded neither invents nor loses an explicit null in
\* a field for which null and absence differ (x-go-preserve-null and NullFields), in
\* every type whose keys that keep null apart are those that MarshalJSON can send as
\* null and omits when nil.
THEOREM NullsAreForwarded == Spec => []NullIsForwarded
<1>1. IInv => NullIsForwarded
  <2> SUFFICES ASSUME IInv, stage = "wire", hops > 0,
                      NEW c \in TypeOf.ctors, c[1] = prev.tag,
                      NEW f \in Keys(TypeOf), RuleOf(TypeOf, prev.tag, f).keep
               PROVE  /\ prev.body[f] = "null" <=> wire.body[f] = "null"
                      /\ prev.body[f] = "absent" => wire.body[f] = "absent"
    BY DEF NullIsForwarded
  <2>1. RulesFit(TypeOf) /\ NullsFit(TypeOf)
    BY DEF IInv, WellTyped, TypeFits
  <2>2. Message(TypeOf, prev) /\ wire = Encode(TypeOf, Decode(TypeOf, prev))
    BY DEF IInv, Decoded
  <2>3. /\ f \in At(TypeOf.nulls, prev.tag) \ Needed(TypeOf, prev.tag)
        /\ Omitted(KindOf(TypeOf, f), TypeOf.fields[f].omit, "zero")
    BY <2>1 DEF NullsFit
  <2> QED BY <2>1, <2>2, <2>3, NullSurvives
<1> QED BY <1>1, MessageInvariant, PTL
=============================================================================
