------------------------- MODULE MessageJourneyProofs -------------------------
(***************************************************************************)
(* TLAPS proofs about the whole journey of a message: what the library     *)
(* wrote itself arrives as it was sent, and forwarding settles, for every  *)
(* catalog of types that fit and any number of proxies.                    *)
(***************************************************************************)
EXTENDS MessageTypesProofs

-----------------------------------------------------------------------------
(* One field *)

\* What encoding/json makes of what the library itself writes.
LEMMA UnmarshalClean ==
    ASSUME NEW k
    PROVE  /\ \A j \in CleanShapes : ~Unmarshal(k, j).err
           /\ Unmarshal(k, "good").val = "good"
           /\ Unmarshal(k, "empty").val = IF k \in {"scalar", "struct"} THEN "zero" ELSE "empty"
           /\ Unmarshal(k, "null").val = IF k = "raw" THEN "nilptr" ELSE "zero"
BY DEF Unmarshal, CleanShapes

\* What a field's rule makes of an empty value, of null and of a good value.
LEMMA DecodeClean ==
    ASSUME NEW k, NEW r, IsRule(r)
    PROVE  /\ \A j \in CleanShapes : ~DecodeField(k, r, j).err
           /\ DecodeField(k, r, "absent").val = "zero"
           /\ DecodeField(k, r, "good").val = IF r.via = "none" THEN "zero" ELSE "good"
           /\ r.via = "none" => \A j : DecodeField(k, r, j).val = "zero"
           /\ r.keep => DecodeField(k, r, "null").val = "zero"
           /\ r.via = "place" =>
                /\ DecodeField(k, r, "empty").val
                     = IF k \in {"scalar", "struct"} THEN "zero" ELSE "empty"
                /\ ~r.keep => DecodeField(k, r, "null").val = IF k = "raw" THEN "nilptr" ELSE "zero"
           /\ r.via = "temp" =>
                /\ DecodeField(k, r, "empty").val
                     = Convert(r.src, k, IF r.src \in {"scalar", "struct"} THEN "zero" ELSE "empty")
                /\ ~r.keep => DecodeField(k, r, "null").val
                                = Convert(r.src, k, IF r.src = "raw" THEN "nilptr" ELSE "zero")
           /\ r.via = "enum" =>
                /\ DecodeField(k, r, "empty").val = "zero"
                /\ DecodeField(k, r, "null").val = "zero"
           /\ r.via = "items" =>
                /\ DecodeField(k, r, "empty").val = "empty"
                /\ ~r.keep => DecodeField(k, r, "null").val
                                = IF r.src = "slice" THEN "empty" ELSE "zero"
<1>1. CASE r.via = "none"
  <2>1. \A j : DecodeField(k, r, j) = [err |-> FALSE, val |-> "zero"]
    BY <1>1 DEF DecodeField
  <2> QED BY <1>1, <2>1
<1>2. \A j : j = "absent" \/ KeepsNull(r, j) =>
        DecodeField(k, r, j) = [err |-> FALSE, val |-> "zero"]
  BY DEF DecodeField
<1>3. /\ ~KeepsNull(r, "good") /\ ~KeepsNull(r, "empty")
      /\ KeepsNull(r, "null") <=> r.keep
  BY DEF KeepsNull, IsRule
<1>4. "good" \in CleanShapes /\ "empty" \in CleanShapes /\ "null" \in CleanShapes
  BY DEF CleanShapes
<1>5. CASE r.via = "place"
  <2>1. \A j \in CleanShapes \ {"absent"} : ~KeepsNull(r, j) =>
          DecodeField(k, r, j) = Place(k, r, j)
    BY <1>5 DEF DecodeField, CleanShapes
  <2>2. \A j \in CleanShapes :
          Place(k, r, j) = [err |-> FALSE, val |-> Unmarshal(k, j).val]
    BY UnmarshalClean DEF Place
  <2> QED BY <1>2, <1>3, <1>4, <1>5, <2>1, <2>2, UnmarshalClean
<1>6. CASE r.via = "temp"
  <2>1. \A j \in CleanShapes \ {"absent"} : ~KeepsNull(r, j) =>
          DecodeField(k, r, j) = Assign(k, r, j)
    BY <1>6 DEF DecodeField, CleanShapes
  <2>2. \A j \in CleanShapes :
          Assign(k, r, j) = [err |-> FALSE, val |-> Convert(r.src, k, Unmarshal(r.src, j).val)]
    BY UnmarshalClean DEF Assign
  <2>3. Convert(r.src, k, "good") = "good"
    BY DEF Convert, Boxed
  <2> QED BY <1>2, <1>3, <1>4, <1>6, <2>1, <2>2, <2>3, UnmarshalClean
<1>7. CASE r.via = "enum"
  <2>1. \A j \in CleanShapes \ {"absent"} : ~KeepsNull(r, j) =>
          DecodeField(k, r, j) = AssignKnown(k, r, j)
    BY <1>7 DEF DecodeField, CleanShapes
  <2> QED BY <1>2, <1>3, <1>4, <1>7, <2>1 DEF AssignKnown
<1>8. CASE r.via = "items"
  <2>1. \A j \in CleanShapes \ {"absent"} : ~KeepsNull(r, j) =>
          DecodeField(k, r, j) = KeepValid(k, r, j)
    BY <1>8 DEF DecodeField, CleanShapes
  <2>2. \A j \in CleanShapes : ~KeepValid(k, r, j).err
    BY DEF KeepValid, CleanShapes
  <2>3. /\ KeepValid(k, r, "good").val = "good" /\ KeepValid(k, r, "empty").val = "empty"
        /\ KeepValid(k, r, "null").val = IF r.src = "slice" THEN "empty" ELSE "zero"
    BY DEF KeepValid
  <2> QED BY <1>2, <1>3, <1>4, <1>8, <2>1, <2>2, <2>3
<1> QED BY <1>1, <1>5, <1>6, <1>7, <1>8 DEF IsRule

\* A value of kind k that the library itself sends by rule r.
CleanField(k, r, v) ==
    /\ v \in CleanValues
    /\ v = "empty" => k \notin {"scalar", "struct"}
    /\ v = "nilptr" => DecodeField(k, r, "null").val = "nilptr"

\* The kinds and sources of rule r go together.
RuleFitsKind(k, r) ==
    /\ r.via = "temp" => r.src = k \/ k \in Pointers \cup {"any"}
    /\ r.via = "items" => k \in {"slice", "ptrslice", "any"}

\* What MarshalJSON may write for v when it does not send it as an explicit null.
SentAs(k, r, v, j) ==
    \/ j = "absent" /\ (v = "zero" \/ (v = "empty" /\ k \in Collections))
    \/ j = "empty" /\ k = "slice" /\ v = "zero"
    \/ /\ j = Marshal(k, v)
       /\ v = "zero" /\ k \notin {"scalar", "struct"} =>
            ~r.keep /\ DecodeField(k, r, "null").val # "nilptr"

\* v is read back as u.
ReadAs(k, r, v, u) ==
    r.via # "none" =>
        \/ v = u
        \/ k \in Collections /\ {v, u} = {"zero", "empty"}
        \/ r.via = "enum" /\ v = "empty" /\ u = "zero"
        \/ v = "zero" /\ k \in Pointers \cup {"any"} /\ r.via # "place" /\ r.src \notin Pointers

\* A field that the library wrote itself is read back, and is clean again.
LEMMA FieldComesBack ==
    ASSUME NEW k, NEW r, IsRule(r), RuleFitsKind(k, r), NEW v, CleanField(k, r, v),
           NEW j, SentAs(k, r, v, j)
    PROVE  /\ j \in CleanShapes /\ ~DecodeField(k, r, j).err /\ ~KeepsNull(r, j)
           /\ CleanField(k, r, DecodeField(k, r, j).val)
           /\ ReadAs(k, r, v, DecodeField(k, r, j).val)
<1> DEFINE u(x) == DecodeField(k, r, x).val
<1>1. /\ u("absent") = "zero"
      /\ u("good") = IF r.via = "none" THEN "zero" ELSE "good"
      /\ r.via = "none" => u("null") = "zero" /\ u("empty") = "zero"
      /\ r.keep => u("null") = "zero"
  BY DecodeClean
<1>2. CASE j = "absent"
  <2>1. j \in CleanShapes /\ ~KeepsNull(r, j) /\ u(j) = "zero"
    BY <1>1, <1>2 DEF CleanShapes, KeepsNull
  <2>2. v = "zero" \/ (v = "empty" /\ k \in Collections)
    BY <1>2 DEF SentAs, Marshal, CleanField, CleanValues
  <2>3. CleanField(k, r, "zero") /\ ReadAs(k, r, v, "zero")
    BY <2>2 DEF CleanField, ReadAs, CleanValues
  <2> QED BY <2>1, <2>3, DecodeClean
<1>3. CASE j = "good"
  <2>1. j \in CleanShapes /\ ~KeepsNull(r, j)
    BY <1>3 DEF CleanShapes, KeepsNull
  <2>2. v = "good"
    BY <1>3 DEF SentAs, Marshal, CleanField, CleanValues
  <2>3. CleanField(k, r, u(j)) /\ ReadAs(k, r, v, u(j))
    BY <1>1, <1>3, <2>2 DEF CleanField, ReadAs, CleanValues
  <2> QED BY <2>1, <2>3, DecodeClean
<1>4. CASE j = "empty"
  <2>1. j \in CleanShapes /\ ~KeepsNull(r, j)
    BY <1>4 DEF CleanShapes, KeepsNull
  <2>2. \/ v = "empty" /\ k \notin {"scalar", "struct"}
        \/ v = "zero" /\ k \in {"slice", "scalar", "struct"}
    BY <1>4 DEF SentAs, Marshal, CleanField, CleanValues
  <2>3. /\ CleanField(k, r, u("empty")) /\ ReadAs(k, r, v, u("empty"))
    <3>1. CASE r.via = "none"
      BY <1>1, <3>1 DEF CleanField, ReadAs, CleanValues
    <3>2. CASE r.via = "place"
      <4>1. u("empty") = IF k \in {"scalar", "struct"} THEN "zero" ELSE "empty"
        BY <3>2, DecodeClean
      <4> HIDE DEF u
      <4> QED BY <2>2, <4>1 DEF CleanField, ReadAs, CleanValues, Collections
    <3>3. CASE r.via = "temp"
      <4>1. u("empty") = Convert(r.src, k, IF r.src \in {"scalar", "struct"} THEN "zero" ELSE "empty")
        BY <3>3, DecodeClean
      <4>2. r.src = k \/ k \in Pointers \cup {"any"}
        BY <3>3 DEF RuleFitsKind
      <4>3. u("empty") = IF k \in {"scalar", "struct"} THEN "zero" ELSE "empty"
        BY <4>1, <4>2 DEF Convert, Boxed, Pointers, Collections
      <4> HIDE DEF u
      <4> QED BY <2>2, <4>3 DEF CleanField, ReadAs, CleanValues, Collections
    <3>4. CASE r.via = "enum"
      <4>1. u("empty") = "zero"
        BY <3>4, DecodeClean
      <4> HIDE DEF u
      <4> QED BY <2>2, <3>4, <4>1 DEF CleanField, ReadAs, CleanValues
    <3>5. CASE r.via = "items"
      <4>1. u("empty") = "empty" /\ k \in {"slice", "ptrslice", "any"}
        BY <3>5, DecodeClean DEF RuleFitsKind
      <4> HIDE DEF u
      <4> QED BY <2>2, <4>1 DEF CleanField, ReadAs, CleanValues, Collections
    <3> QED BY <3>1, <3>2, <3>3, <3>4, <3>5 DEF IsRule
  <2> QED BY <1>4, <2>1, <2>3, DecodeClean
<1>5. CASE j = "null"
  <2>1. \/ v = "nilptr" /\ u("null") = "nilptr" /\ ~r.keep
        \/ v = "zero" /\ k \notin {"scalar", "struct"} /\ ~r.keep /\ u("null") # "nilptr"
    BY <1>1, <1>5 DEF SentAs, Marshal, CleanField, CleanValues
  <2>2. j \in CleanShapes /\ ~KeepsNull(r, j)
    BY <1>5, <2>1 DEF CleanShapes, KeepsNull
  <2>3. CASE v = "nilptr"
    BY <1>5, <2>1, <2>2, <2>3, DecodeClean DEF CleanField, ReadAs
  <2>4. CASE v = "zero"
    <3>1. CleanField(k, r, u("null")) /\ ReadAs(k, r, v, u("null"))
      <4>1. CASE r.via = "none"
        BY <1>1, <2>4, <4>1 DEF CleanField, ReadAs, CleanValues
      <4>2. CASE r.via = "place"
        <5>1. u("null") = "zero"
          BY <2>1, <2>4, <4>2, DecodeClean
        <5> HIDE DEF u
        <5> QED BY <2>4, <5>1 DEF CleanField, ReadAs, CleanValues
      <4>3. CASE r.via = "temp"
        <5>1. u("null") = Convert(r.src, k, IF r.src = "raw" THEN "nilptr" ELSE "zero")
          BY <2>1, <4>3, DecodeClean
        <5>2. u("null") = Convert(r.src, k, "zero")
          BY <2>1, <2>4, <5>1 DEF Convert, Boxed
        <5>3. u("null") = IF r.src # k /\ r.src \notin Pointers THEN u("null") ELSE "zero"
          BY <2>1, <2>4, <5>2 DEF Convert, Boxed, Pointers, Collections
        <5>4. r.src = k \/ k \in Pointers \cup {"any"}
          BY <4>3 DEF RuleFitsKind
        <5>5. u("null") \in {"zero", "empty"}
          BY <2>1, <2>4, <5>2 DEF Convert, Boxed
        <5> HIDE DEF u
        <5>6. ReadAs(k, r, v, u("null"))
          BY <2>4, <4>3, <5>3, <5>4 DEF ReadAs
        <5>7. CleanField(k, r, u("null"))
          BY <2>1, <2>4, <5>5 DEF CleanField, CleanValues
        <5> QED BY <5>6, <5>7
      <4>4. CASE r.via = "enum"
        <5>1. u("null") = "zero"
          BY <4>4, DecodeClean
        <5> HIDE DEF u
        <5> QED BY <2>4, <5>1 DEF CleanField, ReadAs, CleanValues
      <4>5. CASE r.via = "items"
        <5>1. u("null") = (IF r.src = "slice" THEN "empty" ELSE "zero") /\ k \in {"slice", "ptrslice", "any"}
          BY <2>1, <2>4, <4>5, DecodeClean DEF RuleFitsKind
        <5> HIDE DEF u
        <5>2. CleanField(k, r, u("null"))
          BY <5>1 DEF CleanField, CleanValues
        <5>3. ReadAs(k, r, v, u("null"))
          BY <2>4, <4>5, <5>1 DEF ReadAs, Pointers, Collections
        <5> QED BY <5>2, <5>3
      <4> QED BY <4>1, <4>2, <4>3, <4>4, <4>5 DEF IsRule
    <3> QED BY <1>5, <2>2, <3>1, DecodeClean
  <2> QED BY <2>1, <2>3, <2>4
<1>6. j \in CleanShapes
  BY DEF SentAs, Marshal, CleanField, CleanValues, CleanShapes
<1> QED BY <1>2, <1>3, <1>4, <1>5, <1>6 DEF CleanShapes

-----------------------------------------------------------------------------
(* A message that the library wrote itself *)

\* A type without carriers has none, and a type that fits meets each condition.
LEMMA NoCarrier ==
    ASSUME NEW T, T.carriers = << >>, NEW f
    PROVE  ~IsCarrier(T, f)
BY DEF IsCarrier

\* What g sends for f and what becomes of it, in a type without carriers.
ArrivesAs(T, g, f, j) ==
    LET k == KindOf(T, f)
        r == RuleOf(T, g.tag, f)
        d == DecodeField(k, r, j)
    IN  /\ ~d.err
        /\ KeepsNull(r, j) <=> f \in g.nulls
        /\ CleanField(k, r, d.val) /\ ReadAs(k, r, g.val[f], d.val)
        /\ f \in g.nulls => d.val = "zero"

\* MarshalJSON sends a field either as an explicit null or as its value.
LEMMA SentByField ==
    ASSUME NEW T, TypeFits(T), T.carriers = << >>, NEW g, Clean(T, g), NEW f \in Keys(T)
    PROVE  LET j == Encode(T, g).body[f]
               r == RuleOf(T, g.tag, f)
           IN  IF f \in g.nulls THEN j = "null" /\ r.keep /\ g.val[f] = "zero"
               ELSE SentAs(KindOf(T, f), r, g.val[f], j)
<1> DEFINE j == Encode(T, g).body[f]
           k == KindOf(T, f)
           r == RuleOf(T, g.tag, f)
           v == g.val[f]
           omit == T.fields[f].omit
<1>1. PICK c \in T.ctors : g.tag = c[1]
  BY DEF Clean
<1>2. v \in CleanValues /\ (f \in g.nulls => f \in At(T.nulls, g.tag) /\ v = "zero")
  BY DEF Clean, CleanValues
<1>3. CASE f \in g.nulls
  <2>1. f \in NullsSent(T, g)
    BY <1>2, <1>3 DEF NullsSent
  <2>2. j = "null"
    BY <2>1, EncodeByField
  <2>3. r.keep
    BY <1>1, <1>2, <1>3 DEF TypeFits, NullsRead
  <2> QED BY <1>2, <1>3, <2>2, <2>3
<1>4. CASE f \notin g.nulls
  <2>1. f \notin NullsSent(T, g)
    BY <1>4 DEF NullsSent
  <2>2. r.keep => f \notin Needed(T, g.tag) /\ Omitted(k, omit, "zero")
    BY <1>1 DEF TypeFits, NullsFit
  <2>3. NilIsNull(T, g.tag, f) => DecodeField(k, r, "null").val # "nilptr"
    BY <1>1 DEF TypeFits, NilsFit, NullIsRead
  <2>4. CASE f \in Needed(T, g.tag)
    <3>1. j = Required(T, g, f)
      BY <2>1, <2>4, EncodeByField
    <3>2. CASE k = "slice" /\ v = "zero"
      BY <1>4, <3>1, <3>2 DEF Required, SentAs
    <3>3. CASE ~(k = "slice" /\ v = "zero")
      <4>1. j = Marshal(k, v)
        BY <3>1, <3>3 DEF Required
      <4>2. v = "zero" /\ k \notin {"scalar", "struct"} => NilIsNull(T, g.tag, f)
        BY <2>4, <3>3 DEF NilIsNull
      <4> QED BY <1>4, <2>2, <2>3, <2>4, <4>1, <4>2 DEF SentAs
    <3> QED BY <3>2, <3>3
  <2>5. CASE f \notin Needed(T, g.tag)
    <3>1. j = IF Omitted(k, omit, v) THEN "absent" ELSE Marshal(k, v)
      BY <2>1, <2>5, EncodeByField
    <3>2. CASE Omitted(k, omit, v)
      BY <1>4, <3>1, <3>2 DEF Omitted, SentAs
    <3>3. CASE ~Omitted(k, omit, v)
      <4>1. v = "zero" /\ k \notin {"scalar", "struct"} => NilIsNull(T, g.tag, f)
        BY <2>5, <3>3 DEF NilIsNull
      <4> QED BY <1>4, <2>2, <2>3, <3>1, <3>3, <4>1 DEF SentAs
    <3> QED BY <3>2, <3>3
  <2> QED BY <2>4, <2>5
<1> QED BY <1>3, <1>4

\* Every field that the library wrote arrives.
LEMMA FieldArrives ==
    ASSUME NEW T, TypeFits(T), T.carriers = << >>, NEW g, Clean(T, g), NEW f \in Keys(T)
    PROVE  ArrivesAs(T, g, f, Encode(T, g).body[f])
<1> DEFINE j == Encode(T, g).body[f]
           k == KindOf(T, f)
           r == RuleOf(T, g.tag, f)
           v == g.val[f]
<1>1. PICK c \in T.ctors : g.tag = c[1]
  BY DEF Clean
<1>2. IsRule(r)
  BY RuleFits DEF TypeFits
<1>3. RuleFitsKind(k, r)
  BY <1>1 DEF TypeFits, KindsFit, RuleFitsKind
<1>4. CleanField(k, r, v)
  BY NoCarrier DEF Clean, CleanField, CleanValues, NullIsRead
<1>5. IF f \in g.nulls THEN j = "null" /\ r.keep /\ v = "zero" ELSE SentAs(k, r, v, j)
  BY SentByField
<1>6. CASE f \in g.nulls
  <2>1. j = "null" /\ r.keep /\ v = "zero"
    BY <1>5, <1>6
  <2>2. DecodeField(k, r, j).val = "zero" /\ ~DecodeField(k, r, j).err /\ KeepsNull(r, j)
    BY <1>2, <2>1, DecodeClean DEF KeepsNull, CleanShapes
  <2>3. CleanField(k, r, "zero") /\ ReadAs(k, r, "zero", "zero")
    BY DEF CleanField, ReadAs, CleanValues
  <2> HIDE DEF j, k, r, v
  <2> QED BY <1>6, <2>1, <2>2, <2>3 DEF ArrivesAs, j, k, r, v
<1>7. CASE f \notin g.nulls
  <2>1. SentAs(k, r, v, j)
    BY <1>5, <1>7
  <2> HIDE DEF j, k, r, v
  <2>2. /\ ~DecodeField(k, r, j).err /\ ~KeepsNull(r, j)
        /\ CleanField(k, r, DecodeField(k, r, j).val)
        /\ ReadAs(k, r, v, DecodeField(k, r, j).val)
    BY <1>2, <1>3, <1>4, <2>1, FieldComesBack
  <2> QED BY <1>7, <2>2 DEF ArrivesAs, j, k, r, v
<1> QED BY <1>6, <1>7

\* g is read back: it is accepted, and what arrives is clean and the same.
ComesBack(T, g, h) ==
    /\ h.ok /\ Clean(T, h)
    /\ h.tag = g.tag /\ h.nulls = g.nulls
    /\ \A f \in Keys(T) : Read(T, g, f) /\ ~Unset(T, g, f) => Same(T, g, f, h.val[f])

\* A message that the library wrote is read back, in a type without carriers.
LEMMA FieldsComeBack ==
    ASSUME NEW T, TypeFits(T), T.carriers = << >>, NEW g, Clean(T, g)
    PROVE  ComesBack(T, g, Decode(T, Encode(T, g)))
<1> DEFINE w == Encode(T, g)
           h == Decode(T, w)
           one(f) == DecodeField(KindOf(T, f), RuleOf(T, w.tag, f), w.body[f])
<1>1. w.tag = g.tag
  BY DEF Encode, EncodeFields
<1>2. /\ h.tag = w.tag /\ h.val = [f \in Keys(T) |-> one(f).val]
      /\ \A f \in Keys(T) : f \in h.nulls <=> KeepsNull(RuleOf(T, w.tag, f), w.body[f])
      /\ h.ok = (w.tag # "bad" /\ \A f \in Keys(T) : ~one(f).err)
  BY DecodeByField
<1>3. h.nulls \subseteq Keys(T) /\ g.nulls \subseteq Keys(T)
  BY DEF Decode, DecodeFields, Clean
<1>4. PICK c \in T.ctors : g.tag = c[1]
  BY DEF Clean
<1>5. g.tag # "bad"
  BY <1>4 DEF TypeFits, NamesFit
<1>6. \A f \in Keys(T) : ArrivesAs(T, g, f, w.body[f])
  BY FieldArrives
<1> HIDE DEF w, h
<1>7. \A f \in Keys(T) :
        /\ h.val[f] = one(f).val /\ ~one(f).err
        /\ f \in h.nulls <=> f \in g.nulls
        /\ CleanField(KindOf(T, f), RuleOf(T, g.tag, f), h.val[f])
        /\ ReadAs(KindOf(T, f), RuleOf(T, g.tag, f), g.val[f], h.val[f])
        /\ f \in g.nulls => h.val[f] = "zero"
  BY <1>1, <1>2, <1>6 DEF ArrivesAs
<1>8. h.ok
  BY <1>1, <1>2, <1>5, <1>7
<1>9. h.nulls = g.nulls
  BY <1>3, <1>7
<1>10. Clean(T, h)
  <2>1. h.tag = g.tag
    BY <1>1, <1>2
  <2>2. \A f \in Keys(T) :
          /\ h.val[f] \in {"zero", "good", "empty", "nilptr"}
          /\ h.val[f] = "empty" => KindOf(T, f) \notin {"scalar", "struct"}
          /\ h.val[f] = "nilptr" => ~IsCarrier(T, f) /\ NullIsRead(T, h.tag, f) = "nilptr"
    BY <1>7, <2>1, NoCarrier DEF CleanField, CleanValues, NullIsRead
  <2>3. \A f \in h.nulls : f \in Keys(T) \cap At(T.nulls, h.tag) /\ h.val[f] = "zero"
    BY <1>7, <1>9, <2>1 DEF Clean
  <2> QED BY <1>4, <2>1, <2>2, <2>3 DEF Clean, CleanValues
<1>11. ASSUME NEW f \in Keys(T), Read(T, g, f), ~Unset(T, g, f)
       PROVE  Same(T, g, f, h.val[f])
  <2>1. RuleOf(T, g.tag, f).via # "none"
    BY <1>11, NoCarrier DEF Read
  <2> QED BY <1>7, <1>11, <2>1 DEF ReadAs, Unset, Same
<1> QED BY <1>1, <1>2, <1>8, <1>9, <1>10, <1>11 DEF ComesBack, w, h

\* When only one carrier is there, it is found.
LEMMA OnlyCarrier ==
    ASSUME NEW T, T.carriers \in Seq(Keys(T)), NEW c, IsCarrier(T, c), NEW y, NEW missing,
           \A x \in Keys(T) : IsCarrier(T, x) => (y[x] # missing <=> x = c)
    PROVE  FirstCarrier(T, y, missing) = c
<1> DEFINE there == {i \in DOMAIN T.carriers : y[T.carriers[i]] # missing}
<1>1. \A i \in DOMAIN T.carriers : T.carriers[i] \in Keys(T) /\ IsCarrier(T, T.carriers[i])
  BY DEF IsCarrier
<1>2. \A i \in there : T.carriers[i] = c
  BY <1>1
<1>3. there # {}
  BY <1>1 DEF IsCarrier
<1>4. there \in SUBSET Nat
  OBVIOUS
<1>5. \E i \in there : \A j \in there : i <= j
  BY <1>3, <1>4, LeastExists
<1>6. PICK i \in there : FirstCarrier(T, y, missing) = T.carriers[i]
  BY <1>3, <1>5 DEF FirstCarrier
<1> QED BY <1>2, <1>6

\* What UnmarshalJSON makes of x when c is the first carrier, and what MarshalJSON does.
ReadByCarrier(T, w, c, x) ==
    IF x = c THEN IF w.body[c] = "null" THEN "nilptr" ELSE w.body[c]
    ELSE IF IsCarrier(T, x) THEN "zero"
    ELSE DecodeField(KindOf(T, x), T.fields[x].rule, w.body[x]).val
SentByCarrier(T, g, c, x) ==
    IF x = c THEN IF KindOf(T, c) = "ptr" THEN "good" ELSE Marshal("any", g.val[c])
    ELSE IF IsCarrier(T, x) \/ g.val[x] = "zero" THEN "absent"
    ELSE Marshal(KindOf(T, x), g.val[x])
\* No carrier was sent, or an object without its required properties.
RefusedByCarrier(T, w, c) == c = "" \/ (KindOf(T, c) = "ptr" /\ w.body[c] # "good")

\* UnmarshalJSON of a type with carriers: the first carrier decides.
LEMMA DecodeByCarrier ==
    ASSUME NEW T, T.carriers # << >>, NEW w, NEW c, c = FirstCarrier(T, w.body, "absent")
    PROVE  /\ Decode(T, w).tag = "" /\ Decode(T, w).nulls = {}
           /\ Decode(T, w).ok = ~RefusedByCarrier(T, w, c)
           /\ Decode(T, w).ok => \A x \in Keys(T) : Decode(T, w).val[x] = ReadByCarrier(T, w, c, x)
<1> DEFINE refused == c = "" \/ (KindOf(T, c) = "ptr" /\ w.body[c] # "good")
           value(x) == IF x = c THEN IF w.body[c] = "null" THEN "nilptr" ELSE w.body[c]
                       ELSE IF IsCarrier(T, x) THEN "zero"
                       ELSE DecodeField(KindOf(T, x), T.fields[x].rule, w.body[x]).val
<1>1. /\ Decode(T, w).ok = ~refused
      /\ ~refused => Decode(T, w).val = [x \in Keys(T) |-> value(x)]
  BY DEF Decode, DecodeCarrier
<1>2. Decode(T, w).tag = "" /\ Decode(T, w).nulls = {}
  BY DEF Decode, DecodeCarrier
<1>3. refused = RefusedByCarrier(T, w, c) /\ \A x : value(x) = ReadByCarrier(T, w, c, x)
  BY DEF RefusedByCarrier, ReadByCarrier
<1> HIDE DEF refused, value
<1>4. Decode(T, w).ok => \A x \in Keys(T) : Decode(T, w).val[x] = value(x)
  BY <1>1
<1> QED BY <1>1, <1>2, <1>3, <1>4

\* MarshalJSON of a type with carriers: the first carrier alone is written.
LEMMA EncodeByCarrier ==
    ASSUME NEW T, T.carriers # << >>, NEW g, NEW c, c = FirstCarrier(T, g.val, "zero")
    PROVE  /\ Encode(T, g).tag = ""
           /\ \A x \in Keys(T) : Encode(T, g).body[x] = SentByCarrier(T, g, c, x)
<1>1. Encode(T, g) = EncodeCarrier(T, g) /\ Encode(T, g).tag = ""
  BY DEF Encode, EncodeCarrier
<1>2. ASSUME NEW x \in Keys(T)
      PROVE  EncodeCarrier(T, g).body[x] = SentByCarrier(T, g, c, x)
  BY <1>2 DEF EncodeCarrier, SentByCarrier
<1> QED BY <1>1, <1>2

\* In a type with carriers no key depends on a discriminator or keeps null apart.
LEMMA CarrierType ==
    ASSUME NEW T, TypeFits(T), T.carriers # << >>
    PROVE  /\ T.carriers \in Seq(Keys(T)) /\ "" \notin Keys(T)
           /\ \A c \in T.ctors : c[1] = "" /\ Keys(T) \cap At(T.nulls, c[1]) = {}
           /\ \A f \in Keys(T) : \A t : RuleOf(T, t, f) = T.fields[f].rule
           /\ \A f \in Keys(T) : IsRule(T.fields[f].rule) /\ ~T.fields[f].rule.keep
BY DEF TypeFits, RulesFit, NamesFit, NullsRead, RuleOf

\* A message that the library wrote is read back, in a type with carriers.
LEMMA CarriersComeBack ==
    ASSUME NEW T, TypeFits(T), T.carriers # << >>, NEW g, Clean(T, g), Encodes(T, g)
    PROVE  ComesBack(T, g, Decode(T, Encode(T, g)))
<1> DEFINE w == Encode(T, g)
           h == Decode(T, w)
<1>0. PICK c : c = FirstCarrier(T, g.val, "zero")
  OBVIOUS
<1>1. c \in Keys(T) /\ IsCarrier(T, c) /\ g.val[c] # "zero"
  <2>1. c # "" /\ T.carriers \in Seq(Keys(T))
    BY <1>0, CarrierType DEF Encodes
  <2> QED BY <1>0, <2>1, CarrierFound
<1>2. \A x \in Keys(T) : w.body[x] = SentByCarrier(T, g, c, x)
  BY <1>0, EncodeByCarrier
<1>3. \A f \in Keys(T) :
        /\ g.val[f] \in CleanValues
        /\ g.val[f] = "empty" => KindOf(T, f) \notin {"scalar", "struct"}
        /\ g.val[f] = "nilptr" => IF IsCarrier(T, f) THEN KindOf(T, f) # "ptr"
                                  ELSE NullIsRead(T, g.tag, f) = "nilptr"
  BY DEF Clean, CleanValues
<1>4. w.body[c] = IF KindOf(T, c) = "ptr" THEN "good" ELSE IF g.val[c] = "nilptr" THEN "null" ELSE g.val[c]
  BY <1>1, <1>2, <1>3 DEF SentByCarrier, Marshal, CleanValues
<1>5. FirstCarrier(T, w.body, "absent") = c
  <2>1. w.body[c] # "absent"
    BY <1>1, <1>3, <1>4 DEF CleanValues
  <2>2. \A x \in Keys(T) : IsCarrier(T, x) => (w.body[x] # "absent" <=> x = c)
    BY <1>2, <2>1 DEF SentByCarrier
  <2>3. T.carriers \in Seq(Keys(T))
    BY CarrierType
  <2> HIDE DEF w
  <2> QED BY <1>1, <2>2, <2>3, OnlyCarrier
<1> HIDE DEF w, h
<1>6. /\ h.tag = "" /\ h.nulls = {}
      /\ h.ok = ~RefusedByCarrier(T, w, c)
      /\ h.ok => \A x \in Keys(T) : h.val[x] = ReadByCarrier(T, w, c, x)
  BY <1>5, DecodeByCarrier DEF h
<1>7. c # "" /\ h.ok
  BY <1>1, <1>4, <1>6, CarrierType DEF RefusedByCarrier
<1>8. PICK a \in T.ctors : g.tag = a[1]
  BY DEF Clean
<1>9. g.tag = "" /\ g.nulls = {}
  BY <1>8, CarrierType DEF Clean
<1>10. h.val[c] = IF KindOf(T, c) = "ptr" THEN "good" ELSE g.val[c]
  BY <1>1, <1>3, <1>4, <1>6, <1>7 DEF CleanValues, ReadByCarrier
<1>11. ASSUME NEW f \in Keys(T), ~IsCarrier(T, f)
       PROVE  LET r == T.fields[f].rule IN
              /\ CleanField(KindOf(T, f), r, h.val[f])
              /\ ReadAs(KindOf(T, f), r, g.val[f], h.val[f])
  <2> DEFINE r == T.fields[f].rule
             k == KindOf(T, f)
             v == g.val[f]
             j == w.body[f]
  <2>1. r = RuleOf(T, g.tag, f) /\ IsRule(r) /\ ~r.keep
    BY CarrierType
  <2>2. RuleFitsKind(k, r)
    BY <1>8, <2>1 DEF TypeFits, KindsFit, RuleFitsKind
  <2>3. CleanField(k, r, v)
    BY <1>3, <1>11, <2>1 DEF CleanField, NullIsRead
  <2>4. j = IF v = "zero" THEN "absent" ELSE Marshal(k, v)
    BY <1>1, <1>2, <1>11 DEF SentByCarrier
  <2>5. h.val[f] = DecodeField(k, r, j).val
    BY <1>1, <1>6, <1>7, <1>11 DEF ReadByCarrier
  <2> HIDE DEF r, k, v, j
  <2>6. SentAs(k, r, v, j)
    BY <2>4 DEF SentAs
  <2>7. CleanField(k, r, DecodeField(k, r, j).val) /\ ReadAs(k, r, v, DecodeField(k, r, j).val)
    BY <2>1, <2>2, <2>3, <2>6, FieldComesBack
  <2> QED BY <2>5, <2>7 DEF r, k, v, j
<1>12. Clean(T, h)
  <2>1. ASSUME NEW f \in Keys(T)
        PROVE  /\ h.val[f] \in {"zero", "good", "empty", "nilptr"}
               /\ h.val[f] = "empty" => KindOf(T, f) \notin {"scalar", "struct"}
               /\ h.val[f] = "nilptr" => IF IsCarrier(T, f) THEN KindOf(T, f) # "ptr"
                                         ELSE NullIsRead(T, h.tag, f) = "nilptr"
    <3>1. CASE ~IsCarrier(T, f)
      <4>1. RuleOf(T, h.tag, f) = T.fields[f].rule
        BY CarrierType
      <4> QED BY <1>11, <3>1, <4>1 DEF CleanField, CleanValues, NullIsRead
    <3>2. CASE f = c
      BY <1>1, <1>3, <1>10, <3>2 DEF CleanValues
    <3>3. CASE IsCarrier(T, f) /\ f # c
      BY <1>6, <1>7, <3>3 DEF ReadByCarrier
    <3> QED BY <3>1, <3>2, <3>3
  <2> QED BY <1>6, <1>8, <1>9, <2>1 DEF Clean, CleanValues
<1>13. ASSUME NEW f \in Keys(T), Read(T, g, f), ~Unset(T, g, f)
       PROVE  Same(T, g, f, h.val[f])
  <2>1. CASE IsCarrier(T, f)
    <3>1. f = c
      BY <1>0, <1>13, <2>1 DEF Read
    <3> QED BY <1>1, <1>3, <1>10, <2>1, <3>1 DEF Same, CleanValues
  <2>2. CASE ~IsCarrier(T, f)
    <3>1. RuleOf(T, g.tag, f) = T.fields[f].rule
      BY CarrierType
    <3>2. ReadAs(KindOf(T, f), RuleOf(T, g.tag, f), g.val[f], h.val[f])
      BY <1>11, <2>2, <3>1
    <3>3. RuleOf(T, g.tag, f).via # "none"
      BY <1>13, <2>2 DEF Read
    <3> QED BY <1>13, <3>2, <3>3 DEF ReadAs, Unset, Same
  <2> QED BY <2>1, <2>2
<1> QED BY <1>6, <1>7, <1>9, <1>12, <1>13 DEF ComesBack, w, h

-----------------------------------------------------------------------------
(* A message that is sent on *)

\* What was decoded and is not nil is decoded again from what MarshalJSON makes of it,
\* but for a pointer that a failed decode left allocated.
LEMMA DecodedAgain ==
    ASSUME NEW k, NEW r, IsRule(r), NEW j \in Shapes, NEW v, v = DecodeField(k, r, j).val,
           v # "zero"
    PROVE  LET u == DecodeField(k, r, Marshal(k, v)).val IN
           /\ ~KeepsNull(r, Marshal(k, v))
           /\ u = v \/ (v = "husk" /\ u = "empty" /\ k \in Pointers)
<1>1. j # "absent" /\ r.via # "none" /\ ~KeepsNull(r, j)
  <2>1. j = "absent" \/ r.via = "none" \/ KeepsNull(r, j) => v = "zero"
    BY DEF DecodeField
  <2> QED BY <2>1
<1>2. CASE Marshal(k, v) = j
  BY <1>1, <1>2
<1>3. CASE Marshal(k, v) # j
  <2>1. CASE r.via = "place"
    <3>1. v = Unmarshal(k, j).val
      BY <1>1, <2>1 DEF DecodeField, Place
    <3>2. v = "husk" /\ k \in Pointers
      BY <1>1, <1>3, <3>1 DEF Unmarshal, Marshal, Shapes
    <3>3. Marshal(k, v) = "empty" /\ ~KeepsNull(r, "empty")
      BY <3>2 DEF Marshal, KeepsNull
    <3>4. DecodeField(k, r, "empty").val = "empty"
      BY <2>1, <3>2, DecodeClean DEF Pointers
    <3> QED BY <3>2, <3>3, <3>4
  <2>2. CASE r.via = "temp"
    <3> DEFINE x == Unmarshal(r.src, j)
    <3>1. DecodeField(k, r, j) = Assign(k, r, j)
      BY <1>1, <2>2 DEF DecodeField
    <3>2. v = IF x.err THEN "zero" ELSE Convert(r.src, k, x.val)
      BY <3>1 DEF Assign
    <3>3. ~x.err /\ v = Convert(r.src, k, x.val)
      <4> HIDE DEF x
      <4> QED BY <3>2
    <3>4. v = "empty" /\ Convert(r.src, k, "zero") = "empty"
      BY <1>1, <1>3, <3>3 DEF Convert, Boxed, Unmarshal, Marshal, Shapes, Pointers, Collections
    <3>5. Marshal(k, v) = "empty" /\ ~KeepsNull(r, "empty")
      BY <3>4 DEF Marshal, KeepsNull
    <3>6. DecodeField(k, r, "empty").val
            = Convert(r.src, k, IF r.src \in {"scalar", "struct"} THEN "zero" ELSE "empty")
      BY <2>2, DecodeClean
    <3>7. DecodeField(k, r, "empty").val = "empty"
      BY <3>4, <3>6 DEF Convert, Boxed
    <3> QED BY <3>4, <3>5, <3>7
  <2>3. CASE r.via = "enum"
    <3>1. v = IF j = "good" THEN "good" ELSE "zero"
      BY <1>1, <2>3 DEF DecodeField, AssignKnown
    <3> QED BY <1>3, <3>1 DEF Marshal
  <2>4. CASE r.via = "items"
    <3>1. v = KeepValid(k, r, j).val
      BY <1>1, <2>4 DEF DecodeField
    <3>2. v \in {"good", "empty"}
      BY <3>1 DEF KeepValid
    <3>3. Marshal(k, v) = v /\ ~KeepsNull(r, v)
      BY <3>2 DEF Marshal, KeepsNull
    <3>4. DecodeField(k, r, "good").val = "good" /\ DecodeField(k, r, "empty").val = "empty"
      BY <2>4, DecodeClean
    <3> QED BY <3>2, <3>3, <3>4
  <2> QED BY <1>1, <2>1, <2>2, <2>3, <2>4 DEF IsRule
<1> QED BY <1>2, <1>3

\* A rule that makes an empty value of null, and is not lenient, never makes a nil of
\* what it accepts.
LEMMA NeverNil ==
    ASSUME NEW k, NEW r, IsRule(r), ~r.lax, DecodeField(k, r, "null").val = "empty",
           NEW j \in Shapes, j # "absent", ~DecodeField(k, r, j).err
    PROVE  DecodeField(k, r, j).val # "zero"
<1>1. ~r.keep /\ r.via # "none" /\ r.via # "enum"
  BY DecodeClean
<1>2. ~KeepsNull(r, j)
  BY <1>1 DEF KeepsNull
<1>3. CASE r.via = "place"
  BY <1>1, <1>3, DecodeClean
<1>4. CASE r.via = "temp"
  <2> DEFINE x == Unmarshal(r.src, j)
  <2>1. DecodeField(k, r, j) = Assign(k, r, j)
    BY <1>2, <1>4 DEF DecodeField
  <2>2. /\ DecodeField(k, r, j).err = (x.err /\ ~r.lax)
        /\ DecodeField(k, r, j).val = IF x.err THEN "zero" ELSE Convert(r.src, k, x.val)
    BY <2>1 DEF Assign
  <2>3. DecodeField(k, r, j).val = Convert(r.src, k, x.val)
    <3> HIDE DEF x
    <3> QED BY <2>2
  <2>4. Convert(r.src, k, IF r.src = "raw" THEN "nilptr" ELSE "zero") = "empty"
    BY <1>1, <1>4, DecodeClean
  <2>5. Convert(r.src, k, "zero") = "empty"
    BY <2>4 DEF Convert, Boxed
  <2> HIDE DEF x
  <2> QED BY <2>3, <2>5 DEF Convert, Boxed
<1>5. CASE r.via = "items"
  <2>1. DecodeField(k, r, j) = KeepValid(k, r, j)
    BY <1>2, <1>5 DEF DecodeField
  <2>2. r.src = "slice"
    BY <1>1, <1>5, DecodeClean
  <2>3. KeepValid(k, r, j).err = (j \in {"bad", "alien"} /\ ~r.lax)
    BY DEF KeepValid
  <2>4. j \notin {"bad", "alien"}
    BY <2>1, <2>3
  <2>5. KeepValid(k, r, j).val # "zero"
    BY <2>2, <2>4 DEF KeepValid, Shapes
  <2> QED BY <2>1, <2>5
<1> QED BY <1>1, <1>3, <1>4, <1>5 DEF IsRule

\* What MarshalJSON writes for a value v of f, unless it sends an explicit null.
SentFor(T, tag, f, v) ==
    LET k == KindOf(T, f)
    IN  IF f \in Needed(T, tag)
        THEN IF k = "slice" /\ v = "zero" THEN "empty" ELSE Marshal(k, v)
        ELSE IF Omitted(k, T.fields[f].omit, v) THEN "absent" ELSE Marshal(k, v)

\* MarshalJSON writes each key by itself.
LEMMA EncodeBySent ==
    ASSUME NEW T, T.carriers = << >>, NEW g, NEW f \in Keys(T)
    PROVE  /\ f \in NullsSent(T, g) => Encode(T, g).body[f] = "null"
           /\ f \notin NullsSent(T, g) => Encode(T, g).body[f] = SentFor(T, g.tag, f, g.val[f])
BY EncodeByField DEF SentFor, Required

\* What is made of null, and of the empty value of a slice, a scalar or a struct.
LEMMA DecodeNil ==
    ASSUME NEW k, NEW r, IsRule(r)
    PROVE  /\ DecodeField(k, r, "null").val \in {"zero", "nilptr", "empty"}
           /\ k \in {"slice", "scalar", "struct"} =>
                DecodeField(k, r, "empty").val \in {"zero", "empty"}
<1>1. CASE r.via = "temp"
  <2>1. r.keep => DecodeField(k, r, "null").val = "zero"
    BY DecodeClean
  <2>2. ~r.keep => DecodeField(k, r, "null").val
                     = Convert(r.src, k, IF r.src = "raw" THEN "nilptr" ELSE "zero")
    BY <1>1, DecodeClean
  <2>3. DecodeField(k, r, "empty").val
          = Convert(r.src, k, IF r.src \in {"scalar", "struct"} THEN "zero" ELSE "empty")
    BY <1>1, DecodeClean
  <2> QED BY <2>1, <2>2, <2>3 DEF Convert, Boxed, Pointers
<1>2. CASE r.via # "temp"
  BY <1>2, DecodeClean DEF IsRule
<1> QED BY <1>1, <1>2

\* What a value of f was sent as when it had been decoded of i, it is sent as again when
\* it is decoded of that.
LEMMA SentAgain ==
    ASSUME NEW T, RulesFit(T), NEW tag, NEW f \in Keys(T), NEW i \in Shapes, NEW v,
           v = DecodeField(KindOf(T, f), RuleOf(T, tag, f), i).val,
           ~DecodeField(KindOf(T, f), RuleOf(T, tag, f), i).err,
           Drifts(T, tag, f) => i # "absent" /\ ~RuleOf(T, tag, f).lax,
           NEW j, j = SentFor(T, tag, f, v)
    PROVE  SentFor(T, tag, f, DecodeField(KindOf(T, f), RuleOf(T, tag, f), j).val) = j
<1> DEFINE k == KindOf(T, f)
           r == RuleOf(T, tag, f)
           omit == T.fields[f].omit
           u == DecodeField(k, r, j).val
           needed == f \in Needed(T, tag)
<1>1. IsRule(r)
  BY RuleFits
<1>2. \A x : SentFor(T, tag, f, x) =
        IF needed THEN IF k = "slice" /\ x = "zero" THEN "empty" ELSE Marshal(k, x)
        ELSE IF Omitted(k, omit, x) THEN "absent" ELSE Marshal(k, x)
  BY DEF SentFor
<1>3. CASE v = "zero"
  <2>1. j \in {"absent", "empty", "null"}
    BY <1>2, <1>3 DEF Marshal
  <2>2. CASE j = "absent"
    <3>1. u = "zero"
      BY <1>1, <2>2, DecodeClean
    <3> QED BY <1>3, <3>1
  <2>3. CASE j = "empty"
    <3>1. k \in {"slice", "scalar", "struct"} /\ (k = "slice" => needed)
      BY <1>2, <1>3, <2>3 DEF Marshal
    <3>2. u = "zero" \/ u = "empty"
      BY <1>1, <2>3, <3>1, DecodeNil
    <3>3. SentFor(T, tag, f, "empty") = "empty"
      <4>1. Marshal(k, "empty") = "empty"
        BY DEF Marshal
      <4>2. ~needed => ~Omitted(k, omit, "empty")
        BY <3>1 DEF Omitted, Collections
      <4> HIDE DEF k, omit, needed
      <4> QED BY <1>2, <4>1, <4>2
    <3> HIDE DEF u
    <3> QED BY <1>3, <2>3, <3>2, <3>3 DEF u
  <2>4. CASE j = "null"
    <3>1. NilIsNull(T, tag, f)
      BY <1>2, <1>3, <2>4 DEF Marshal, NilIsNull
    <3>2. DecodeField(k, r, "null").val # "empty"
      <4>1. DecodeField(k, r, "null").val = "empty" => Drifts(T, tag, f)
        BY <3>1 DEF Drifts, NullIsRead
      <4> HIDE DEF k, r
      <4>2. DecodeField(k, r, "null").val = "empty" => i # "absent" /\ ~r.lax
        BY <4>1 DEF r
      <4>3. ~DecodeField(k, r, i).err /\ v = DecodeField(k, r, i).val
        BY DEF k, r
      <4> QED BY <1>1, <1>3, <4>2, <4>3, NeverNil
    <3>3. u = "zero" \/ u = "nilptr"
      BY <1>1, <2>4, <3>2, DecodeNil
    <3>4. SentFor(T, tag, f, "nilptr") = "null"
      <4>1. Marshal(k, "nilptr") = "null" /\ ~Omitted(k, omit, "nilptr")
        BY DEF Marshal, Omitted
      <4> HIDE DEF k, omit, needed
      <4> QED BY <1>2, <4>1
    <3> HIDE DEF u
    <3> QED BY <1>3, <2>4, <3>3, <3>4 DEF u
  <2> QED BY <2>1, <2>2, <2>3, <2>4
<1>4. CASE v # "zero"
  <2>1. CASE j = Marshal(k, v) /\ (needed \/ ~Omitted(k, omit, v))
    <3>1. u = v \/ (v = "husk" /\ u = "empty" /\ k \in Pointers)
      <4> HIDE DEF k, r
      <4>1. v = DecodeField(k, r, i).val
        BY DEF k, r
      <4> QED BY <1>1, <1>4, <2>1, <4>1, DecodedAgain
    <3>2. CASE u = v
      BY <3>2 DEF k, r
    <3>3. CASE v = "husk" /\ u = "empty" /\ k \in Pointers
      <4>1. Marshal(k, "empty") = "empty" /\ j = "empty" /\ ~Omitted(k, omit, "empty") /\ k # "slice"
        BY <2>1, <3>3 DEF Marshal, Omitted, Pointers, Collections
      <4>2. SentFor(T, tag, f, "empty") = "empty"
        <5> HIDE DEF k, omit, needed
        <5> QED BY <1>2, <4>1
      <4> QED BY <3>3, <4>1, <4>2
    <3> QED BY <3>1, <3>2, <3>3
  <2>2. CASE ~needed /\ Omitted(k, omit, v)
    <3>1. j = "absent" /\ Omitted(k, omit, "zero")
      BY <1>2, <2>2 DEF Omitted
    <3>2. u = "zero"
      BY <1>1, <3>1, DecodeClean
    <3>3. SentFor(T, tag, f, "zero") = "absent"
      BY <1>2, <2>2, <3>1
    <3> QED BY <3>1, <3>2, <3>3
  <2> QED BY <1>2, <1>4, <2>1, <2>2
<1> QED BY <1>3, <1>4

\* Two messages of a type with the same discriminator and keys are the same.
LEMMA SameMessage ==
    ASSUME NEW T, NEW w, Message(T, w), NEW x, Message(T, x), w.tag = x.tag,
           \A f \in Keys(T) : w.body[f] = x.body[f]
    PROVE  w = x
<1>1. w.body = x.body
  <2>1. w.body = [f \in Keys(T) |-> w.body[f]] /\ x.body = [f \in Keys(T) |-> x.body[f]]
    BY DEF Message
  <2>2. [f \in Keys(T) |-> w.body[f]] = [f \in Keys(T) |-> x.body[f]]
    OBVIOUS
  <2> QED BY <2>1, <2>2
<1>2. w = [tag |-> w.tag, body |-> w.body] /\ x = [tag |-> x.tag, body |-> x.body]
  BY DEF Message
<1> QED BY <1>1, <1>2

\* Sending on a message that was sent on changes nothing, in a type without carriers.
LEMMA FieldsSettle ==
    ASSUME NEW T, TypeFits(T), T.carriers = << >>, NEW p, Message(T, p), Provided(T, p),
           Decode(T, p).ok
    PROVE  Encode(T, Decode(T, Encode(T, Decode(T, p)))) = Encode(T, Decode(T, p))
<1> DEFINE g == Decode(T, p)
           w == Encode(T, g)
           h == Decode(T, w)
           one(m, f) == DecodeField(KindOf(T, f), RuleOf(T, p.tag, f), m.body[f])
<1>1. RulesFit(T) /\ GoValue(T, g)
  BY DecodesToValue DEF TypeFits
<1>2. Message(T, w)
  BY <1>1, EncodesToMessage
<1>3. GoValue(T, h) /\ Message(T, Encode(T, h))
  BY <1>1, <1>2, DecodesToValue, EncodesToMessage
<1>4. /\ g.tag = p.tag /\ g.val = [f \in Keys(T) |-> one(p, f).val]
      /\ \A f \in Keys(T) : f \in g.nulls <=> KeepsNull(RuleOf(T, p.tag, f), p.body[f])
      /\ g.ok = (p.tag # "bad" /\ \A f \in Keys(T) : ~one(p, f).err)
  BY DecodeByField
<1>5. w.tag = p.tag
  BY <1>4 DEF Encode, EncodeFields
<1>6. /\ h.tag = w.tag
      /\ h.val = [f \in Keys(T) |->
                    DecodeField(KindOf(T, f), RuleOf(T, w.tag, f), w.body[f]).val]
      /\ \A f \in Keys(T) : f \in h.nulls <=> KeepsNull(RuleOf(T, w.tag, f), w.body[f])
  BY DecodeByField
<1>7. h.tag = p.tag /\ Encode(T, h).tag = w.tag
  BY <1>5, <1>6 DEF Encode, EncodeFields
<1> HIDE DEF g, w, h
<1>8. ASSUME NEW f \in Keys(T)
      PROVE  Encode(T, h).body[f] = w.body[f]
  <2> DEFINE r == RuleOf(T, p.tag, f)
             j == w.body[f]
             v == g.val[f]
             u == h.val[f]
  <2>0. g.ok
    BY DEF g
  <2>1. /\ v = one(p, f).val /\ ~one(p, f).err
        /\ u = DecodeField(KindOf(T, f), RuleOf(T, p.tag, f), j).val
        /\ f \in g.nulls <=> KeepsNull(r, p.body[f])
        /\ f \in h.nulls <=> KeepsNull(r, j)
    <3> HIDE DEF one
    <3>1. /\ h.val[f] = DecodeField(KindOf(T, f), RuleOf(T, p.tag, f), w.body[f]).val
          /\ f \in h.nulls <=> KeepsNull(RuleOf(T, p.tag, f), w.body[f])
      BY <1>5, <1>6
    <3>2. g.val[f] = one(p, f).val
      BY <1>4
    <3>3. ~one(p, f).err
      BY <1>4, <2>0
    <3> QED BY <1>4, <3>1, <3>2, <3>3
  <2>2. /\ f \in NullsSent(T, h) => Encode(T, h).body[f] = "null"
        /\ f \notin NullsSent(T, h) => Encode(T, h).body[f] = SentFor(T, p.tag, f, u)
    BY <1>7, EncodeBySent
  <2>3. CASE f \in NullsSent(T, g)
    <3>1. j = "null"
      BY <2>3, EncodeBySent DEF w
    <3>2. f \in g.nulls /\ f \in At(T.nulls, p.tag)
      BY <1>4, <2>3 DEF NullsSent
    <3>3. KeepsNull(r, j)
      BY <2>1, <3>1, <3>2 DEF KeepsNull
    <3>4. f \in NullsSent(T, h)
      BY <1>7, <2>1, <3>2, <3>3 DEF NullsSent
    <3> QED BY <2>2, <3>1, <3>4
  <2>4. CASE f \notin NullsSent(T, g)
    <3>1. j = SentFor(T, p.tag, f, v)
      BY <1>4, <2>4, EncodeBySent DEF w
    <3>2. p.body[f] \in Shapes
      BY DEF Message
    <3>3. Drifts(T, p.tag, f) => p.body[f] # "absent" /\ ~RuleOf(T, p.tag, f).lax
      BY DEF Provided
    <3>4. SentFor(T, p.tag, f, u) = j
      <4>1. SentFor(T, p.tag, f, DecodeField(KindOf(T, f), RuleOf(T, p.tag, f), j).val) = j
        <5> HIDE DEF r, j, v, u
        <5> QED BY <1>1, <2>1, <3>1, <3>2, <3>3, SentAgain
      <4> QED BY <2>1, <4>1
    <3>5. f \in NullsSent(T, h) => j = "null"
      BY <2>1 DEF NullsSent, KeepsNull
    <3> QED BY <2>2, <3>4, <3>5
  <2> QED BY <2>3, <2>4
<1>9. Encode(T, h) = w
  BY <1>2, <1>3, <1>7, <1>8, SameMessage
<1> QED BY <1>9 DEF g, w, h

\* The same in a type with carriers.
LEMMA CarriersSettle ==
    ASSUME NEW T, TypeFits(T), T.carriers # << >>, NEW p, Message(T, p),
           Decode(T, p).ok
    PROVE  Encode(T, Decode(T, Encode(T, Decode(T, p)))) = Encode(T, Decode(T, p))
<1> DEFINE g == Decode(T, p)
           w == Encode(T, g)
           h == Decode(T, w)
<1>1. RulesFit(T) /\ GoValue(T, g) /\ g.ok
  BY DecodesToValue DEF TypeFits
<1>2. Message(T, w)
  BY <1>1, EncodesToMessage
<1>3. GoValue(T, h) /\ Message(T, Encode(T, h))
  BY <1>1, <1>2, DecodesToValue, EncodesToMessage
<1> HIDE DEF g, w, h
<1>4. PICK c : c = FirstCarrier(T, p.body, "absent")
  OBVIOUS
<1>5. T.carriers \in Seq(Keys(T))
  BY CarrierType
<1>6. ~RefusedByCarrier(T, p, c) /\ \A x \in Keys(T) : g.val[x] = ReadByCarrier(T, p, c, x)
  BY <1>1, <1>4, DecodeByCarrier DEF g
<1>7. c \in Keys(T) /\ IsCarrier(T, c) /\ p.body[c] # "absent" /\ p.body[c] \in Shapes
  <2>1. c # ""
    BY <1>6 DEF RefusedByCarrier
  <2>2. c \in Keys(T) /\ IsCarrier(T, c) /\ p.body[c] # "absent"
    BY <1>4, <1>5, <2>1, CarrierFound
  <2> QED BY <2>2 DEF Message
<1>8. g.val[c] = (IF p.body[c] = "null" THEN "nilptr" ELSE p.body[c]) /\ g.val[c] # "zero"
  BY <1>6, <1>7 DEF ReadByCarrier, Shapes
<1>9. FirstCarrier(T, g.val, "zero") = c
  <2>1. \A x \in Keys(T) : IsCarrier(T, x) => (g.val[x] # "zero" <=> x = c)
    BY <1>6, <1>8 DEF ReadByCarrier
  <2>2. IsCarrier(T, c)
    BY <1>7
  <2> QED BY <1>5, <2>1, <2>2, OnlyCarrier
<1>10. w.tag = "" /\ \A x \in Keys(T) : w.body[x] = SentByCarrier(T, g, c, x)
  BY <1>9, EncodeByCarrier DEF w
<1>11. w.body[c] = p.body[c]
  <2>1. CASE KindOf(T, c) = "ptr"
    BY <1>6, <1>7, <1>10, <2>1 DEF SentByCarrier, RefusedByCarrier
  <2>2. CASE KindOf(T, c) # "ptr"
    BY <1>7, <1>8, <1>10, <2>2 DEF SentByCarrier, Marshal, Shapes
  <2> QED BY <2>1, <2>2
<1>12. FirstCarrier(T, w.body, "absent") = c
  <2>1. \A x \in Keys(T) : IsCarrier(T, x) => (w.body[x] # "absent" <=> x = c)
    BY <1>7, <1>10, <1>11 DEF SentByCarrier
  <2>2. IsCarrier(T, c)
    BY <1>7
  <2> QED BY <1>5, <2>1, <2>2, OnlyCarrier
<1>13. \A x \in Keys(T) : h.val[x] = ReadByCarrier(T, w, c, x)
  <2>1. ~RefusedByCarrier(T, w, c)
    BY <1>6, <1>11 DEF RefusedByCarrier
  <2> QED BY <1>12, <2>1, DecodeByCarrier DEF h
<1>14. h.val[c] = g.val[c]
  BY <1>7, <1>8, <1>11, <1>13 DEF ReadByCarrier
<1>15. FirstCarrier(T, h.val, "zero") = c
  <2>1. \A x \in Keys(T) : IsCarrier(T, x) => (h.val[x] # "zero" <=> x = c)
    BY <1>8, <1>13, <1>14 DEF ReadByCarrier
  <2>2. IsCarrier(T, c)
    BY <1>7
  <2> QED BY <1>5, <2>1, <2>2, OnlyCarrier
<1>16. Encode(T, h).tag = "" /\ \A x \in Keys(T) : Encode(T, h).body[x] = SentByCarrier(T, h, c, x)
  BY <1>15, EncodeByCarrier
<1>17. ASSUME NEW x \in Keys(T)
       PROVE  SentByCarrier(T, h, c, x) = SentByCarrier(T, g, c, x)
  <2>1. CASE x = c \/ IsCarrier(T, x)
    BY <1>14, <2>1 DEF SentByCarrier
  <2>2. CASE x # c /\ ~IsCarrier(T, x)
    <3> DEFINE k == KindOf(T, x)
               r == T.fields[x].rule
               v == g.val[x]
    <3>1. IsRule(r) /\ p.body[x] \in Shapes
      BY CarrierType DEF Message
    <3>2. v = DecodeField(k, r, p.body[x]).val
      BY <1>6, <2>2 DEF ReadByCarrier
    <3>3. w.body[x] = IF v = "zero" THEN "absent" ELSE Marshal(k, v)
      BY <1>10, <2>2 DEF SentByCarrier
    <3>4. h.val[x] = DecodeField(k, r, w.body[x]).val
      BY <1>13, <2>2 DEF ReadByCarrier
    <3> HIDE DEF k, r, v
    <3>5. CASE v = "zero"
      <4>1. h.val[x] = "zero"
        BY <3>1, <3>3, <3>4, <3>5, DecodeClean
      <4> QED BY <2>2, <3>5, <4>1 DEF SentByCarrier, v
    <3>6. CASE v # "zero"
      <4>1. h.val[x] = DecodeField(k, r, Marshal(k, v)).val
        BY <3>3, <3>4, <3>6
      <4>2. h.val[x] = v \/ (v = "husk" /\ h.val[x] = "empty")
        <5>1. PICK j \in Shapes : v = DecodeField(k, r, j).val
          BY <3>1, <3>2
        <5>2. /\ ~KeepsNull(r, Marshal(k, v))
              /\ \/ DecodeField(k, r, Marshal(k, v)).val = v
                 \/ /\ v = "husk" /\ k \in Pointers
                    /\ DecodeField(k, r, Marshal(k, v)).val = "empty"
          <6>1. IsRule(r)
            BY <3>1
          <6> QED BY <3>6, <5>1, <6>1, DecodedAgain
        <5> QED BY <4>1, <5>2
      <4>3. Marshal(k, "husk") = "empty" /\ Marshal(k, "empty") = "empty"
        BY DEF Marshal
      <4>4. h.val[x] # "zero" /\ Marshal(k, h.val[x]) = Marshal(k, v)
        BY <3>6, <4>2, <4>3
      <4> QED BY <2>2, <3>6, <4>4 DEF SentByCarrier, k, v
    <3> QED BY <3>5, <3>6
  <2> QED BY <2>1, <2>2
<1>18. Encode(T, h) = w
  <2>1. Encode(T, h).tag = w.tag /\ \A x \in Keys(T) : Encode(T, h).body[x] = w.body[x]
    BY <1>10, <1>16, <1>17
  <2> QED BY <1>2, <1>3, <2>1, SameMessage
<1> QED BY <1>18 DEF g, w, h

\* A message without carriers has every key that drifts when MarshalJSON wrote it for a
\* known variant.
LEMMA EncodeProvides ==
    ASSUME NEW T, TypeFits(T), T.carriers = << >>, NEW g, GoValue(T, g),
           NEW c \in T.ctors, g.tag = c[1]
    PROVE  Provided(T, Encode(T, g))
<1> DEFINE w == Encode(T, g)
<1>1. w.tag = g.tag
  BY DEF Encode, EncodeFields
<1>2. ASSUME NEW f \in Keys(T), Drifts(T, w.tag, f)
      PROVE  w.body[f] # "absent" /\ ~RuleOf(T, w.tag, f).lax
  <2>1. ~RuleOf(T, w.tag, f).lax
    BY <1>1, <1>2 DEF TypeFits, DriftsFit
  <2>2. NilIsNull(T, g.tag, f)
    BY <1>1, <1>2 DEF Drifts
  <2>3. w.body[f] = "null" \/ w.body[f] = SentFor(T, g.tag, f, g.val[f])
    BY EncodeBySent
  <2>4. SentFor(T, g.tag, f, g.val[f]) # "absent"
    <3>1. Marshal(KindOf(T, f), g.val[f]) # "absent"
      BY DEF GoValue, Marshal, GoShapes, Shapes
    <3> QED BY <2>2, <3>1 DEF SentFor, NilIsNull, Omitted
  <2> QED BY <2>1, <2>3, <2>4
<1> QED BY <1>2 DEF Provided

\* Whatever its type, a message that the library wrote is read back.
LEMMA MessageComesBack ==
    ASSUME NEW T, TypeFits(T), NEW g, Clean(T, g), Encodes(T, g)
    PROVE  ComesBack(T, g, Decode(T, Encode(T, g)))
BY FieldsComeBack, CarriersComeBack

\* For any type: what a proxy sends, a second one sends as well.
LEMMA MessageSettles ==
    ASSUME NEW T, TypeFits(T), NEW p, Message(T, p), Provided(T, p), Decode(T, p).ok
    PROVE  Encode(T, Decode(T, Encode(T, Decode(T, p)))) = Encode(T, Decode(T, p))
BY FieldsSettle, CarriersSettle

\* The discriminator is kept by MarshalJSON and by UnmarshalJSON; a type with carriers
\* has none.
LEMMA TagIsKept ==
    ASSUME NEW T, NEW x
    PROVE  /\ T.carriers = << >> => Encode(T, x).tag = x.tag /\ Decode(T, x).tag = x.tag
           /\ T.carriers # << >> => Encode(T, x).tag = "" /\ Decode(T, x).tag = ""
<1>1. T.carriers = << >> => Encode(T, x).tag = x.tag
  BY DEF Encode, EncodeFields
<1>2. T.carriers # << >> => Encode(T, x).tag = ""
  BY DEF Encode, EncodeCarrier
<1>3. T.carriers = << >> => Decode(T, x).tag = x.tag
  BY DecodeByField
<1>4. T.carriers # << >> => Decode(T, x).tag = ""
  BY DEF Decode, DecodeCarrier
<1> QED BY <1>1, <1>2, <1>3, <1>4

\* A constructor makes a clean value, and so does setting one field or listing a key in
\* NullFields.
LEMMA ConstructsClean ==
    ASSUME NEW T, TypeFits(T), NEW c \in T.ctors
    PROVE  /\ Clean(T, Constructed(T, c))
           /\ \A f \in Keys(T) : \A v \in GoValues(KindOf(T, f)) :
                Clean(T, [Constructed(T, c) EXCEPT !.val[f] = v])
           /\ \A f \in Keys(T) \cap At(T.nulls, c[1]) :
                Clean(T, [Constructed(T, c) EXCEPT !.nulls = {f}])
<1> DEFINE val == [f \in Keys(T) |-> IF f \in c[2] THEN "good" ELSE "zero"]
           g == Constructed(T, c)
<1>1. g = [ok |-> TRUE, tag |-> c[1], nulls |-> {}, val |-> val]
  BY DEF Constructed
<1>2. g.tag = c[1] /\ g.nulls = {} /\ g.val = val
  BY DEF Constructed
<1>3. \A f \in Keys(T) : val[f] \in {"good", "zero"} /\ (f \notin c[2] => val[f] = "zero")
  OBVIOUS
<1>4. DOMAIN val = Keys(T)
  OBVIOUS
<1> HIDE DEF val, g
<1>5. Clean(T, g)
  BY <1>2, <1>3 DEF Clean, CleanValues
<1>6. ASSUME NEW f \in Keys(T), NEW v \in GoValues(KindOf(T, f))
      PROVE  Clean(T, [g EXCEPT !.val[f] = v])
  <2> DEFINE h == [g EXCEPT !.val[f] = v]
  <2>2. h.tag = c[1] /\ h.nulls = {} /\ h.val = [val EXCEPT ![f] = v]
    BY <1>1
  <2>3. v \in {"zero", "good", "empty"} /\ (v = "empty" => KindOf(T, f) \notin {"scalar", "struct"})
    BY <1>6 DEF GoValues
  <2> HIDE DEF h
  <2>4. \A x \in Keys(T) : /\ h.val[x] \in {"zero", "good", "empty"}
                           /\ h.val[x] = "empty" => KindOf(T, x) \notin {"scalar", "struct"}
    BY <1>3, <1>4, <2>2, <2>3
  <2>5. Clean(T, h)
    BY <2>2, <2>4 DEF Clean, CleanValues
  <2> QED BY <2>5 DEF h
<1>7. ASSUME NEW f \in Keys(T) \cap At(T.nulls, c[1])
      PROVE  Clean(T, [g EXCEPT !.nulls = {f}])
  <2> DEFINE h == [g EXCEPT !.nulls = {f}]
  <2>2. h.tag = c[1] /\ h.nulls = {f} /\ h.val = val
    BY <1>1
  <2>3. f \notin c[2]
    BY <1>7 DEF TypeFits, NullsRead
  <2> HIDE DEF h
  <2>4. Clean(T, h)
    BY <1>3, <1>7, <2>2, <2>3 DEF Clean, CleanValues
  <2> QED BY <2>4 DEF h
<1> QED BY <1>5, <1>6, <1>7 DEF g

-----------------------------------------------------------------------------
(* A variant and the type that stands alone for it *)

\* Values that are sent as they are, and those that say little: a nil pointer or slice
\* in a pointer or an any only of what came as null.
Told == {"good", "alien"}
Quiet(j, v) == v \in {"zero", "husk", "empty"} \/ (v = "nilptr" /\ j = "null")
ReadTold(k, r, j) == j \in Told => DecodeField(k, r, j).val = j

\* What a rule that decodes one value makes of a key that is there.
LEMMA ValueIsRead ==
    ASSUME NEW k, NEW r, IsRule(r), RuleFitsKind(k, r), r.via \in {"place", "temp"},
           Source(k, r) \in {"ptr", "scalar", "struct", "slice", "ptrslice", "map"},
           NEW j \in Shapes, j # "absent", ~KeepsNull(r, j)
    PROVE  /\ DecodeField(k, r, j).err <=> j \in {"bad", "mixed"} /\ ~r.lax
           /\ ReadTold(k, r, j)
           /\ j \notin Told => Quiet(j, DecodeField(k, r, j).val)
           /\ Source(k, r) = k => DecodeField(k, r, j).val # "nilptr"
<1> DEFINE s == Source(k, r)
           x == Unmarshal(s, j)
           d == DecodeField(k, r, j)
<1>1. x.err <=> j \in {"bad", "mixed"}
  BY DEF Unmarshal
<1>2. j \in Told => x.val = j
  BY DEF Unmarshal, Told
<1>3. /\ j \notin Told => x.val \in {"zero", "husk", "empty"}
      /\ x.val = "zero" /\ ~x.err => j = "null" \/ s \in {"scalar", "struct"}
  BY DEF Unmarshal, Told, Shapes
<1>4. CASE r.via = "place"
  <2>1. d = Place(k, r, j) /\ s = k
    BY <1>4 DEF DecodeField, Source
  <2>2. d.err = (x.err /\ ~r.lax) /\ d.val = x.val
    BY <2>1 DEF Place
  <2> HIDE DEF x, d, s
  <2> QED BY <1>1, <1>2, <1>3, <2>2 DEF Quiet, Told, ReadTold, d, s
<1>5. CASE r.via = "temp"
  <2>1. d = Assign(k, r, j) /\ s = r.src
    BY <1>5 DEF DecodeField, Source
  <2>2. /\ d.err = (x.err /\ ~r.lax)
        /\ d.val = IF x.err THEN "zero" ELSE Convert(s, k, x.val)
    BY <2>1 DEF Assign
  <2>3. x.val # "zero" => Convert(s, k, x.val) = x.val
    BY DEF Convert, Boxed
  <2>4. /\ j = "null" \/ s \in {"scalar", "struct"} => Quiet(j, Convert(s, k, "zero"))
        /\ s = k => Convert(s, k, "zero") # "nilptr"
    BY DEF Convert, Boxed, Quiet
  <2> HIDE DEF x, d, s
  <2>5. d.err <=> j \in {"bad", "mixed"} /\ ~r.lax
    BY <1>1, <2>2
  <2>6. j \in Told => d.val = j
    BY <1>1, <1>2, <2>2, <2>3 DEF Told
  <2>7. j \notin Told => Quiet(j, d.val)
    BY <1>1, <1>3, <2>2, <2>3, <2>4 DEF Quiet
  <2>8. s = k => d.val # "nilptr"
    BY <1>2, <1>3, <2>2, <2>3, <2>4 DEF Told
  <2> QED BY <2>5, <2>6, <2>7, <2>8 DEF ReadTold, d, s
<1> QED BY <1>4, <1>5

\* Two values, both made of j, are the same or say little.
SaysAlike(j, v, u) ==
    \/ v = u /\ v \in Told
    \/ v \in {"zero", "husk", "empty"} /\ Quiet(j, u)

\* A field of a variant is refused when the type that stands alone refuses it, and the
\* two values are the same or say as little.
LEMMA VariantReads ==
    ASSUME NEW S, NEW U, TypeFits(S), TypeFits(U), NEW c \in U.ctors, NEW f \in Keys(S),
           f \in Keys(U), ReadsAlike(S, U, c[1], f), NEW j \in Shapes
    PROVE  /\ DecodeField(KindOf(S, f), RuleOf(S, "", f), j).err
                <=> DecodeField(KindOf(U, f), RuleOf(U, c[1], f), j).err
           /\ KeepsNull(RuleOf(S, "", f), j) <=> KeepsNull(RuleOf(U, c[1], f), j)
           /\ SaysAlike(j, DecodeField(KindOf(S, f), RuleOf(S, "", f), j).val,
                        DecodeField(KindOf(U, f), RuleOf(U, c[1], f), j).val)
<1> DEFINE k == KindOf(S, f)
           l == KindOf(U, f)
           r == RuleOf(S, "", f)
           q == RuleOf(U, c[1], f)
           v == DecodeField(k, r, j).val
           u == DecodeField(l, q, j).val
           value == {"place", "temp"}
<1>1. IsRule(r) /\ IsRule(q)
  BY RuleFits DEF TypeFits
<1>2. RuleFitsKind(l, q)
  BY DEF TypeFits, KindsFit, RuleFitsKind
<1>3. /\ r.lax = q.lax /\ r.keep = q.keep
      /\ r.via \in value => q.via \in value /\ Source(k, r) = k /\ Alike(k, Source(l, q))
      /\ r.via \notin value => q.via = r.via /\ q.src = r.src /\ r.via # "none"
  BY DEF ReadsAlike
<1>4. v = DecodeField(k, r, j).val /\ u = DecodeField(l, q, j).val
  OBVIOUS
<1> HIDE DEF k, l, r, q, v, u
<1>5. KeepsNull(r, j) <=> KeepsNull(q, j)
  BY <1>3 DEF KeepsNull
<1>6. CASE j = "absent" \/ KeepsNull(r, j)
  <2>1. /\ ~DecodeField(k, r, j).err /\ ~DecodeField(l, q, j).err
        /\ v = "zero" /\ u = "zero"
    BY <1>4, <1>5, <1>6 DEF DecodeField
  <2> QED BY <1>5, <2>1 DEF SaysAlike, Quiet, k, l, r, q, v, u
<1>7. CASE j # "absent" /\ ~KeepsNull(r, j) /\ r.via \in value
  <2>1. Source(k, r) \in {"ptr", "scalar", "struct", "slice", "ptrslice", "map"}
    BY <1>3, <1>7 DEF Alike
  <2>2. Source(l, q) \in {"ptr", "scalar", "struct", "slice", "ptrslice", "map"}
    BY <1>3, <1>7 DEF Alike
  <2>3. Source(k, r) = k
    BY <1>3, <1>7
  <2>4. /\ DecodeField(k, r, j).err <=> j \in {"bad", "mixed"} /\ ~r.lax
        /\ j \in Told => v = j
        /\ j \notin Told => Quiet(j, v)
        /\ v # "nilptr"
    <3>1. IsRule(r)
      BY <1>1
    <3>2. RuleFitsKind(k, r)
      BY <1>3, <1>7 DEF RuleFitsKind, Source
    <3>3. r.via \in {"place", "temp"}
      BY <1>7
    <3>4. j # "absent"
      BY <1>7
    <3>5. ~KeepsNull(r, j)
      BY <1>7
    <3>6. DecodeField(k, r, j).err <=> j \in {"bad", "mixed"} /\ ~r.lax
      BY <2>1, <3>1, <3>2, <3>3, <3>4, <3>5, ValueIsRead
    <3>7. ReadTold(k, r, j)
      BY <2>1, <3>1, <3>2, <3>3, <3>4, <3>5, ValueIsRead
    <3>8. j \notin Told => Quiet(j, DecodeField(k, r, j).val)
      BY <2>1, <3>1, <3>2, <3>3, <3>4, <3>5, ValueIsRead
    <3>9. DecodeField(k, r, j).val # "nilptr"
      BY <2>1, <2>3, <3>1, <3>2, <3>3, <3>4, <3>5, ValueIsRead
    <3> QED BY <1>4, <3>6, <3>7, <3>8, <3>9 DEF ReadTold
  <2>5. /\ DecodeField(l, q, j).err <=> j \in {"bad", "mixed"} /\ ~q.lax
        /\ j \in Told => u = j
        /\ j \notin Told => Quiet(j, u)
    <3>1. IsRule(q)
      BY <1>1
    <3>2. q.via \in {"place", "temp"}
      BY <1>3, <1>7
    <3>3. j # "absent"
      BY <1>7
    <3>4. ~KeepsNull(q, j)
      BY <1>5, <1>7
    <3>6. DecodeField(l, q, j).err <=> j \in {"bad", "mixed"} /\ ~q.lax
      BY <1>2, <2>2, <3>1, <3>2, <3>3, <3>4, ValueIsRead
    <3>7. ReadTold(l, q, j)
      BY <1>2, <2>2, <3>1, <3>2, <3>3, <3>4, ValueIsRead
    <3>8. j \notin Told => Quiet(j, DecodeField(l, q, j).val)
      BY <1>2, <2>2, <3>1, <3>2, <3>3, <3>4, ValueIsRead
    <3> QED BY <1>4, <3>6, <3>7, <3>8 DEF ReadTold
  <2>6. DecodeField(k, r, j).err <=> DecodeField(l, q, j).err
    BY <1>3, <2>4, <2>5
  <2>7. \/ v = u /\ v \in Told
        \/ v \in {"zero", "husk", "empty"} /\ Quiet(j, u)
    <3>1. CASE j \in Told
      BY <2>4, <2>5, <3>1
    <3>2. CASE j \notin Told
      BY <2>4, <2>5, <3>2 DEF Quiet
    <3> QED BY <3>1, <3>2
  <2> QED BY <1>5, <2>6, <2>7 DEF SaysAlike, k, l, r, q, v, u
<1>8. CASE j # "absent" /\ ~KeepsNull(r, j) /\ r.via = "enum"
  <2>1. q.via = "enum" /\ ~KeepsNull(q, j)
    BY <1>3, <1>5, <1>8
  <2>2. /\ ~DecodeField(k, r, j).err
        /\ DecodeField(k, r, j).val = IF j = "good" THEN "good" ELSE "zero"
    BY <1>8 DEF DecodeField, AssignKnown
  <2>3. /\ ~DecodeField(l, q, j).err
        /\ DecodeField(l, q, j).val = IF j = "good" THEN "good" ELSE "zero"
    BY <1>8, <2>1 DEF DecodeField, AssignKnown
  <2>4. v = u /\ v \in {"good", "zero"}
    BY <1>4, <2>2, <2>3
  <2> QED BY <1>5, <2>2, <2>3, <2>4 DEF SaysAlike, Quiet, Told, k, l, r, q, v, u
<1>9. CASE j # "absent" /\ ~KeepsNull(r, j) /\ r.via = "items"
  <2>1. r.lax = q.lax /\ r.src = q.src /\ q.via = "items"
    BY <1>3, <1>9
  <2>2. DecodeField(k, r, j) = KeepValid(k, r, j)
    BY <1>9 DEF DecodeField
  <2>3. DecodeField(l, q, j) = KeepValid(l, q, j)
    BY <1>5, <1>9, <2>1 DEF DecodeField
  <2>4. KeepValid(k, r, j).err <=> KeepValid(l, q, j).err
    BY <2>1 DEF KeepValid
  <2>5. KeepValid(k, r, j).val = KeepValid(l, q, j).val
    BY <2>1 DEF KeepValid
  <2>6. KeepValid(k, r, j).val \in {"good", "empty", "zero"}
    BY DEF KeepValid
  <2>7. DecodeField(k, r, j).err <=> DecodeField(l, q, j).err
    BY <2>2, <2>3, <2>4
  <2>8. v = u /\ v \in {"good", "empty", "zero"}
    BY <1>4, <2>2, <2>3, <2>5, <2>6
  <2> QED BY <1>5, <2>7, <2>8 DEF SaysAlike, Quiet, Told, k, l, r, q, v, u
<1> QED BY <1>1, <1>3, <1>6, <1>7, <1>8, <1>9 DEF IsRule

\* What says little is sent as an encoding that says nothing, if it may be omitted.
LEMMA QuietIsBlank ==
    ASSUME NEW T, NEW tag, NEW f, f \notin Needed(T, tag), T.fields[f].omit \in {"zero", "empty"},
           NEW j, NEW v, Quiet(j, v)
    PROVE  /\ SentFor(T, tag, f, v) \in Blank(j)
           /\ v # "nilptr" => SentFor(T, tag, f, v) \in {"absent", "empty"}
<1> DEFINE k == KindOf(T, f)
           omit == T.fields[f].omit
<1>1. SentFor(T, tag, f, v) = IF Omitted(k, omit, v) THEN "absent" ELSE Marshal(k, v)
  BY DEF SentFor
<1>2. v = "zero" /\ k # "struct" => Omitted(k, omit, v)
  BY DEF Omitted
<1>3. v = "zero" /\ k = "struct" => Marshal(k, v) = "empty"
  BY DEF Marshal
<1>4. v \in {"husk", "empty"} => Marshal(k, v) = "empty"
  BY DEF Marshal
<1>5. v = "nilptr" => Marshal(k, v) = "null" /\ j = "null"
  BY DEF Marshal, Quiet
<1>6. v # "nilptr" => SentFor(T, tag, f, v) \in {"absent", "empty"}
  BY <1>1, <1>2, <1>3, <1>4 DEF Quiet
<1>7. v = "nilptr" => SentFor(T, tag, f, v) \in {"absent", "null"} /\ j = "null"
  BY <1>1, <1>5
<1> QED BY <1>6, <1>7 DEF Blank

\* A value that is told apart, known or not, is sent as it is.
LEMMA ToldIsSent ==
    ASSUME NEW T, NEW tag, NEW f, NEW v \in Told
    PROVE  SentFor(T, tag, f, v) = v
<1>1. Marshal(KindOf(T, f), v) = v
  BY DEF Marshal, Told
<1>2. ~Omitted(KindOf(T, f), T.fields[f].omit, v) /\ v # "zero"
  BY DEF Omitted, Told
<1> QED BY <1>1, <1>2 DEF SentFor

\* Two rules for a slice, one for the type that stands alone and one for the variant.
ListRules(r, q) ==
    IF r.via \in {"place", "temp"}
    THEN q.via \in {"place", "temp"} /\ Source("slice", r) = "slice" /\ Source("slice", q) = "slice"
    ELSE q.via = r.via /\ q.src = r.src /\ r.via # "none"
ListRead(r, q, j) == DecodeField("slice", r, j).val = DecodeField("slice", q, j).val

\* A required list is read alike into a slice, in place or by way of a variable.
LEMMA ListIsRead ==
    ASSUME NEW r, NEW q, IsRule(r), ListRules(r, q), NEW j, j # "absent",
           ~KeepsNull(r, j), ~KeepsNull(q, j)
    PROVE  ListRead(r, q, j)
<1> DEFINE x == Unmarshal("slice", j).val
<1>1. ASSUME NEW y, ~KeepsNull(y, j), y.via \in {"place", "temp"}, Source("slice", y) = "slice"
      PROVE  DecodeField("slice", y, j).val = x
  <2>1. CASE y.via = "place"
    BY <1>1, <2>1 DEF DecodeField, Place
  <2>2. CASE y.via = "temp"
    <3>1. y.src = "slice"
      BY <1>1, <2>2 DEF Source
    <3>2. DecodeField("slice", y, j).val
            = IF Unmarshal("slice", j).err THEN "zero" ELSE Convert("slice", "slice", x)
      BY <1>1, <2>2, <3>1 DEF DecodeField, Assign
    <3>3. Unmarshal("slice", j).err => x = "zero"
      BY DEF Unmarshal, Pointers
    <3> QED BY <3>2, <3>3 DEF Convert, Boxed
  <2> QED BY <1>1, <2>1, <2>2
<1>2. CASE r.via \in {"place", "temp"}
  <2>1. /\ q.via \in {"place", "temp"}
        /\ Source("slice", r) = "slice" /\ Source("slice", q) = "slice"
    BY <1>2 DEF ListRules
  <2>2. DecodeField("slice", r, j).val = x
    BY <1>1, <1>2, <2>1
  <2>3. DecodeField("slice", q, j).val = x
    BY <1>1, <2>1
  <2> QED BY <2>2, <2>3 DEF ListRead
<1>3. CASE r.via = "enum"
  <2>1. q.via = "enum"
    BY <1>3 DEF ListRules
  <2> QED BY <1>3, <2>1 DEF DecodeField, AssignKnown, ListRead
<1>4. CASE r.via = "items"
  <2>1. q.via = "items" /\ q.src = r.src
    BY <1>4 DEF ListRules
  <2> QED BY <1>4, <2>1 DEF DecodeField, KeepValid, ListRead
<1>5. r.via # "none"
  BY DEF ListRules
<1> QED BY <1>2, <1>3, <1>4, <1>5 DEF IsRule

\* A required empty value is read and sent as one, in a pointer or an any too.
LEMMA EmptyIsSent ==
    ASSUME NEW T, TypeFits(T), NEW c \in T.ctors, NEW f \in Keys(T),
           KindOf(T, f) \notin Collections, RuleOf(T, c[1], f).via \in {"place", "temp"},
           Source(KindOf(T, f), RuleOf(T, c[1], f)) \in {"ptr", "scalar", "struct"},
           \/ f \in Needed(T, c[1]) \/ T.fields[f].omit = "never"
           \/ /\ RuleOf(T, c[1], f).via = "temp" /\ RuleOf(T, c[1], f).src \notin Pointers
              /\ KindOf(T, f) \in Pointers \cup {"any"}
    PROVE  SentFor(T, c[1], f, DecodeField(KindOf(T, f), RuleOf(T, c[1], f), "empty").val) = "empty"
<1> DEFINE k == KindOf(T, f)
           r == RuleOf(T, c[1], f)
           u == DecodeField(k, r, "empty").val
           always == f \in Needed(T, c[1]) \/ T.fields[f].omit = "never"
<1>1. IsRule(r)
  BY RuleFits DEF TypeFits
<1>2. r.via = "temp" => r.src = k \/ k \in Pointers \cup {"any"}
  BY DEF TypeFits, KindsFit
<1>3. k \notin Collections /\ r.via \in {"place", "temp"} /\ Source(k, r) \in {"ptr", "scalar", "struct"}
  OBVIOUS
<1>4. always \/ (r.via = "temp" /\ r.src \notin Pointers /\ k \in Pointers \cup {"any"})
  OBVIOUS
<1>5. u = DecodeField(k, r, "empty").val
  OBVIOUS
<1>6. always => SentFor(T, c[1], f, u) = Marshal(k, u)
  BY <1>3 DEF SentFor, Omitted, Collections
<1>7. u = "empty" => SentFor(T, c[1], f, u) = "empty"
  BY <1>3 DEF SentFor, Omitted, Marshal
<1> HIDE DEF k, r, u
<1>8. ASSUME r.via = "place" PROVE SentFor(T, c[1], f, u) = "empty"
  <2>1. k \in {"ptr", "scalar", "struct"}
    BY <1>3, <1>8 DEF Source
  <2>2. u = IF k \in {"scalar", "struct"} THEN "zero" ELSE "empty"
    BY <1>1, <1>5, <1>8, DecodeClean
  <2>3. u = "zero" => Marshal(k, u) = "empty"
    BY <2>2 DEF Marshal
  <2> QED BY <1>4, <1>6, <1>7, <1>8, <2>2, <2>3
<1>9. ASSUME r.via = "temp" PROVE SentFor(T, c[1], f, u) = "empty"
  <2>1. u = Convert(r.src, k, IF r.src \in {"scalar", "struct"} THEN "zero" ELSE "empty")
    BY <1>1, <1>5, <1>9, DecodeClean
  <2>2. r.src \in {"ptr", "scalar", "struct"}
    BY <1>3, <1>9 DEF Source
  <2>3. u = "empty" \/ (u = "zero" /\ r.src = k /\ k \in {"scalar", "struct"})
    BY <1>2, <1>9, <2>1, <2>2 DEF Convert, Boxed, Pointers, Collections
  <2>4. u = "zero" => always /\ Marshal(k, u) = "empty"
    BY <1>4, <2>3 DEF Marshal, Pointers
  <2> QED BY <1>6, <1>7, <2>3, <2>4
<1> QED BY <1>3, <1>8, <1>9 DEF k, r, u

\* What a variant sends for a field that it accepted is what the type that stands alone
\* sends, or both say nothing of a field that may be omitted, which came as j.
SendsAlike(S, U, tag, f, j, v, u) ==
    \/ SentFor(S, "", f, v) = SentFor(U, tag, f, u)
    \/ /\ S.fields[f].omit # "never"
       /\ SentFor(S, "", f, v) \in Blank(j) /\ SentFor(U, tag, f, u) \in Blank(j)

\* What the two types decoded from the same JSON value they send on alike.
LEMMA VariantSends ==
    ASSUME NEW S, NEW U, TypeFits(S), TypeFits(U), NEW c \in U.ctors, NEW f \in Keys(S),
           f \in Keys(U), ReadsAlike(S, U, c[1], f), WritesAlike(S, U, c[1], f),
           NEW j \in Shapes, ~KeepsNull(RuleOf(S, "", f), j),
           ~DecodeField(KindOf(S, f), RuleOf(S, "", f), j).err,
           S.fields[f].omit = "never" =>
             j # "absent" /\ (KindOf(S, f) \notin Pointers => j # "null")
    PROVE  SendsAlike(S, U, c[1], f, j, DecodeField(KindOf(S, f), RuleOf(S, "", f), j).val,
                      DecodeField(KindOf(U, f), RuleOf(U, c[1], f), j).val)
<1> DEFINE k == KindOf(S, f)
           l == KindOf(U, f)
           r == RuleOf(S, "", f)
           q == RuleOf(U, c[1], f)
           v == DecodeField(k, r, j).val
           u == DecodeField(l, q, j).val
           x == SentFor(S, "", f, v)
           y == SentFor(U, c[1], f, u)
           value == {"place", "temp"}
<1>1. IsRule(r) /\ IsRule(q)
  BY RuleFits DEF TypeFits
<1>2. \/ v = u /\ v \in Told
      \/ v \in {"zero", "husk", "empty"} /\ Quiet(j, u)
  <2>1. SaysAlike(j, v, u)
    BY VariantReads
  <2> HIDE DEF v, u
  <2> QED BY <2>1 DEF SaysAlike
<1>3. CASE v = u /\ v \in Told
  <2>1. v \in Told
    BY <1>3
  <2>2. u \in Told
    BY <1>3
  <2> HIDE DEF v, u
  <2>3. x = v
    BY <2>1, ToldIsSent
  <2>4. y = u
    BY <2>2, ToldIsSent
  <2> QED BY <1>3, <2>3, <2>4 DEF SendsAlike, v, u
<1>4. /\ r.lax = q.lax /\ r.keep = q.keep
      /\ r.via \in value => q.via \in value /\ Source(k, r) = k /\ Alike(k, Source(l, q))
      /\ r.via \notin value => q.via = r.via /\ q.src = r.src /\ r.via # "none"
  BY DEF ReadsAlike
<1>5. KeepsNull(r, j) <=> KeepsNull(q, j)
  BY <1>4 DEF KeepsNull
<1>6. CASE v \in {"zero", "husk", "empty"} /\ Quiet(j, u) /\ S.fields[f].omit # "never"
  <2>1. f \notin Needed(U, c[1]) /\ U.fields[f].omit # "never" /\ f \notin Needed(S, "")
    BY <1>6 DEF WritesAlike
  <2>2. S.fields[f].omit \in {"zero", "empty"}
    BY <1>6 DEF TypeFits, RulesFit
  <2>3. U.fields[f].omit \in {"zero", "empty"}
    BY <2>1 DEF TypeFits, RulesFit
  <2>4. Quiet(j, v) /\ v # "nilptr"
    BY <1>6 DEF Quiet
  <2>5. x \in {"absent", "empty"}
    BY <2>1, <2>2, <2>4, QuietIsBlank
  <2>6. y \in Blank(j)
    BY <1>6, <2>1, <2>3, QuietIsBlank
  <2> QED BY <1>6, <2>5, <2>6 DEF Blank, SendsAlike
<1>7. CASE S.fields[f].omit = "never" /\ k = "slice"
  <2>1. l = "slice" /\ f \in Needed(S, "") /\ f \in Needed(U, c[1])
    BY <1>7 DEF WritesAlike
  <2>2. j # "absent" /\ ~KeepsNull(r, j) /\ ~KeepsNull(q, j)
    BY <1>5, <1>7
  <2>3. v = u
    <3>1. IsRule(r)
      BY <1>1
    <3>2. r.via \in value => Source("slice", r) = "slice" /\ q.via \in value
      BY <1>4, <1>7
    <3>3. q.via = "temp" => q.src = "slice"
      BY <2>1 DEF TypeFits, KindsFit, Pointers
    <3>4. q.via \in value => Source("slice", q) = "slice"
      BY <3>3 DEF Source
    <3>5. ListRules(r, q)
      BY <1>4, <3>2, <3>4 DEF ListRules
    <3>6. j # "absent"
      BY <2>2
    <3>7. ~KeepsNull(r, j)
      BY <2>2
    <3>8. ~KeepsNull(q, j)
      BY <2>2
    <3>9. ListRead(r, q, j)
      <4> HIDE DEF r, q
      <4> QED BY <3>1, <3>5, <3>6, <3>7, <3>8, ListIsRead
    <3> QED BY <1>7, <2>1, <3>9 DEF ListRead
  <2>4. x = y
    BY <1>7, <2>1, <2>3 DEF SentFor
  <2> QED BY <2>4 DEF SendsAlike
<1>8. CASE v \in {"zero", "husk", "empty"} /\ S.fields[f].omit = "never" /\ k # "slice"
  <2>1. /\ k \in {"scalar", "struct"} /\ r.via = "place" /\ ~r.lax /\ l \notin Collections
        /\ \/ f \in Needed(U, c[1]) \/ U.fields[f].omit = "never"
           \/ q.via = "temp" /\ q.src \notin Pointers /\ l \in Pointers \cup {"any"}
    BY <1>8 DEF WritesAlike
  <2>2. j # "absent" /\ j # "null"
    BY <1>8, <2>1 DEF Pointers
  <2>3. DecodeField(k, r, j).err = (Unmarshal(k, j).err /\ ~r.lax)
    BY <2>1, <2>2 DEF DecodeField, Place
  <2>4. v = Unmarshal(k, j).val
    BY <2>1, <2>2 DEF DecodeField, Place
  <2>5. j = "empty" /\ v = "zero"
    <3>1. ~Unmarshal(k, j).err
      BY <2>1, <2>3
    <3>2. j \notin {"bad", "mixed"}
      BY <2>1, <3>1 DEF Unmarshal
    <3>3. Unmarshal(k, j).val = IF j = "empty" THEN "zero" ELSE j
      BY <2>1, <2>2, <3>2 DEF Unmarshal
    <3> QED BY <1>8, <2>2, <2>4, <3>2, <3>3 DEF Shapes
  <2>6. x = "empty"
    BY <1>8, <2>1, <2>5 DEF SentFor, Omitted, Marshal
  <2>7. q.via \in {"place", "temp"} /\ Source(l, q) \in {"ptr", "scalar", "struct"}
    BY <1>4, <2>1 DEF Alike
  <2>8. y = "empty"
    <3>1. l \notin Collections
      BY <2>1
    <3>2. q.via \in {"place", "temp"}
      BY <2>7
    <3>3. Source(l, q) \in {"ptr", "scalar", "struct"}
      BY <2>7
    <3>4. SentFor(U, c[1], f, DecodeField(l, q, "empty").val) = "empty"
      BY <2>1, <3>1, <3>2, <3>3, EmptyIsSent
    <3> QED BY <2>5, <3>4
  <2> QED BY <2>6, <2>8 DEF SendsAlike
<1> QED BY <1>2, <1>3, <1>6, <1>7, <1>8

-----------------------------------------------------------------------------
(* The invariant *)

\* Nothing has been sent yet.
LEMMA InitJourney == Init => Untampered /\ TagKept /\ Settling
<1> SUFFICES ASSUME Init PROVE Untampered /\ TagKept /\ Settling
  OBVIOUS
<1>1. stage = "idle"
  BY DEF Init
<1> QED BY <1>1 DEF Untampered, TagKept, Settling

\* A peer that names another variant does not go unnoticed.
LEMMA NamesAreSeen ==
    ASSUME NEW tag \in {"?", "bad"}
    PROVE  [key |-> "", shape |-> tag] # Unaltered
<1> SUFFICES ASSUME [key |-> "", shape |-> tag] = [key |-> "", shape |-> "absent"] PROVE FALSE
  BY DEF Unaltered
<1>1. tag = "absent"
  OBVIOUS
<1> QED BY <1>1

\* A step keeps the message what the library wrote as long as the peer did not write.
LEMMA NextUntampered == IInv /\ Untampered /\ [Next]_vars => Untampered'
<1> SUFFICES ASSUME IInv, Untampered, [Next]_vars, alter' = Unaltered
             PROVE  /\ stage' \in {"built", "wire", "seen"} => Clean(TypeOf', msg')
                    /\ stage' \in {"wire", "seen"} =>
                         wire' = Encode(TypeOf', msg') /\ Encodes(TypeOf', msg')
                    /\ stage' = "refused" => ~Encodes(TypeOf', msg')
  BY DEF Untampered
<1> DEFINE T == TypeOf
           Goal == /\ stage' \in {"built", "wire", "seen"} => Clean(TypeOf', msg')
                   /\ stage' \in {"wire", "seen"} =>
                        wire' = Encode(TypeOf', msg') /\ Encodes(TypeOf', msg')
                   /\ stage' = "refused" => ~Encodes(TypeOf', msg')
<1>1. TypeFits(T)
  BY DEF IInv, WellTyped
<1>2. alter = Unaltered =>
        /\ stage \in {"built", "wire", "seen"} => Clean(T, msg)
        /\ stage \in {"wire", "seen"} => wire = Encode(T, msg) /\ Encodes(T, msg)
        /\ stage = "refused" => ~Encodes(T, msg)
  BY DEF Untampered
<1>3. ASSUME NEW c \in T.ctors, Construct(c) PROVE Goal
  <2>1. stage' = "built" /\ TypeOf' = T /\ msg' = Constructed(T, c)
    BY <1>3 DEF Construct, TypeOf
  <2> QED BY <1>1, <2>1, ConstructsClean
<1>4. ASSUME NEW c \in T.ctors, NEW f \in Keys(T), ConstructWith(c, f) PROVE Goal
  <2>1. stage' = "built" /\ TypeOf' = T
    BY <1>4 DEF ConstructWith, TypeOf
  <2>2. \/ \E v \in GoValues(KindOf(T, f)) : msg' = [Constructed(T, c) EXCEPT !.val[f] = v]
        \/ f \in At(T.nulls, c[1]) /\ msg' = [Constructed(T, c) EXCEPT !.nulls = {f}]
    <3>1. Constructed(T, c).tag = c[1]
      BY DEF Constructed
    <3> QED BY <1>4, <3>1 DEF ConstructWith
  <2>3. Clean(T, msg')
    BY <1>1, <2>2, ConstructsClean
  <2> QED BY <2>1, <2>3
<1>5. CASE MarshalJSON
  <2>1. /\ stage = "built" /\ msg' = msg /\ alter' = alter /\ TypeOf' = T
        /\ IF Encodes(T, msg) THEN wire' = Encode(T, msg) /\ stage' = "wire"
           ELSE wire' = None /\ stage' = "refused"
    BY <1>5 DEF MarshalJSON, TypeOf
  <2> QED BY <1>2, <2>1
<1>6. ASSUME NEW f \in Keys(T), NEW j, PeerWrites(f, j) PROVE Goal
  <2>1. alter'.key = f
    BY <1>6 DEF PeerWrites
  <2>2. alter'.key = ""
    BY DEF Unaltered
  <2> QED BY <1>1, <1>6, <2>1, <2>2 DEF TypeFits, NamesFit
<1>7. ASSUME NEW tag \in {"?", "bad"}, PeerNames(tag) PROVE Goal
  <2>1. alter' = [key |-> "", shape |-> tag]
    BY <1>7 DEF PeerNames
  <2>2. alter' = Unaltered
    OBVIOUS
  <2> QED BY <2>1, <2>2, NamesAreSeen
<1>8. CASE UnmarshalJSON
  <2>1. /\ stage = "wire" /\ seen' = Decode(T, wire)
        /\ stage' = IF seen'.ok THEN "seen" ELSE "refused"
        /\ msg' = msg /\ wire' = wire /\ alter' = alter /\ TypeOf' = T
    BY <1>8 DEF UnmarshalJSON, TypeOf
  <2>2. Clean(T, msg) /\ wire = Encode(T, msg) /\ Encodes(T, msg)
    BY <1>2, <2>1
  <2>3. seen'.ok
    BY <1>1, <2>1, <2>2, MessageComesBack DEF ComesBack
  <2> QED BY <2>1, <2>2, <2>3
<1>9. CASE Forward
  <2>1. /\ stage = "seen" /\ stage' = "built" /\ msg' = seen /\ alter' = alter /\ TypeOf' = T
    BY <1>9 DEF Forward, TypeOf
  <2>2. Clean(T, msg) /\ wire = Encode(T, msg) /\ Encodes(T, msg)
    BY <1>2, <2>1
  <2>3. seen = Decode(T, Encode(T, msg))
    BY <2>1, <2>2 DEF IInv, Decoded
  <2>4. Clean(T, seen)
    BY <1>1, <2>2, <2>3, MessageComesBack DEF ComesBack
  <2> QED BY <2>1, <2>4
<1>10. CASE UNCHANGED vars
  BY <1>2, <1>10 DEF vars, TypeOf
<1>11. CASE Finished
  BY <1>10, <1>11 DEF Finished
<1> QED BY <1>3, <1>4, <1>5, <1>6, <1>7, <1>8, <1>9, <1>10, <1>11 DEF Next

\* A step keeps the variant.
LEMMA NextTagKept == IInv /\ TagKept /\ [Next]_vars => TagKept'
<1> DEFINE T == TypeOf
           Tag == \E c \in T.ctors : msg.tag = c[1]
           Goal == /\ stage' \in {"built", "wire"} /\ hops' = 0 => \E c \in T.ctors : msg'.tag = c[1]
                   /\ stage' \in {"built", "wire", "seen"} /\ T.carriers # << >> => msg'.tag = ""
                   /\ stage' \in {"wire", "seen"} /\ (alter' = Unaltered \/ alter'.key # "")
                        => wire'.tag = msg'.tag
<1> SUFFICES ASSUME IInv, TagKept, [Next]_vars PROVE TypeOf' = T /\ Goal
  BY DEF TagKept
<1>1. TypeFits(T)
  BY DEF IInv, WellTyped
<1>2. /\ stage \in {"built", "wire"} /\ hops = 0 => Tag
      /\ stage \in {"built", "wire", "seen"} /\ T.carriers # << >> => msg.tag = ""
      /\ stage \in {"wire", "seen"} /\ (alter = Unaltered \/ alter.key # "") => wire.tag = msg.tag
  BY DEF TagKept
<1>3. ASSUME NEW c \in T.ctors, stage' = "built", msg'.tag = c[1] PROVE Goal
  BY <1>1, <1>3, CarrierType
<1>4. ASSUME NEW c \in T.ctors, Construct(c) PROVE TypeOf' = T /\ Goal
  <2>1. stage' = "built" /\ TypeOf' = T /\ msg' = Constructed(T, c)
    BY <1>4 DEF Construct, TypeOf
  <2>2. msg'.tag = c[1]
    BY <2>1 DEF Constructed
  <2> QED BY <1>3, <2>1, <2>2
<1>5. ASSUME NEW c \in T.ctors, NEW f \in Keys(T), ConstructWith(c, f)
      PROVE  TypeOf' = T /\ Goal
  <2>1. stage' = "built" /\ TypeOf' = T
    BY <1>5 DEF ConstructWith, TypeOf
  <2>2. \/ \E v \in GoValues(KindOf(T, f)) : msg' = [Constructed(T, c) EXCEPT !.val[f] = v]
        \/ f \in At(T.nulls, c[1]) /\ msg' = [Constructed(T, c) EXCEPT !.nulls = {f}]
    <3>1. Constructed(T, c).tag = c[1]
      BY DEF Constructed
    <3> QED BY <1>5, <3>1 DEF ConstructWith
  <2>3. ASSUME NEW v \in GoValues(KindOf(T, f)), msg' = [Constructed(T, c) EXCEPT !.val[f] = v]
        PROVE  msg'.tag = c[1]
    <3>1. [Constructed(T, c) EXCEPT !.val[f] = v].tag = c[1]
      BY DEF Constructed
    <3> QED BY <2>3, <3>1
  <2>4. ASSUME f \in At(T.nulls, c[1]), msg' = [Constructed(T, c) EXCEPT !.nulls = {f}]
        PROVE  msg'.tag = c[1]
    <3>1. [Constructed(T, c) EXCEPT !.nulls = {f}].tag = c[1]
      BY DEF Constructed
    <3> QED BY <2>4, <3>1
  <2>5. msg'.tag = c[1]
    BY <2>2, <2>3, <2>4
  <2> QED BY <1>3, <2>1, <2>5
<1>6. CASE MarshalJSON
  <2>1. /\ stage = "built" /\ stage' \in {"wire", "refused"} /\ hops' = hops
        /\ msg' = msg /\ alter' = alter /\ TypeOf' = T
        /\ stage' = "wire" => wire' = Encode(T, msg)
    BY <1>6 DEF MarshalJSON, TypeOf
  <2>2. stage' = "wire" => wire'.tag = msg'.tag
    <3>1. CASE T.carriers = << >>
      BY <2>1, <3>1, TagIsKept
    <3>2. CASE T.carriers # << >>
      BY <1>2, <2>1, <3>2, TagIsKept
    <3> QED BY <3>1, <3>2
  <2> QED BY <1>2, <2>1, <2>2
<1>7. ASSUME NEW f \in Keys(T), NEW j, PeerWrites(f, j) PROVE TypeOf' = T /\ Goal
  <2>1. /\ stage = "wire" /\ stage' = stage /\ hops' = hops /\ msg' = msg /\ TypeOf' = T
        /\ wire' = [wire EXCEPT !.body[f] = j] /\ alter = Unaltered
    BY <1>7 DEF PeerWrites, Untouched, TypeOf
  <2>2. wire = [tag |-> wire.tag, body |-> wire.body]
    BY <2>1 DEF IInv, WellTyped, Message
  <2>3. wire'.tag = wire.tag
    BY <2>1, <2>2
  <2> QED BY <1>2, <2>1, <2>3
<1>8. ASSUME NEW tag \in {"?", "bad"}, PeerNames(tag) PROVE TypeOf' = T /\ Goal
  <2>1. /\ stage = "wire" /\ stage' = stage /\ hops' = hops /\ msg' = msg /\ TypeOf' = T
        /\ alter' = [key |-> "", shape |-> tag]
    BY <1>8 DEF PeerNames, Untouched, TypeOf
  <2>2. alter' # Unaltered
    BY <2>1, NamesAreSeen
  <2>3. alter'.key = ""
    BY <2>1
  <2> QED BY <1>2, <2>1, <2>2, <2>3
<1>9. CASE UnmarshalJSON
  <2>1. /\ stage = "wire" /\ stage' \in {"seen", "refused"} /\ hops' = hops
        /\ msg' = msg /\ wire' = wire /\ alter' = alter /\ TypeOf' = T
    BY <1>9 DEF UnmarshalJSON, TypeOf
  <2> QED BY <1>2, <2>1
<1>10. CASE Forward
  <2>1. /\ stage = "seen" /\ stage' = "built" /\ msg' = seen /\ hops' = hops + 1 /\ TypeOf' = T
        /\ hops \in Nat /\ seen = Decode(T, wire)
    BY <1>10 DEF Forward, TypeOf, IInv, WellTyped, Decoded
  <2>2. T.carriers # << >> => msg'.tag = ""
    BY <2>1, TagIsKept
  <2>3. hops' # 0
    BY <2>1
  <2>4. Goal
    BY <2>1, <2>2, <2>3
  <2> QED BY <2>1, <2>4
<1>11. CASE UNCHANGED vars
  BY <1>2, <1>11 DEF vars, TypeOf
<1>12. CASE Finished
  BY <1>11, <1>12 DEF Finished
<1> QED BY <1>4, <1>5, <1>6, <1>7, <1>8, <1>9, <1>10, <1>11, <1>12 DEF Next

\* A peer that leaves out what is not required leaves out nothing that drifts.
LEMMA OmittedKeysStay ==
    ASSUME NEW T, TypeFits(T), NEW w, NEW x, x.tag = w.tag, Provided(T, w), NEW f \in Keys(T),
           \A y \in Keys(T) : y # f => x.body[y] = w.body[y],
           x.body[f] = "absent" => f \notin Needed(T, w.tag) /\ T.fields[f].omit # "never"
    PROVE  Provided(T, x)
<1>1. ASSUME T.carriers = << >>, NEW y \in Keys(T), Drifts(T, x.tag, y)
      PROVE  x.body[y] # "absent" /\ ~RuleOf(T, x.tag, y).lax
  <2>1. w.body[y] # "absent" /\ ~RuleOf(T, w.tag, y).lax
    BY <1>1 DEF Provided
  <2>2. CASE y # f
    BY <2>1, <2>2
  <2>3. CASE y = f
    <3>1. NilIsNull(T, w.tag, f)
      BY <1>1, <2>3 DEF Drifts
    <3>2. f \notin Needed(T, w.tag) => ~Omitted(KindOf(T, f), T.fields[f].omit, "zero")
      BY <3>1 DEF NilIsNull
    <3>3. T.fields[f].omit \in {"never", "zero", "empty"}
      BY DEF TypeFits, RulesFit
    <3>4. KindOf(T, f) # "struct"
      BY <3>1 DEF NilIsNull
    <3>5. T.fields[f].omit # "never" => Omitted(KindOf(T, f), T.fields[f].omit, "zero")
      BY <3>3, <3>4 DEF Omitted
    <3> QED BY <2>1, <2>3, <3>2, <3>5
  <2> QED BY <2>2, <2>3
<1> QED BY <1>1 DEF Provided

\* A step keeps what the receivers get complete, and settled once it was sent on.
LEMMA NextSettling == IInv /\ TagKept /\ Settling /\ [Next]_vars => Settling'
<1> DEFINE T == TypeOf
           Goal == /\ stage' \in {"wire", "seen"} /\ hops' = 0 /\ wire'.tag # "bad"
                        => Provided(T, wire')
                   /\ stage' \in {"built", "wire", "seen"} /\ hops' = 1 => Provided(T, prev')
                   /\ stage' \in {"built", "wire", "seen"} /\ hops' > 1
                        => Encode(T, Decode(T, prev')) = prev'
<1> SUFFICES ASSUME IInv, TagKept, Settling, [Next]_vars, ~Incomplete' PROVE TypeOf' = T /\ Goal
  BY DEF Settling
<1>1. TypeFits(T) /\ hops \in Nat
  BY DEF IInv, WellTyped
<1>2. ~Incomplete =>
        /\ stage \in {"wire", "seen"} /\ hops = 0 /\ wire.tag # "bad" => Provided(T, wire)
        /\ stage \in {"built", "wire", "seen"} /\ hops = 1 => Provided(T, prev)
        /\ stage \in {"built", "wire", "seen"} /\ hops > 1
             => Encode(T, Decode(T, prev)) = prev
  BY DEF Settling
<1>3. TypeOf' = T /\ alter' = alter /\ msg'.tag = msg.tag => ~Incomplete
  BY DEF Incomplete
<1>4. alter = Unaltered => ~Incomplete
  <2>1. Unaltered.key = ""
    BY DEF Unaltered
  <2> QED BY <2>1 DEF Incomplete
<1>5. ASSUME stage = "idle", stage' = "built", hops' = hops PROVE Goal
  <2>1. hops' = 0
    BY <1>5 DEF IInv, AlteredOnce
  <2>2. stage' \notin {"wire", "seen"} /\ hops' # 1 /\ ~(hops' > 1)
    BY <1>5, <2>1
  <2> QED BY <2>2
<1>6. ASSUME NEW c \in T.ctors, Construct(c) PROVE TypeOf' = T /\ Goal
  BY <1>5, <1>6 DEF Construct, TypeOf
<1>7. ASSUME NEW c \in T.ctors, NEW f \in Keys(T), ConstructWith(c, f)
      PROVE  TypeOf' = T /\ Goal
  BY <1>5, <1>7 DEF ConstructWith, TypeOf
<1>8. CASE MarshalJSON
  <2>1. /\ stage = "built" /\ stage' \in {"wire", "refused"} /\ hops' = hops /\ prev' = prev
        /\ msg' = msg /\ alter' = alter /\ TypeOf' = T
        /\ stage' = "wire" => wire' = Encode(T, msg)
    BY <1>8 DEF MarshalJSON, TypeOf
  <2>2. ~Incomplete
    BY <1>3, <2>1
  <2>3. hops = 0 => Provided(T, Encode(T, msg))
    <3>1. CASE T.carriers = << >>
      <4>1. GoValue(T, msg)
        BY <2>1 DEF IInv, WellTyped
      <4>2. hops = 0 => \E c \in T.ctors : msg.tag = c[1]
        BY <2>1 DEF TagKept
      <4> QED BY <1>1, <3>1, <4>1, <4>2, EncodeProvides
    <3>2. CASE T.carriers # << >>
      BY <3>2 DEF Provided
    <3> QED BY <3>1, <3>2
  <2> QED BY <1>2, <2>1, <2>2, <2>3
<1>9. ASSUME NEW f \in Keys(T), NEW j, PeerWrites(f, j) PROVE TypeOf' = T /\ Goal
  <2>1. /\ stage = "wire" /\ stage' = stage /\ hops = 0 /\ hops' = 0 /\ msg' = msg /\ TypeOf' = T
        /\ wire' = [wire EXCEPT !.body[f] = j] /\ alter = Unaltered
        /\ alter' = [key |-> f, shape |-> j]
    BY <1>9 DEF PeerWrites, Untouched, TypeOf
  <2>2. wire = [tag |-> wire.tag, body |-> wire.body] /\ DOMAIN wire.body = Keys(T)
    BY <2>1 DEF IInv, WellTyped, Message
  <2>3. wire' = [tag |-> wire.tag, body |-> [wire.body EXCEPT ![f] = j]]
    <3>1. ASSUME NEW t, NEW b, wire = [tag |-> t, body |-> b]
          PROVE  [wire EXCEPT !.body[f] = j] = [tag |-> t, body |-> [b EXCEPT ![f] = j]]
      BY <3>1
    <3> QED BY <2>1, <2>2, <3>1
  <2>4. wire'.tag = wire.tag /\ wire'.body = [wire.body EXCEPT ![f] = j]
    BY <2>3
  <2>5. wire.tag # "bad" => Provided(T, wire)
    BY <1>2, <1>4, <2>1
  <2>6. msg.tag = wire.tag
    BY <2>1 DEF TagKept
  <2>7. alter'.key = f /\ alter'.shape = j /\ f # ""
    BY <1>1, <2>1 DEF TypeFits, NamesFit
  <2>8. j = "absent" => f \notin Needed(T, wire.tag) /\ T.fields[f].omit # "never"
    BY <2>1, <2>6, <2>7 DEF Incomplete
  <2>9. wire'.body[f] = j
    BY <2>2, <2>4
  <2>10. \A y \in Keys(T) : y # f => wire'.body[y] = wire.body[y]
    BY <2>2, <2>4
  <2>11. ASSUME wire.tag # "bad" PROVE Provided(T, wire')
    <3>1. TypeFits(T)
      BY <1>1
    <3>2. Provided(T, wire)
      BY <2>5, <2>11
    <3>3. wire'.tag = wire.tag
      BY <2>4
    <3>4. wire'.body[f] = "absent" => f \notin Needed(T, wire.tag) /\ T.fields[f].omit # "never"
      BY <2>8, <2>9
    <3> HIDE DEF T
    <3> QED BY <2>10, <3>1, <3>2, <3>3, <3>4, OmittedKeysStay
  <2> QED BY <2>1, <2>4, <2>11
<1>10. ASSUME NEW tag \in {"?", "bad"}, PeerNames(tag) PROVE TypeOf' = T /\ Goal
  <2>1. /\ stage = "wire" /\ stage' = stage /\ hops = 0 /\ hops' = 0 /\ TypeOf' = T
        /\ wire' = [wire EXCEPT !.tag = tag] /\ wire.tag # "" /\ alter = Unaltered
    BY <1>10 DEF PeerNames, Untouched, TypeOf
  <2>2. wire = [tag |-> wire.tag, body |-> wire.body]
    BY <2>1 DEF IInv, WellTyped, Message
  <2>3. wire'.tag = tag
    BY <2>1, <2>2
  <2>4. PICK c \in T.ctors : msg.tag = c[1]
    BY <2>1 DEF TagKept
  <2>5. c[1] # ""
    BY <2>1, <2>4 DEF TagKept
  <2>6. tag = "?" => Provided(T, wire')
    BY <1>1, <2>3, <2>5 DEF TypeFits, DriftsFit, Provided
  <2>7. hops' # 1 /\ ~(hops' > 1)
    <3>1. hops' = 0
      BY <2>1
    <3> QED BY <3>1
  <2>8. wire'.tag # "bad" => Provided(T, wire')
    BY <1>10, <2>3, <2>6
  <2> QED BY <2>1, <2>7, <2>8
<1>11. CASE UnmarshalJSON
  <2>1. /\ stage = "wire" /\ stage' \in {"seen", "refused"} /\ hops' = hops /\ prev' = prev
        /\ msg' = msg /\ wire' = wire /\ alter' = alter /\ TypeOf' = T
    BY <1>11 DEF UnmarshalJSON, TypeOf
  <2>2. ~Incomplete
    BY <1>3, <2>1
  <2> QED BY <1>2, <2>1, <2>2
<1>12. CASE Forward
  <2>1. /\ stage = "seen" /\ stage' = "built" /\ msg' = seen /\ prev' = wire
        /\ hops' = hops + 1 /\ alter' = alter /\ TypeOf' = T
    BY <1>12 DEF Forward, TypeOf
  <2>2. seen = Decode(T, wire) /\ seen.ok
    BY <2>1 DEF IInv, Decoded
  <2>3. alter.key # "" => msg'.tag = msg.tag
    <3>1. alter.key # "" => wire.tag = msg.tag
      BY <2>1 DEF TagKept
    <3>2. CASE T.carriers = << >>
      BY <2>1, <2>2, <3>1, <3>2, TagIsKept
    <3>3. CASE T.carriers # << >>
      <4>1. msg.tag = ""
        BY <2>1, <3>3 DEF TagKept
      <4>2. Decode(T, wire).tag = ""
        BY <3>3, TagIsKept
      <4> QED BY <2>1, <2>2, <4>1, <4>2
    <3> QED BY <3>2, <3>3
  <2>4. ~Incomplete
    <3>1. alter.key = "" => ~Incomplete
      BY DEF Incomplete
    <3> QED BY <1>3, <2>1, <2>3, <3>1
  <2>5. CASE hops = 0
    <3>1. T.carriers = << >> => wire.tag # "bad"
      BY <2>2, DecodeByField
    <3>2. Provided(T, wire)
      BY <1>2, <2>1, <2>4, <2>5, <3>1 DEF Provided
    <3>3. hops' = 1
      BY <2>1, <2>5
    <3> QED BY <2>1, <3>2, <3>3
  <2>6. CASE hops > 0
    <3>1. wire = Encode(T, msg) /\ msg = Decode(T, prev) /\ msg.ok /\ Message(T, prev)
      BY <2>1, <2>6 DEF IInv, Decoded
    <3>2. hops = 1 => Encode(T, Decode(T, wire)) = wire
      <4>1. hops = 1 => Provided(T, prev)
        BY <1>2, <2>1, <2>4
      <4>2. Decode(T, prev).ok
        BY <3>1
      <4> QED BY <1>1, <3>1, <4>1, <4>2, MessageSettles
    <3>3. hops > 1 => Encode(T, Decode(T, wire)) = wire
      BY <1>2, <2>1, <2>4, <3>1
    <3>4. Encode(T, Decode(T, wire)) = wire
      BY <1>1, <2>6, <3>2, <3>3
    <3>5. hops' > 1
      BY <1>1, <2>1, <2>6
    <3> QED BY <2>1, <3>4, <3>5
  <2> QED BY <1>1, <2>5, <2>6
<1>13. CASE UNCHANGED vars
  <2>1. /\ stage' = stage /\ hops' = hops /\ prev' = prev
        /\ msg' = msg /\ wire' = wire /\ alter' = alter /\ TypeOf' = T
    BY <1>13 DEF vars, TypeOf
  <2>2. ~Incomplete
    BY <1>3, <2>1
  <2> QED BY <1>2, <2>1, <2>2
<1>14. CASE Finished
  BY <1>13, <1>14 DEF Finished
<1> QED BY <1>6, <1>7, <1>8, <1>9, <1>10, <1>11, <1>12, <1>13, <1>14 DEF Next

\* A receiver makes clean values of clean shapes, and MarshalJSON writes such shapes for
\* them.
LEMMA CleanIsRead ==
    ASSUME NEW k, NEW r, IsRule(r), NEW j \in CleanShapes
    PROVE  ~DecodeField(k, r, j).err /\ DecodeField(k, r, j).val \in CleanValues
<1>1. ~DecodeField(k, r, j).err
  BY DecodeClean
<1>2. DecodeField(k, r, j).val \in CleanValues
  <2>1. CASE j = "absent" \/ r.via = "none" \/ KeepsNull(r, j)
    BY <2>1 DEF DecodeField, CleanValues
  <2> SUFFICES ASSUME j # "absent", r.via # "none", ~KeepsNull(r, j)
               PROVE  DecodeField(k, r, j).val \in CleanValues
    BY <2>1
  <2>2. \A l : ~Unmarshal(l, j).err /\ Unmarshal(l, j).val \in CleanValues
    BY DEF Unmarshal, CleanShapes, CleanValues
  <2>3. CASE r.via = "place"
    BY <2>2, <2>3 DEF DecodeField, Place
  <2>4. CASE r.via = "temp"
    <3> DEFINE x == Unmarshal(r.src, j)
    <3>1. DecodeField(k, r, j).val = IF x.err THEN "zero" ELSE Convert(r.src, k, x.val)
      BY <2>4 DEF DecodeField, Assign
    <3>2. ~x.err /\ x.val \in CleanValues
      BY <2>2
    <3> HIDE DEF x
    <3>3. Convert(r.src, k, x.val) \in CleanValues
      BY <3>2 DEF Convert, Boxed, CleanValues
    <3> QED BY <3>1, <3>2, <3>3
  <2>5. CASE r.via = "enum"
    BY <2>5 DEF DecodeField, AssignKnown, CleanValues
  <2>6. CASE r.via = "items"
    <3>1. DecodeField(k, r, j).val = KeepValid(k, r, j).val
      BY <2>6 DEF DecodeField
    <3> QED BY <3>1 DEF KeepValid, CleanValues
  <2> QED BY <2>3, <2>4, <2>5, <2>6 DEF IsRule
<1> QED BY <1>1, <1>2

\* Of a clean value MarshalJSON writes a clean shape.
LEMMA CleanIsWritten ==
    ASSUME NEW T, T.carriers = << >>, NEW g, NEW f \in Keys(T), g.val[f] \in CleanValues
    PROVE  Encode(T, g).body[f] \in CleanShapes
<1>1. Marshal(KindOf(T, f), g.val[f]) \in CleanShapes
  BY DEF Marshal, CleanValues, CleanShapes
<1>2. SentFor(T, g.tag, f, g.val[f]) \in CleanShapes
  BY <1>1 DEF SentFor, CleanShapes
<1> QED BY <1>2, EncodeBySent DEF CleanShapes

\* The types of the catalog fit.
LEMMA InitElsewhere == Init => Elsewhere
<1> SUFFICES ASSUME Init PROVE Elsewhere
  OBVIOUS
<1>1. stage = "idle" /\ \E i \in DOMAIN Catalog : typ = Catalog[i]
  BY DEF Init
<1> QED BY <1>1, TypesAssumption DEF Elsewhere, TypeOf

\* A step keeps what the peer wrote in its field.
LEMMA NextElsewhere == IInv /\ Elsewhere /\ [Next]_vars => Elsewhere'
<1> DEFINE T == TypeOf
           Goal == T.carriers = << >> =>
                     \A f \in Keys(T) \ {alter'.key} :
                        /\ stage' = "built" => msg'.val[f] \in CleanValues
                        /\ stage' \in {"wire", "seen"} => wire'.body[f] \in CleanShapes
<1> SUFFICES ASSUME IInv, Elsewhere, [Next]_vars PROVE typ' = typ /\ Goal
  BY DEF Elsewhere, TypeOf
<1>1. TypeFits(T)
  BY DEF IInv, WellTyped
<1>2. T.carriers = << >> =>
        \A f \in Keys(T) \ {alter.key} :
            /\ stage = "built" => msg.val[f] \in CleanValues
            /\ stage \in {"wire", "seen"} => wire.body[f] \in CleanShapes
  BY DEF Elsewhere
<1>3. ASSUME NEW c \in T.ctors, Construct(c) PROVE typ' = typ /\ Goal
  <2>1. stage' = "built" /\ typ' = typ /\ msg' = Constructed(T, c)
    BY <1>3 DEF Construct
  <2>2. \A f \in Keys(T) : msg'.val[f] \in CleanValues
    BY <1>1, <2>1, ConstructsClean DEF Clean
  <2> QED BY <2>1, <2>2
<1>4. ASSUME NEW c \in T.ctors, NEW f \in Keys(T), ConstructWith(c, f)
      PROVE  typ' = typ /\ Goal
  <2>1. stage' = "built" /\ typ' = typ
    BY <1>4 DEF ConstructWith
  <2>2. \/ \E v \in GoValues(KindOf(T, f)) : msg' = [Constructed(T, c) EXCEPT !.val[f] = v]
        \/ f \in At(T.nulls, c[1]) /\ msg' = [Constructed(T, c) EXCEPT !.nulls = {f}]
    <3>1. Constructed(T, c).tag = c[1]
      BY DEF Constructed
    <3> QED BY <1>4, <3>1 DEF ConstructWith
  <2>3. Clean(T, msg')
    BY <1>1, <2>2, ConstructsClean
  <2> QED BY <2>1, <2>3 DEF Clean
<1>5. CASE MarshalJSON
  <2>1. /\ stage = "built" /\ stage' \in {"wire", "refused"} /\ alter' = alter /\ typ' = typ
        /\ stage' = "wire" => wire' = Encode(T, msg)
    BY <1>5 DEF MarshalJSON
  <2>2. ASSUME T.carriers = << >>, NEW f \in Keys(T) \ {alter.key}
        PROVE  Encode(T, msg).body[f] \in CleanShapes
    <3>1. msg.val[f] \in CleanValues
      BY <1>2, <2>1, <2>2
    <3> QED BY <2>2, <3>1, CleanIsWritten
  <2> QED BY <2>1, <2>2
<1>6. ASSUME NEW f \in Keys(T), NEW j, PeerWrites(f, j) PROVE typ' = typ /\ Goal
  <2>1. /\ stage = "wire" /\ stage' = stage /\ typ' = typ /\ alter = Unaltered
        /\ wire' = [wire EXCEPT !.body[f] = j] /\ alter' = [key |-> f, shape |-> j]
    BY <1>6 DEF PeerWrites, Untouched
  <2>2. wire = [tag |-> wire.tag, body |-> wire.body] /\ DOMAIN wire.body = Keys(T)
    BY <2>1 DEF IInv, WellTyped, Message
  <2>3. wire' = [tag |-> wire.tag, body |-> [wire.body EXCEPT ![f] = j]]
    <3>1. ASSUME NEW t, NEW b, wire = [tag |-> t, body |-> b]
          PROVE  [wire EXCEPT !.body[f] = j] = [tag |-> t, body |-> [b EXCEPT ![f] = j]]
      BY <3>1
    <3> QED BY <2>1, <2>2, <3>1
  <2>4. wire'.body = [wire.body EXCEPT ![f] = j]
    BY <2>3
  <2>5. alter'.key = f
    BY <2>1
  <2>6. alter.key = "" /\ "" \notin Keys(T)
    <3>1. Unaltered.key = ""
      BY DEF Unaltered
    <3> QED BY <1>1, <2>1, <3>1 DEF TypeFits, NamesFit
  <2>7. \A x \in Keys(T) \ {f} : wire'.body[x] = wire.body[x]
    BY <2>2, <2>4
  <2>8. T.carriers = << >> => \A x \in Keys(T) \ {f} : wire'.body[x] \in CleanShapes
    BY <1>2, <2>1, <2>6, <2>7
  <2> QED BY <2>1, <2>5, <2>8
<1>7. ASSUME NEW tag \in {"?", "bad"}, PeerNames(tag) PROVE typ' = typ /\ Goal
  <2>1. /\ stage = "wire" /\ stage' = stage /\ typ' = typ /\ alter = Unaltered
        /\ wire' = [wire EXCEPT !.tag = tag] /\ alter' = [key |-> "", shape |-> tag]
    BY <1>7 DEF PeerNames, Untouched
  <2>2. wire = [tag |-> wire.tag, body |-> wire.body]
    BY <2>1 DEF IInv, WellTyped, Message
  <2>3. wire'.body = wire.body
    BY <2>1, <2>2
  <2>4. Unaltered.key = ""
    BY DEF Unaltered
  <2>5. alter.key = "" /\ alter'.key = ""
    BY <2>1, <2>4
  <2> QED BY <1>2, <2>1, <2>3, <2>5
<1>8. CASE UnmarshalJSON
  <2>1. /\ stage = "wire" /\ stage' \in {"seen", "refused"} /\ typ' = typ
        /\ wire' = wire /\ alter' = alter
    BY <1>8 DEF UnmarshalJSON
  <2> QED BY <1>2, <2>1
<1>9. CASE Forward
  <2>1. stage = "seen" /\ stage' = "built" /\ msg' = seen /\ alter' = alter /\ typ' = typ
    BY <1>9 DEF Forward
  <2>2. seen = Decode(T, wire)
    BY <2>1 DEF IInv, Decoded
  <2>3. ASSUME T.carriers = << >>, NEW f \in Keys(T) \ {alter.key}
        PROVE  seen.val[f] \in CleanValues
    <3>1. wire.body[f] \in CleanShapes
      BY <1>2, <2>1, <2>3
    <3>2. IsRule(RuleOf(T, wire.tag, f))
      BY <1>1, RuleFits DEF TypeFits
    <3>3. seen.val[f] = DecodeField(KindOf(T, f), RuleOf(T, wire.tag, f), wire.body[f]).val
      <4>1. Decode(T, wire).val =
              [x \in Keys(T) |->
                 DecodeField(KindOf(T, x), RuleOf(T, wire.tag, x), wire.body[x]).val]
        BY <2>3, DecodeByField
      <4> QED BY <2>2, <4>1
    <3> QED BY <3>1, <3>2, <3>3, CleanIsRead
  <2> QED BY <2>1, <2>3
<1>10. CASE UNCHANGED vars
  BY <1>2, <1>10 DEF vars, TypeOf
<1>11. CASE Finished
  BY <1>10, <1>11 DEF Finished
<1> QED BY <1>3, <1>4, <1>5, <1>6, <1>7, <1>8, <1>9, <1>10, <1>11 DEF Next

-----------------------------------------------------------------------------
(* A variant and the type that stands alone for it: the whole message *)

\* g is what the fields of w are decoded to, each by itself.
ReadInto(T, w, g) ==
    /\ g.tag = w.tag
    /\ \A f \in Keys(T) :
         /\ g.val[f] = DecodeField(KindOf(T, f), RuleOf(T, w.tag, f), w.body[f]).val
         /\ f \in g.nulls <=> KeepsNull(RuleOf(T, w.tag, f), w.body[f])
    /\ g.ok = (w.tag # "bad" /\ \A f \in Keys(T) :
                 ~DecodeField(KindOf(T, f), RuleOf(T, w.tag, f), w.body[f]).err)

\* UnmarshalJSON of a type without carriers decodes each field by itself.
LEMMA FieldsAreRead ==
    ASSUME NEW T, T.carriers = << >>, NEW w
    PROVE  ReadInto(T, w, Decode(T, w))
<1> DEFINE g == Decode(T, w)
           one == [x \in Keys(T) |-> DecodeField(KindOf(T, x), RuleOf(T, w.tag, x), w.body[x])]
           fine == w.tag # "bad" /\ \A x \in Keys(T) : ~one[x].err
           null == {x \in Keys(T) : KeepsNull(RuleOf(T, w.tag, x), w.body[x])}
<1>1. g = [ok |-> fine, tag |-> w.tag, val |-> [x \in Keys(T) |-> one[x].val], nulls |-> null]
  BY DEF Decode, DecodeFields
<1>2. g.tag = w.tag /\ g.val = [x \in Keys(T) |-> one[x].val] /\ g.nulls = null
  BY <1>1
<1>3. g.ok = fine
  <2> HIDE DEF fine, one, null, g
  <2> QED BY <1>1
<1> HIDE DEF g
<1>4. ReadInto(T, w, g)
  BY <1>2, <1>3 DEF ReadInto
<1> QED BY <1>4 DEF g

\* The variant accepts w when S does, and sends the same on.
Agrees(S, U, w) ==
    /\ Decode(S, Strip(S, w)).ok = Decode(U, w).ok
    /\ Decode(U, w).ok =>
         \A f \in Keys(S) : ~Opaque(U, f) =>
           LET x == Encode(S, Decode(S, Strip(S, w))).body[f]
               y == Encode(U, Decode(U, w)).body[f]
           IN  x = y \/ (S.fields[f].omit # "never" /\ {x, y} \subseteq Blank(w.body[f]))

\* A variant is the type that stands alone for it, for every message that has what the
\* type requires and of which the peer wrote at most a field that the two share.
LEMMA VariantIsType ==
    ASSUME NEW S, NEW U, NEW w, TypeFits(U), VariantFits(S, U, w.tag), Message(U, w),
           Carries(S, w), NEW key, key \in Keys(U) => key \in Keys(S) /\ ~Opaque(U, key),
           \A f \in Keys(U) \ {key} : w.body[f] \in CleanShapes
    PROVE  Agrees(S, U, w)
<1> DEFINE a == Strip(S, w)
           A == Decode(S, a)
           J == Decode(U, w)
           r(f) == RuleOf(S, "", f)
           q(f) == RuleOf(U, w.tag, f)
           one(f) == DecodeField(KindOf(S, f), r(f), w.body[f])
           two(f) == DecodeField(KindOf(U, f), q(f), w.body[f])
<1>1. /\ TypeFits(S) /\ S.carriers = << >> /\ U.carriers = << >>
      /\ Keys(S) \subseteq Keys(U) /\ w.tag # "bad"
      /\ \A f \in Keys(S) : ~Opaque(U, f) =>
           ReadsAlike(S, U, w.tag, f) /\ WritesAlike(S, U, w.tag, f)
  BY DEF VariantFits
<1>2. PICK c \in U.ctors : c[1] = w.tag
  BY DEF VariantFits
<1>3. PICK b \in S.ctors : b[1] = ""
  BY DEF VariantFits
<1>4. a.tag = "" /\ \A f \in Keys(S) : a.body[f] = w.body[f]
  BY DEF Strip
<1> HIDE DEF a
<1>5. /\ A.tag = "" /\ \A f \in Keys(S) : A.val[f] = one(f).val
      /\ \A f \in Keys(S) : f \in A.nulls <=> KeepsNull(r(f), w.body[f])
      /\ A.ok = \A f \in Keys(S) : ~one(f).err
  <2>1. S.carriers = << >>
    BY <1>1
  <2>2. ReadInto(S, a, A)
    BY <2>1, FieldsAreRead
  <2> HIDE DEF A
  <2> QED BY <1>4, <2>2 DEF ReadInto
<1>6. /\ J.tag = w.tag /\ \A f \in Keys(U) : J.val[f] = two(f).val
      /\ \A f \in Keys(U) : f \in J.nulls <=> KeepsNull(q(f), w.body[f])
      /\ J.ok = \A f \in Keys(U) : ~two(f).err
  <2>1. U.carriers = << >>
    BY <1>1
  <2>2. ReadInto(U, w, J)
    BY <2>1, FieldsAreRead
  <2> HIDE DEF J
  <2> QED BY <1>1, <2>2 DEF ReadInto
<1>7. \A f \in Keys(U) : w.body[f] \in Shapes
  BY DEF Message
<1>8. ASSUME NEW f \in Keys(U), f \notin Keys(S) \/ Opaque(U, f)
      PROVE  ~two(f).err
  <2>1. w.body[f] \in CleanShapes
    BY <1>8
  <2>2. IsRule(q(f))
    BY RuleFits DEF TypeFits
  <2> QED BY <2>1, <2>2, CleanIsRead
<1>9. ASSUME NEW f \in Keys(S), Opaque(U, f)
      PROVE  ~one(f).err
  <2>1. w.body[f] \in CleanShapes
    BY <1>1, <1>9
  <2>2. IsRule(r(f))
    BY <1>1, RuleFits DEF TypeFits
  <2> QED BY <2>1, <2>2, CleanIsRead
<1>10. ASSUME NEW f \in Keys(S), ~Opaque(U, f)
       PROVE  /\ one(f).err <=> two(f).err
              /\ KeepsNull(r(f), w.body[f]) <=> KeepsNull(q(f), w.body[f])
  <2>1. f \in Keys(U) /\ w.body[f] \in Shapes
    BY <1>1, <1>7
  <2>2. ReadsAlike(S, U, c[1], f)
    BY <1>1, <1>2, <1>10
  <2>3. TypeFits(S)
    BY <1>1
  <2>4. DecodeField(KindOf(S, f), RuleOf(S, "", f), w.body[f]).err
          <=> DecodeField(KindOf(U, f), RuleOf(U, c[1], f), w.body[f]).err
    BY <2>1, <2>2, <2>3, VariantReads
  <2>5. KeepsNull(RuleOf(S, "", f), w.body[f]) <=> KeepsNull(RuleOf(U, c[1], f), w.body[f])
    BY <2>1, <2>2, <2>3, VariantReads
  <2> QED BY <1>2, <2>4, <2>5
<1>11. A.ok = J.ok
  <2> HIDE DEF A, J, one, two, r, q
  <2> QED BY <1>1, <1>5, <1>6, <1>8, <1>9, <1>10
<1>12. ASSUME J.ok, NEW f \in Keys(S), ~Opaque(U, f)
       PROVE  LET x == Encode(S, A).body[f]
                  y == Encode(U, J).body[f]
              IN  x = y \/ (S.fields[f].omit # "never" /\ {x, y} \subseteq Blank(w.body[f]))
  <2>1. f \in Keys(U) /\ w.body[f] \in Shapes
    BY <1>1, <1>7
  <2>2. CASE KeepsNull(r(f), w.body[f])
    <3>1. r(f).keep /\ q(f).keep
      BY <1>10, <1>12, <2>2 DEF KeepsNull
    <3>2. f \in At(S.nulls, "")
      BY <1>1, <1>3, <3>1 DEF TypeFits, NullsFit
    <3>3. f \in At(U.nulls, w.tag)
      BY <1>2, <2>1, <3>1 DEF TypeFits, NullsFit
    <3>4. f \in NullsSent(S, A)
      BY <1>5, <2>2, <3>2 DEF NullsSent
    <3>5. f \in NullsSent(U, J)
      BY <1>6, <1>10, <1>12, <2>1, <2>2, <3>3 DEF NullsSent
    <3>6. Encode(S, A).body[f] = "null"
      BY <1>1, <3>4, EncodeBySent
    <3>7. Encode(U, J).body[f] = "null"
      BY <1>1, <2>1, <3>5, EncodeBySent
    <3> QED BY <3>6, <3>7
  <2>3. CASE ~KeepsNull(r(f), w.body[f])
    <3>1. f \notin NullsSent(S, A)
      BY <1>5, <2>3 DEF NullsSent
    <3>2. f \notin NullsSent(U, J)
      BY <1>6, <1>10, <1>12, <2>1, <2>3 DEF NullsSent
    <3>3. Encode(S, A).body[f] = SentFor(S, "", f, one(f).val)
      <4>1. Encode(S, A).body[f] = SentFor(S, A.tag, f, A.val[f])
        BY <1>1, <3>1, EncodeBySent
      <4> HIDE DEF A, one
      <4> QED BY <1>5, <4>1
    <3>4. Encode(U, J).body[f] = SentFor(U, w.tag, f, two(f).val)
      <4>1. Encode(U, J).body[f] = SentFor(U, J.tag, f, J.val[f])
        BY <1>1, <2>1, <3>2, EncodeBySent
      <4> HIDE DEF J, two
      <4> QED BY <1>6, <2>1, <4>1
    <3>5. ~one(f).err
      BY <1>5, <1>11, <1>12
    <3>6. ReadsAlike(S, U, c[1], f)
      BY <1>1, <1>2, <1>12
    <3>7. WritesAlike(S, U, c[1], f)
      BY <1>1, <1>2, <1>12
    <3>8. S.fields[f].omit = "never" =>
            w.body[f] # "absent" /\ (KindOf(S, f) \notin Pointers => w.body[f] # "null")
      BY DEF Carries
    <3>9. TypeFits(S)
      BY <1>1
    <3>10. SendsAlike(S, U, c[1], f, w.body[f],
                      DecodeField(KindOf(S, f), RuleOf(S, "", f), w.body[f]).val,
                      DecodeField(KindOf(U, f), RuleOf(U, c[1], f), w.body[f]).val)
      BY <2>1, <2>3, <3>5, <3>6, <3>7, <3>8, <3>9, VariantSends
    <3> QED BY <1>2, <3>3, <3>4, <3>10 DEF SendsAlike
  <2> QED BY <2>2, <2>3
<1> QED BY <1>11, <1>12 DEF Agrees, a

-----------------------------------------------------------------------------
(* Theorems *)

\* What the library wrote itself stays clean and is refused by nobody, the variant
\* stays the one that was sent, and what the first proxy sent is what every later one
\* sends (the constructors, MarshalJSON and UnmarshalJSON of every generated type).
THEOREM MessageJourney == Spec => []JourneyInv
<1>1. Init => JourneyInv
  BY InitInv, InitJourney, InitElsewhere DEF JourneyInv
<1>2. JourneyInv /\ [Next]_vars => JourneyInv'
  BY NextInv, NextUntampered, NextTagKept, NextSettling, NextElsewhere DEF JourneyInv
<1> QED BY <1>1, <1>2, PTL DEF Spec

\* What MarshalJSON writes, UnmarshalJSON reads back: no message that the library wrote
\* itself is refused, however often it is sent on, and every field of the variant, null
\* or not, arrives as it was sent (MarshalJSON and UnmarshalJSON, with NullFields).
THEOREM MessagesRoundTrip == Spec => []RoundTrip
<1>1. JourneyInv => RoundTrip
  <2> SUFFICES ASSUME JourneyInv, alter = Unaltered
               PROVE  /\ stage = "refused" => ~Encodes(TypeOf, msg)
                      /\ stage = "seen" =>
                           /\ seen.tag = msg.tag /\ seen.nulls = msg.nulls
                           /\ \A f \in Keys(TypeOf) :
                                Read(TypeOf, msg, f) /\ ~Unset(TypeOf, msg, f)
                                   => Same(TypeOf, msg, f, seen.val[f])
    BY DEF RoundTrip
  <2>1. stage = "refused" => ~Encodes(TypeOf, msg)
    BY DEF JourneyInv, Untampered
  <2>2. stage = "seen" => ComesBack(TypeOf, msg, seen)
    <3> SUFFICES ASSUME stage = "seen" PROVE ComesBack(TypeOf, msg, seen)
      OBVIOUS
    <3>1. TypeFits(TypeOf)
      BY DEF JourneyInv, IInv, WellTyped
    <3>2. Clean(TypeOf, msg) /\ Encodes(TypeOf, msg) /\ wire = Encode(TypeOf, msg)
      BY DEF JourneyInv, Untampered
    <3>3. seen = Decode(TypeOf, wire)
      BY DEF JourneyInv, IInv, Decoded
    <3> QED BY <3>1, <3>2, <3>3, MessageComesBack
  <2> QED BY <2>1, <2>2 DEF ComesBack
<1> QED BY <1>1, MessageJourney, PTL

\* Forwarding settles: what a second proxy sends is what the first one sent, unless the
\* peer left out a property that the schema requires (UnmarshalJSON followed by
\* MarshalJSON, which drops unknown keys and may write a nil that it read as null).
THEOREM ForwardingIsStable == Spec => []ForwardingSettles
<1>1. JourneyInv => ForwardingSettles
  <2> SUFFICES ASSUME JourneyInv, stage = "wire", hops > 1, ~Incomplete PROVE wire = prev
    BY DEF ForwardingSettles
  <2>1. Encode(TypeOf, Decode(TypeOf, prev)) = prev
    BY DEF JourneyInv, Settling
  <2>2. hops > 0
    BY DEF JourneyInv, IInv, WellTyped
  <2>3. wire = Encode(TypeOf, msg) /\ msg = Decode(TypeOf, prev)
    BY <2>2 DEF JourneyInv, IInv, Decoded
  <2> QED BY <2>1, <2>3
<1> QED BY <1>1, MessageJourney, PTL

\* A variant of a union is the type that it names: UnmarshalJSON of the union accepts a
\* message exactly when UnmarshalJSON of the variant's own type does, and both send the
\* same message on, of an optional property up to an empty value, and up to null if null
\* is what the peer wrote (the switch on the discriminator that the generator writes for the
\* fields which variants share).
THEOREM VariantsAgree == Spec => []VariantAgrees
<1>1. JourneyInv => VariantAgrees
  <2> DEFINE S == typ.alone[wire.tag]
             U == TypeOf
  <2>1. ASSUME JourneyInv, stage = "wire", wire.tag \in DOMAIN typ.alone,
               Carries(S, wire),
               alter.key = "" \/ alter.key \in {f \in Keys(S) : ~Opaque(U, f)}
        PROVE  Agrees(S, U, wire)
    <3>1. TypeFits(U) /\ Message(U, wire)
      BY <2>1 DEF JourneyInv, IInv, WellTyped
    <3>2. VariantFits(S, U, wire.tag)
      BY <2>1 DEF JourneyInv, Elsewhere
    <3>3. U.carriers = << >>
      BY <3>2 DEF VariantFits
    <3>4. alter.key \in Keys(U) => alter.key \in Keys(S) /\ ~Opaque(U, alter.key)
      BY <2>1, <3>1 DEF TypeFits, NamesFit
    <3>5. \A f \in Keys(U) \ {alter.key} : wire.body[f] \in CleanShapes
      BY <2>1, <3>3 DEF JourneyInv, Elsewhere
    <3> HIDE DEF S, U
    <3> QED BY <2>1, <3>1, <3>2, <3>4, <3>5, VariantIsType
  <2>2. ASSUME stage = "wire", wire.tag \in DOMAIN typ.alone,
               Carries(S, wire),
               alter.key = "" \/ alter.key \in {f \in Keys(S) : ~Opaque(U, f)},
               Agrees(S, U, wire)
        PROVE  /\ Decode(S, Strip(S, wire)).ok = Decode(U, wire).ok
               /\ Decode(U, wire).ok =>
                    \A f \in {x \in Keys(S) : ~Opaque(U, x)} :
                      \/ Encode(S, Decode(S, Strip(S, wire))).body[f]
                            = Encode(U, Decode(U, wire)).body[f]
                      \/ /\ S.fields[f].omit # "never"
                         /\ {Encode(S, Decode(S, Strip(S, wire))).body[f],
                             Encode(U, Decode(U, wire)).body[f]} \subseteq Blank(wire.body[f])
    <3> HIDE DEF S, U
    <3> QED BY <2>2 DEF Agrees
  <2> QED BY <2>1, <2>2 DEF VariantAgrees
<1> QED BY <1>1, MessageJourney, PTL
=============================================================================
