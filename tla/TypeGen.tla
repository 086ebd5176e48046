------------------------------- MODULE TypeGen -------------------------------
(***************************************************************************)
(* The type generator, internal/schemagen/typegen: what Go field, tag,     *)
(* constructors, MarshalJSON and UnmarshalJSON it writes for a property    *)
(* "x" of an object and of a discriminated union, whose variants may each  *)
(* declare x with a type and with rules of their own.                      *)
(*                                                                         *)
(* A property schema is a record: its type ("none" if there is no such     *)
(* property), whether it admits null, and its extensions: lax is           *)
(* x-deserialize-default-on-error, skip x-deserialize-skip-invalid-items,  *)
(* keep x-go-preserve-null.  A union schema has a common property, and one *)
(* for each variant, each required or not.                                 *)
(***************************************************************************)
EXTENDS GenCode

Prop(type, null, lax, skip, keep) ==
    [type |-> type, null |-> null, lax |-> lax, skip |-> skip, keep |-> keep]
NoProp == Prop("none", FALSE, FALSE, FALSE, FALSE)
Has(p) == p.type # "none"

\* The variants in schema order, and a union schema.
Tags == <<"a", "b">>
TagSet == {Tags[i] : i \in DOMAIN Tags}
UnionSchema(common, commonReq, props, req) ==
    [common |-> common, commonReq |-> commonReq, props |-> props, req |-> req]

-----------------------------------------------------------------------------
(* Go types *)

\* The type of a property, of which optional references to objects and nullable
\* schemas are pointers.
schemaType(p, optional) ==
    [base |-> p.type, ptr |-> p.null \/ (optional /\ p.type = "object")]

AnyType == [base |-> "any", ptr |-> FALSE]

TypeKind(t) ==
    CASE t.base = "array" -> IF t.ptr THEN "ptrslice" ELSE "slice"
      [] t.base = "any" -> "any"
      [] t.ptr /\ t.base \notin {"array", "any"} -> "ptr"
      [] ~t.ptr /\ t.base = "object" -> "struct"
      [] OTHER -> "scalar"

\* What the generator knows of a field; first is the schema that it saw first.
newDeserializeField(p, optional) ==
    [text |-> schemaType(p, optional), first |-> p, enum |-> p.type = "enum",
     lax |-> p.lax, skip |-> p.skip, keep |-> p.keep]

needsDeserializeUnmarshal(d) == d.lax \/ d.skip \/ d.keep

\* A variant's field is decoded into a variable of the variant's type.
deserializeVariantField(d) ==
    CASE d.skip -> Rule("items", TypeKind(d.text), d.lax, d.keep)
      [] ~d.skip /\ d.lax /\ d.enum -> Rule("enum", "scalar", TRUE, d.keep)
      [] OTHER -> Rule("temp", TypeKind(d.text), d.lax, d.keep)

\* A field that all variants declare alike, or a field of an object.
deserializeFieldUnmarshal(d) ==
    CASE d.keep -> deserializeVariantField(d)
      [] ~d.keep /\ d.skip -> Rule("items", TypeKind(d.text), d.lax, FALSE)
      [] ~d.keep /\ ~d.skip /\ d.lax -> IF d.enum THEN Enum ELSE Lax
      [] OTHER -> Direct

-----------------------------------------------------------------------------
(* Objects *)

\* objectCode: a required slice is never nil on the wire.
ObjectOf(p, req) ==
    LET d == newDeserializeField(p, ~req)
        k == TypeKind(d.text)
        x == [kind |-> k, omit |-> IF req THEN "never" ELSE "empty",
              rule |-> deserializeFieldUnmarshal(d)]
        T == Lists("x" :> x, IF req /\ k = "slice" THEN {"x"} ELSE {})
    IN  IF d.keep THEN SendsNulls(T, "" :> {"x"}) ELSE T

-----------------------------------------------------------------------------
(* Unions *)

isPrimitive(p) == p.type \in {"string", "enum"}

mergeDeserializeRules(e, d) ==
    [e EXCEPT !.enum = e.enum \/ d.enum, !.lax = e.lax \/ d.lax, !.skip = e.skip \/ d.skip,
              !.keep = e.keep \/ d.keep]

\* One Go field for two declarations: the same type, or a pointer if one of them
\* admits null, or the first one if both are strings, or any.
mergeUnionField(e, d) ==
    LET m == mergeDeserializeRules(e, d)
    IN  CASE e.text = d.text -> m
          [] e.text.base = d.text.base /\ e.text.ptr # d.text.ptr -> [m EXCEPT !.text.ptr = TRUE]
          [] e.text.base # d.text.base /\ isPrimitive(e.first) /\ isPrimitive(d.first) -> m
          [] OTHER -> [m EXCEPT !.text = AnyType]

\* The declarations of x in the order in which the generator adds them.
Sources(s) ==
    LET declared(ps) == SelectSeq(ps, Has)
        fields(ps) == [i \in DOMAIN ps |-> newDeserializeField(ps[i], FALSE)]
    IN  fields(declared(<<s.common>> \o [i \in DOMAIN Tags |-> s.props[Tags[i]]]))

\* The field that they share.
Merged(s) ==
    LET ds == Sources(s)
        merge[i \in DOMAIN ds] == IF i = 1 THEN ds[1] ELSE mergeUnionField(merge[i - 1], ds[i])
    IN  merge[Len(ds)]

\* The declaration that holds for a variant.
unionFieldSource(s, tag) ==
    newDeserializeField(IF Has(s.props[tag]) THEN s.props[tag] ELSE s.common, FALSE)
HasSource(s, tag) == Has(s.props[tag]) \/ Has(s.common)

Rules(d) == <<d.text, d.enum, d.lax, d.skip, d.keep>>

sameDeserializeField(d, e) == Rules(d) = Rules(e)

\* The switch on the discriminator is needed.
unionFieldNeedsVariantUnmarshal(s) ==
    \/ Merged(s).keep /\ ~Has(s.common)
    \/ /\ needsDeserializeUnmarshal(Merged(s))
       /\ \E i \in DOMAIN Sources(s) : ~sameDeserializeField(Sources(s)[1], Sources(s)[i])

isRequiredInAllVariants(s) == s.commonReq \/ \A t \in TagSet : s.req[t]

\* The variants for which MarshalJSON always writes x.  "?" is a variant that is
\* not known: it gets what all variants share.
requiredMarshalFields(s) ==
    {t \in TagSet : s.req[t] /\ (TypeKind(schemaType(s.props[t], FALSE)) = "slice"
                                   \/ ~isRequiredInAllVariants(s))}
    \cup (IF s.commonReq /\ TypeKind(schemaType(s.common, FALSE)) = "slice"
          THEN TagSet \cup {"?"} ELSE {})

\* The tag of the field, or what MarshalJSON tests where it writes x itself.
Omission(s) ==
    LET m == Merged(s)
        zero == IF m.first.type = "object" /\ ~m.first.null THEN "zero" ELSE "empty"
    IN  CASE requiredMarshalFields(s) # {} \/ m.keep ->
                 IF TypeKind(m.text) = "struct" THEN "zero" ELSE "empty"
          [] requiredMarshalFields(s) = {} /\ ~m.keep /\ isRequiredInAllVariants(s) -> "never"
          [] OTHER -> zero

\* discriminatorUnionCode.
UnionOf(s) ==
    [fields |-> "x" :> [kind |-> TypeKind(Merged(s).text), omit |-> Omission(s),
                        rule |-> deserializeFieldUnmarshal(Merged(s))],
     by |-> IF unionFieldNeedsVariantUnmarshal(s)
            THEN "x" :> [t \in {t \in TagSet : HasSource(s, t)} |->
                            deserializeVariantField(unionFieldSource(s, t))]
            ELSE Nothing,
     need |-> Each(requiredMarshalFields(s), {"x"}),
     nulls |-> Each({t \in TagSet : HasSource(s, t) /\ unionFieldSource(s, t).keep}, {"x"}),
     carriers |-> << >>,
     ctors |-> {<<t, IF s.commonReq \/ s.req[t] THEN {"x"} ELSE {}>> : t \in TagSet}]

-----------------------------------------------------------------------------
(* Which schemas have a union *)

\* The generator stops at a pointer that would have to be stored in a value, and
\* writes no valid Go for a required slice in a field of another type.
Generates(s) ==
    LET m == Merged(s).text
        fits(d) == d.text.ptr => m.ptr \/ m = AnyType
    IN  /\ unionFieldNeedsVariantUnmarshal(s)
             => \A t \in TagSet : HasSource(s, t) => fits(unionFieldSource(s, t))
        /\ \A t \in requiredMarshalFields(s) \cap TagSet :
             TypeKind(unionFieldSource(s, t).text) = "slice" => TypeKind(m) = "slice"
=============================================================================
