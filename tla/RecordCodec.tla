----------------------------- MODULE RecordCodec -----------------------------
(***************************************************************************)
(* What the derives RecordEncode and RecordDecode generate, with the       *)
(* conversions they call: a typed record becomes wire properties (props,   *)
(* rec), wire properties become a typed record (__arcade_decode_from_map), *)
(* and two snapshots become the columns that differ (props_diff,           *)
(* changed_wires).  Pure operators; RecordStore runs them against a        *)
(* server.                                                                 *)
(*                                                                         *)
(* Encode and Decode are one layer of the conversion: what a type nests is *)
(* converted by EncodePart and DecodePart, which stand for Encode and      *)
(* Decode of the nested type, as the generated code calls the trait of     *)
(* that type; SamePart and ShuffledPart stand for Same and Shuffled.  The  *)
(* conversion of a record is that of its fields, which are parts.  A       *)
(* flattened record has no flattened field of its own.                     *)
(***************************************************************************)
EXTENDS RecordTypes

CONSTANTS EncodePart(_, _),   \* a type and a value of it, to a wire value
          DecodePart(_, _),   \* a type and a wire value, to a value of the type or Err
          SamePart(_, _, _),  \* a type and two values of it: are they equal in Rust?
          ShuffledPart(_, _)  \* a type and a value of it: does it hold a HashSet of several?

\* A conversion of every element or field, or the error of one of them.
AllOk(rs) == IF \E i \in DOMAIN rs : ~IsOk(rs[i])
             THEN Err
             ELSE Ok([i \in DOMAIN rs |-> rs[i][2]])

-----------------------------------------------------------------------------
\* Bytes

\* The blob of a Vec<u8> field: bytes, or a list of small integers.
SmallInts(w) == AllOk([i \in DOMAIN w[2] |->
                         IF Kind(w[2][i]) \in {"int32", "int64"} THEN DecodeInt("u8", w[2][i])
                         ELSE Err])
DecodeBytes(w) ==
  CASE Kind(w) = "bytes" -> Ok(w[2])
    [] Kind(w) = "list" -> SmallInts(w)
    [] OTHER -> Err

-----------------------------------------------------------------------------
\* The JSON bridge

Json == [t |-> "json"]

JsonToGrpc(j) ==
  CASE j[1] = "null" -> Null
    [] j[1] = "bool" -> <<"bool", j[2]>>
    [] j[1] = "num" /\ j[2] \in Signed(Half32) -> <<"int32", j[2]>>
    [] j[1] = "num" /\ j[2] \in Signed(Half64) \ Signed(Half32) -> <<"int64", j[2]>>
    [] j[1] = "num" /\ j[2] \notin Signed(Half64) -> <<"double", 2 * j[2]>>
    [] j[1] = "float" -> <<"double", j[2]>>
    [] j[1] = "str" -> <<"string", j[2]>>
    [] j[1] = "arr" -> <<"list", [i \in DOMAIN j[2] |-> EncodePart(Json, j[2][i])]>>
    [] j[1] = "obj" -> <<"map", [k \in DOMAIN j[2] |-> EncodePart(Json, j[2][k])]>>

\* Every wire value is some JSON.
JsonPart(w) == DecodePart(Json, w)[2]

GrpcToJson(w) ==
  CASE Kind(w) = "null" -> <<"null">>
    [] Kind(w) = "bool" -> <<"bool", w[2]>>
    [] Kind(w) \in {"int32", "int64"} -> <<"num", w[2]>>
    [] Kind(w) \in {"float", "double"} -> <<"float", w[2]>>
    [] Kind(w) = "string" -> <<"str", w[2]>>
    [] Kind(w) = "bytes" -> <<"arr", [i \in DOMAIN w[2] |-> <<"num", w[2][i]>>]>>
    [] Kind(w) = "timestamp" -> <<"str", <<"iso", w[2]>>>>
    [] Kind(w) = "list" -> <<"arr", [i \in DOMAIN w[2] |-> JsonPart(w[2][i])]>>
    [] Kind(w) \in {"map", "embedded"} -> <<"obj", [k \in DOMAIN w[2] |-> JsonPart(w[2][k])]>>
    [] Kind(w) = "link" -> <<"str", <<"rid", w[2]>>>>
    [] Kind(w) = "decimal" ->
         IF IsPlain(w[2]) THEN <<"num", w[2].unscaled>>
         ELSE <<"str", <<"dec", w[2].unscaled, w[2].scale>>>>

-----------------------------------------------------------------------------
\* Writing a record

NoProps == [k \in {} |-> Null]

\* The merge of property lists into a map: the later entry wins.
Later(props, more) ==
  [k \in DOMAIN props \cup DOMAIN more |-> IF k \in DOMAIN more THEN more[k] ELSE props[k]]
Joined(lists) ==
  LET having(k) == {i \in DOMAIN lists : k \in DOMAIN lists[i]}
  IN [k \in UNION {DOMAIN lists[i] : i \in DOMAIN lists} |-> lists[Max(having(k))][k]]

IsUnit(ty, variant) == ty.variants[variant] = << >>

\* Is a field pushed by props()?  An option ignores skip_serializing_if.
Pushed(f, x) ==
  /\ ~f.skipEncode
  /\ f.opt => x # None
  /\ (f.skipIfDefault /\ ~f.opt /\ ~f.flatten) => x # DefaultOf(f.ty)

Held(f, x) == IF f.opt THEN x[1] ELSE x

\* Fields that are no records of their own push a column each, in their order.
Single(name, w) == [k \in {name} |-> w]
ColumnOf(f, x) ==
  IF Pushed(f, x) THEN Single(EncodeName(f), EncodePart(f.ty, Held(f, x))) ELSE NoProps
Columns(fields, v) == Joined([i \in DOMAIN fields |-> ColumnOf(fields[i], v[fields[i].id])])

\* The record form of a tagged enum: its discriminator, then its fields; a unit
\* variant has no properties.
VariantProps(ty, v) ==
  IF IsUnit(ty, v[1]) THEN NoProps
  ELSE Later(Single(ty.tag, <<"string", <<"text", v[1]>>>>), Columns(ty.variants[v[1]], v[2]))

\* A flattened field pushes the properties of its own type.
FlatProps(ty, v) == IF ty.t = "enum" THEN VariantProps(ty, v) ELSE Columns(ty.fields, v)
PropsOf(f, x) ==
  IF ~f.flatten THEN ColumnOf(f, x)
  ELSE IF Pushed(f, x) THEN FlatProps(f.ty, Held(f, x)) ELSE NoProps

Props(ty, v) ==
  IF ty.t = "enum" THEN VariantProps(ty, v)
  ELSE Joined([i \in DOMAIN ty.fields |-> PropsOf(ty.fields[i], v[ty.fields[i].id])])

\* The value form: a unit variant is its name.
EncodeEnum(ty, v) == IF IsUnit(ty, v[1]) THEN <<"string", <<"text", v[1]>>>>
                     ELSE <<"map", VariantProps(ty, v)>>

Encode(ty, v) ==
  CASE ty.t \in ScalarType -> EncodeScalar(ty.t, v)
    [] ty.t = "bytes" -> <<"bytes", v>>
    [] ty.t = "json" -> JsonToGrpc(v)
    [] ty.t = "list" -> <<"list", [i \in DOMAIN v |-> EncodePart(ty.of, v[i])]>>
    [] ty.t = "set" ->
         <<"list", LET s == SetToSeq(v) IN [i \in DOMAIN s |-> EncodePart(ty.of, s[i])]>>
    [] ty.t = "map" -> <<"map", [k \in DOMAIN v |-> EncodePart(ty.of, v[k])]>>
    [] ty.t = "struct" -> <<"map", Props(ty, v)>>
    [] ty.t = "enum" -> EncodeEnum(ty, v)

KeyColumns(d) == {EncodeName(f) : f \in {f \in Fields(d) : f.key}}

-----------------------------------------------------------------------------
\* Reading a record

\* What the record itself knows of its columns @rid and @type.
NoMeta == [m \in Synthetic |-> None]

Visible(props, taken) == DOMAIN props \ taken

\* The columns a struct reads itself, which a flattened child must not see.
Wires(d) == {DecodeName(f) : f \in {f \in Fields(d) : ~f.skipDecode /\ ~f.flatten}}

Wrapped(r) == IF IsOk(r) THEN Ok(Some(r[2])) ELSE Err

\* An explicit null is no value for an option and an error for anything else.
Opted(f, w, r) == IF ~f.opt THEN r ELSE IF w = Null THEN Ok(None) ELSE Wrapped(r)

\* get, get_opt, get_or and their twins for bytes.
Present(f, w) == Opted(f, w, IF f.ty.t = "bytes" THEN DecodeBytes(w) ELSE DecodePart(f.ty, w))
Missing(f) == IF f.opt \/ f.default THEN Ok(FieldDefault(f)) ELSE Err

\* @rid and @type look past the taken columns and fall back to the record's own.
SyntheticField(f, name, props, meta) ==
  IF name \in DOMAIN props THEN Opted(f, props[name], DecodePart(f.ty, props[name]))
  ELSE IF meta[name] = None THEN Missing(f)
  ELSE LET r == DecodePart(f.ty, meta[name][1]) IN IF f.opt THEN Wrapped(r) ELSE r

PlainField(f, props, taken, meta) ==
  LET name == DecodeName(f)
  IN CASE f.skipDecode -> Ok(FieldDefault(f))
       [] ~f.skipDecode /\ name \in Synthetic -> SyntheticField(f, name, props, meta)
       [] OTHER -> IF name \in Visible(props, taken) THEN Present(f, props[name]) ELSE Missing(f)

\* A struct variant reads its fields plainly: a blob only as a list.
VariantField(f, props, taken) ==
  LET name == DecodeName(f)
  IN IF f.skipDecode THEN Ok(FieldDefault(f))
     ELSE IF name \in Visible(props, taken) THEN Opted(f, props[name], DecodePart(f.ty, props[name]))
     ELSE Missing(f)

\* Self { .. } of the fields that were read, or the error of one of them.
Assembled(d, read) ==
  IF \E f \in Fields(d) : ~IsOk(read[f]) THEN Err
  ELSE Ok([id \in Ids(d) |-> read[FieldOf(d, id)][2]])

\* The walk of an internally tagged enum: its discriminator selects the variant.
FromTagged(ty, props, taken) ==
  LET tag == IF ty.tag \in Visible(props, taken) THEN props[ty.tag] ELSE Null
      known == Kind(tag) = "string" /\ tag[2][1] = "text" /\ tag[2][2] \in DOMAIN ty.variants
      variant == Struct(ty.variants[tag[2][2]])
      r == Assembled(variant, [f \in Fields(variant) |-> VariantField(f, props, taken)])
  IN IF ~known THEN Err
     ELSE IF IsUnit(ty, tag[2][2]) THEN Ok(<<tag[2][2]>>)
     ELSE IF IsOk(r) THEN Ok(<<tag[2][2], r[2]>>) ELSE Err

\* The rest of the columns, read as a record of their own.
FlatFrom(ty, props, taken) ==
  IF ty.t = "enum" THEN FromTagged(ty, props, taken)
  ELSE Assembled(ty, [f \in Fields(ty) |-> PlainField(f, props, taken, NoMeta)])
FlattenedField(d, f, props, taken) ==
  LET hidden == taken \cup Wires(d)
      r == FlatFrom(f.ty, props, hidden)
  IN IF ~f.opt THEN r
     ELSE IF Visible(props, hidden) = {} THEN Ok(None)
     ELSE Wrapped(r)

StructField(d, f, props, taken, meta) ==
  IF f.flatten /\ ~f.skipDecode THEN FlattenedField(d, f, props, taken)
  ELSE PlainField(f, props, taken, meta)

FromMap(d, props, taken, meta) ==
  IF d.t = "enum" THEN FromTagged(d, props, taken)
  ELSE Assembled(d, [f \in Fields(d) |-> StructField(d, f, props, taken, meta)])

DecodeUnit(ty, w) ==
  IF Kind(w) = "string" /\ w[2][1] = "text" /\ w[2][2] \in DOMAIN ty.variants
  THEN Ok(<<w[2][2]>>) ELSE Err

DecodeList(ty, w) ==
  IF Kind(w) # "list" THEN Err
  ELSE AllOk([i \in DOMAIN w[2] |-> DecodePart(ty.of, w[2][i])])

Decode(ty, w) ==
  CASE ty.t \in ScalarType -> DecodeScalar(ty.t, w)
    [] ty.t = "json" -> Ok(GrpcToJson(w))
    [] ty.t = "bytes" -> IF Kind(w) = "list" THEN SmallInts(w) ELSE Err
    [] ty.t = "list" -> DecodeList(ty, w)
    [] ty.t = "set" -> LET r == DecodeList(ty, w) IN IF IsOk(r) THEN Ok(ToSet(r[2])) ELSE Err
    [] ty.t = "map" -> IF Kind(w) # "map" THEN Err
                       ELSE AllOk([k \in DOMAIN w[2] |-> DecodePart(ty.of, w[2][k])])
    [] ty.t = "struct" \/ (ty.t = "enum" /\ ty.tag # NoTag) ->
         IF Kind(w) \in {"map", "embedded"} THEN FromMap(ty, w[2], {}, NoMeta) ELSE Err
    [] ty.t = "enum" /\ ty.tag = NoTag -> DecodeUnit(ty, w)

\* A whole record: a row of the server has its rid and its type beside its columns.
DecodeRecord(d, rec) ==
  FromMap(d, rec.cols, {},
          [m \in Synthetic |-> IF m = "@rid" THEN Some(<<"string", <<"rid", rec.rid>>>>)
                               ELSE Some(<<"string", <<"text", rec.type>>>>)])

-----------------------------------------------------------------------------
\* What changed between two snapshots

FlatFields(d) == IF d.t = "struct" THEN {f \in Fields(d) : f.flatten} ELSE {}

ShuffledColumns(fields, v) ==
  {EncodeName(f) : f \in {f \in ToSet(fields) : /\ ~f.flatten /\ Pushed(f, v[f.id])
                                                /\ ShuffledPart(f.ty, Held(f, v[f.id]))}}

\* A HashSet has an order of its own: equal sets of several elements may be different
\* lists on the wire.  Encode gives one of the lists, and these operators say where
\* another one is possible.
Shuffled(ty, x) ==
  CASE ty.t = "set" -> Cardinality(x) > 1 \/ \E e \in x : ShuffledPart(ty.of, e)
    [] ty.t \in {"list", "map"} -> \E i \in DOMAIN x : ShuffledPart(ty.of, x[i])
    [] ty.t = "struct" -> ShuffledColumns(ty.fields, x) # {}
    [] ty.t = "enum" -> ~IsUnit(ty, x[1]) /\ ShuffledColumns(ty.variants[x[1]], x[2]) # {}
    [] OTHER -> FALSE

\* The columns of a record, and of what is flattened into it, that may be such lists.
FlatShuffled(ty, x) ==
  CASE ty.t = "struct" -> ShuffledColumns(ty.fields, x)
    [] ty.t = "enum" -> IF IsUnit(ty, x[1]) THEN {}
                        ELSE ShuffledColumns(ty.variants[x[1]], x[2])
Reordered(d, v) ==
  FlatShuffled(d, v)
  \cup UNION {FlatShuffled(f.ty, Held(f, v[f.id])) :
                f \in {f \in FlatFields(d) : Pushed(f, v[f.id])}}

\* Mutant: a column the old one has not is passed over.
PropsDiff_known(d, old, new, again) ==
  LET was == Props(d, old)
      now == Props(d, new)
  IN Restrict(now, {k \in DOMAIN now \cap DOMAIN was : was[k] # now[k] \/ k \in again})

\* The columns of the new one that the old one has not, or has otherwise; "again" are
\* equal ones that are another list, among those that are Reordered.
PropsDiff(d, old, new, again) ==
  LET was == Props(d, old)
      now == Props(d, new)
  IN Restrict(now, {k \in DOMAIN now : k \notin DOMAIN was \/ was[k] # now[k] \/ k \in again})

\* A field of a record compares as its type does, an option also by being there.
SameField(f, x, y) ==
  IF f.opt /\ None \in {x, y} THEN x = y ELSE SamePart(f.ty, Held(f, x), Held(f, y))
SameFields(fields, x, y) == \A f \in ToSet(fields) : SameField(f, x[f.id], y[f.id])

\* PartialEq: a Decimal is equal to itself at another scale.
Same(ty, x, y) ==
  CASE ty.t = "decimal" -> x.mantissa * 10 ^ y.scale = y.mantissa * 10 ^ x.scale
    [] ty.t \in {"list", "map"} ->
         DOMAIN x = DOMAIN y /\ \A i \in DOMAIN x : SamePart(ty.of, x[i], y[i])
    [] ty.t = "set" -> /\ \A a \in x : \E b \in y : SamePart(ty.of, a, b)
                       /\ \A b \in y : \E a \in x : SamePart(ty.of, a, b)
    [] ty.t = "struct" -> SameFields(ty.fields, x, y)
    [] ty.t = "enum" ->
         x[1] = y[1] /\ (~IsUnit(ty, x[1]) => SameFields(ty.variants[x[1]], x[2], y[2]))
    [] OTHER -> x = y

\* Mutant: a cleared option is reported, although nothing is written for it.
ReportsChange_cleared(f, x, y) ==
  ~f.skipEncode /\ (f.skipIfDefault => y # FieldDefault(f)) /\ ~SameField(f, x, y)

\* The derive's own comparison, field by field and without encoding.
ReportsChange(f, x, y) ==
  /\ ~f.skipEncode
  /\ f.skipIfDefault => y # FieldDefault(f)
  /\ IF f.flatten THEN EncodePart(f.ty, x) # EncodePart(f.ty, y)
     ELSE (f.opt => y # None) /\ ~SameField(f, x, y)

ChangedWires(d, old, new) ==
  {EncodeName(f) : f \in {f \in Fields(d) : ReportsChange(f, old[f.id], new[f.id])}}
=============================================================================
