------------------------------ MODULE DtoDrift ------------------------------
(***************************************************************************)
(* The drift checks of dto_drift.rs between a record type of the           *)
(* application and the live schema: assert_dto_wires asks that every       *)
(* column the type reads exists, assert_dto_kinds that each column's type  *)
(* can be decoded by the field.  Each fetches the schema for itself, with  *)
(* any migration between the two.  Rows of the live schema are written,    *)
(* and services read them with the type they checked.                      *)
(*                                                                         *)
(* The name of a column type is <<"one", scalar>>, or <<"list" | "set",    *)
(* scalar>> for a list in one of its spellings.                            *)
(***************************************************************************)
EXTENDS RecordCodec

CONSTANTS Readers,      \* the record types of the services
          Wire,         \* the columns a schema may have
          ColumnTypes   \* the types it may give them

VARIABLES columns,  \* None when the type does not exist, else Some(column -> type)
          liveRow,  \* the columns of a stored row, or None
          wired,    \* the readers whose first check passed, and the second is to come
          passed    \* the readers whose checks passed, the second against this schema

driftVars == <<columns, liveRow, wired, passed>>

-----------------------------------------------------------------------------
\* What a field expects

Unknown == <<"unknown">>

\* render: the column type a field's type stands for; the others are not checked.
ScalarName ==
  [str |-> "STRING", view |-> "STRING", char |-> "STRING", bool |-> "BOOLEAN",
   i8 |-> "INTEGER", i16 |-> "INTEGER", i32 |-> "INTEGER", u8 |-> "INTEGER", u16 |-> "INTEGER",
   i64 |-> "LONG", u32 |-> "LONG", u64 |-> "LONG", f32 |-> "FLOAT", f64 |-> "DOUBLE",
   link |-> "LINK", datetime |-> "DATETIME", date |-> "DATE", decimal |-> "DECIMAL"]

Rendered(ty) ==
  CASE ty.t \in DOMAIN ScalarName -> <<"one", ScalarName[ty.t]>>
    [] ty.t = "map" -> <<"one", "MAP">>
    [] ty.t \in {"list", "set"} -> IF ty.of.t \in DOMAIN ScalarName
                                   THEN <<"list", ScalarName[ty.of.t]>> ELSE Unknown
    [] OTHER -> Unknown

\* WIRES and WIRE_KINDS of a record type; the kinds do not leave out a flattened map.
Read(d) == {f \in Fields(d) : ~f.skipDecode /\ ~f.flatten}
WireKinds(d) == {<<DecodeName(f), Rendered(f.ty)>> :
                   f \in {f \in Fields(d) : ~f.skipDecode /\ Rendered(f.ty) # Unknown}}

-----------------------------------------------------------------------------
\* What the checks accept

ScalarClass(name) ==
  CASE name \in {"STRING", "LINK"} -> "Str"
    [] name = "BOOLEAN" -> "Bool"
    [] name \in {"INTEGER", "LONG", "SHORT", "BYTE"} -> "Int"
    [] name \in {"FLOAT", "DOUBLE"} -> "Float"
    [] name \in {"DATETIME", "DATE"} -> "DateTime"
    [] name \in {"MAP", "EMBEDDEDMAP"} -> "Map"
    [] OTHER -> "Unknown"

\* Both spellings of a list are one class; one of elements without a class is unknown.
ClassOf(ty) ==
  LET scalar == ScalarClass(ty[2])
  IN IF ty[1] = "one" THEN <<"one", scalar>>
     ELSE IF scalar \in {"Str", "Bool", "Int", "Float"} THEN <<"list", scalar>>
     ELSE <<"one", "Unknown">>

\* Floats decode integer columns; not the reverse.
Widens(expected, actual) == expected = actual \/ (expected = "Float" /\ actual = "Int")

KindsCompatible(expected, actual) ==
  LET e == ClassOf(expected)
      a == ClassOf(actual)
  IN \/ "Unknown" \in {e[2], a[2]}
     \/ e[1] = a[1] /\ Widens(e[2], a[2])
     \/ e[1] = "one" /\ a[1] = "one" /\ {e[2], a[2]} = {"DateTime", "Str"}

Intrinsic == {"@rid", "@type", "@in", "@out"}

DtoWiresMissing(d, actual) ==
  {DecodeName(f) : f \in Read(d)} \ (Intrinsic \cup DOMAIN actual)

DtoKindDrift(d, actual) ==
  {k \in WireKinds(d) : k[1] \in DOMAIN actual /\ ~KindsCompatible(k[2], actual[k[1]])}

-----------------------------------------------------------------------------
\* The values of a column, as the server sends them

ColumnName == {"STRING", "LINK", "BOOLEAN", "BYTE", "SHORT", "INTEGER", "LONG", "FLOAT", "DOUBLE",
               "DATETIME", "DATE", "MAP", "EMBEDDEDMAP", "DECIMAL"}
Scalars(name) ==
  CASE name = "STRING" -> {<<"string", <<"text", "x">>>>, <<"string", <<"iso", <<1, 5>>>>>>,
                           <<"string", <<"rid", 7>>>>, <<"string", <<"char", "a">>>>}
    [] name = "LINK" -> {<<"link", 7>>}
    [] name = "BOOLEAN" -> {<<"bool", TRUE>>}
    [] name \in {"BYTE", "SHORT", "INTEGER"} -> {<<"int32", 1>>, <<"int32", -Half32>>}
    [] name = "LONG" -> {<<"int64", 1>>, <<"int64", Half64 - 1>>}
    [] name = "FLOAT" -> {<<"float", 3>>}
    [] name = "DOUBLE" -> {<<"double", Exact32 + 1>>}
    [] name = "DATETIME" -> {<<"timestamp", <<1, 5>>>>}
    [] name = "DATE" -> {<<"timestamp", <<1, Midnight>>>>}
    [] name \in {"MAP", "EMBEDDEDMAP"} -> {<<"map", [a |-> <<"int32", 1>>]>>}
    [] name = "DECIMAL" -> {<<"decimal", [unscaled |-> 1, scale |-> s, bytes |-> << >>]>> :
                              s \in {0, 1}}

Stored(ty) == IF ty[1] = "one" THEN Scalars(ty[2])
              ELSE {<<"list", <<w>>>> : w \in Scalars(ty[2])}

-----------------------------------------------------------------------------

Schemas == UNION {[ws -> ColumnTypes] : ws \in SUBSET Wire}

DriftInit == columns = None /\ liveRow = None /\ wired = {} /\ passed = {}

\* A migration gives the type other columns or drops it, and the rows with it.
Migrate ==
  /\ columns' \in {None} \cup {Some(actual) : actual \in Schemas}
  /\ columns' # columns
  /\ liveRow' = None /\ passed' = {}
  /\ UNCHANGED wired

\* A writer stores a row: every column of the schema has a value.
Store ==
  /\ columns # None /\ liveRow = None
  /\ LET actual == columns[1]
     IN \E w \in [DOMAIN actual -> UNION {Stored(t) : t \in ColumnTypes}] :
          /\ \A k \in DOMAIN actual : w[k] \in Stored(actual[k])
          /\ liveRow' = Some(w)
  /\ UNCHANGED <<columns, wired, passed>>

\* assert_dto_wires, on the schema it fetches: a missing type is an error.
AssertWires(d) ==
  /\ columns # None
  /\ DtoWiresMissing(d, columns[1]) = {}
  /\ wired' = wired \cup {d}
  /\ UNCHANGED <<columns, liveRow, passed>>

\* assert_dto_kinds, on the schema it fetches: a missing type, or column, has no drift.
AssertKinds(d) ==
  /\ d \in wired
  /\ columns # None => DtoKindDrift(d, columns[1]) = {}
  /\ wired' = wired \ {d} /\ passed' = passed \cup {d}
  /\ UNCHANGED <<columns, liveRow>>

DriftNext ==
  \/ Migrate \/ Store
  \/ \E d \in Readers : AssertWires(d) \/ AssertKinds(d)

DriftSpec == DriftInit /\ [][DriftNext]_driftVars

-----------------------------------------------------------------------------
\* Property

\* A number that is wider than the field, or a text that is no time, is the value's
\* fault and no drift.
Fits(ty, w) ==
  CASE Kind(w) \in {"int32", "int64"} /\ ty.t \in IntType -> w[2] \in IntRange[ty.t]
    [] Kind(w) = "string" /\ ty.t \in {"date", "datetime"} -> w[2][1] = "iso"
    [] OTHER -> TRUE
EachFits(ty, w) ==
  IF Kind(w) = "list" /\ ty.t \in {"list", "set"} THEN \A i \in DOMAIN w[2] : Fits(ty.of, w[2][i])
  ELSE Fits(ty, w)

\* The columns that the checks accept for a scalar field and whose values the field does
\* not decode.
Undecoded(t) ==
  CASE t \in IntType \cup FloatType \cup {"str", "bool"} -> {"DECIMAL"}
    [] t = "view" -> {"DATETIME", "DATE", "DECIMAL"}
    [] t = "char" -> {"STRING", "LINK", "DATETIME", "DATE", "DECIMAL"}
    [] t = "link" -> {"STRING", "DATETIME", "DATE", "DECIMAL"}
    [] t = "datetime" -> {"LINK", "DECIMAL"}
    [] t = "date" -> {"STRING", "LINK", "DECIMAL"}
    [] t = "decimal" -> ColumnName \ {"LONG", "DECIMAL"}

\* "the drift check asserts DECODABILITY, not storage equality" (dto_drift.rs:66-67): a
\* record type whose checks passed decodes the rows of the live schema, but for a column
\* that was dropped between the two checks.
CheckedReadsDecode ==
  \A d \in passed :
    ( /\ liveRow # None
      /\ \A f \in Read(d) : /\ DecodeName(f) \in DOMAIN liveRow[1]
                           /\ EachFits(f.ty, liveRow[1][DecodeName(f)]) )
    => IsOk(FromMap(d, liveRow[1], {}, NoMeta))
=============================================================================
