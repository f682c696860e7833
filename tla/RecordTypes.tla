----------------------------- MODULE RecordTypes -----------------------------
(***************************************************************************)
(* The Rust types a record of the application may be made of, as the       *)
(* derives of arcadedb-record-macros classify them, and the shape of such  *)
(* a record: its fields with their attributes.                             *)
(*                                                                         *)
(* A type is [t |-> name] for a scalar, [t |-> "list" | "set" | "map",     *)
(* of |-> type], a record (Struct) or an enum (Enum).  The values of the   *)
(* scalar types are those of WireValues.                                   *)
(***************************************************************************)
EXTENDS Option, WireValues, FiniteSetsExt, SequencesExt, TLC

\* A type nests others; what is said of one layer is given what holds of the layers
\* below it.
CONSTANT DefaultPart(_)   \* Default::default() of a type nested in another

Struct(fields) == [t |-> "struct", fields |-> fields]
Enum(tag, variants) == [t |-> "enum", tag |-> tag, variants |-> variants]
NoTag == "(untagged)"
NoName == "(none)"

\* A field without attributes.  "name" is what rename_all makes of the identifier.
Plain(id, name, ty) ==
  [id |-> id, name |-> name, ty |-> ty, opt |-> FALSE, rename |-> NoName, serRename |-> NoName,
   default |-> FALSE, skipDecode |-> FALSE, skipEncode |-> FALSE, skipIfDefault |-> FALSE,
   flatten |-> FALSE, key |-> FALSE]

Fields(d) == ToSet(d.fields)
Ids(d) == {f.id : f \in Fields(d)}
FieldOf(d, id) == CHOOSE f \in Fields(d) : f.id = id

\* The property a field is read from, and the one it is written to.
DecodeName(f) == IF f.rename # NoName THEN f.rename ELSE f.name
EncodeName(f) == IF f.serRename # NoName THEN f.serRename ELSE DecodeName(f)

Synthetic == {"@rid", "@type"}

\* Default::default() of a type, for a field that is not read or not there.
DefaultOf(ty) ==
  CASE ty.t \in IntType \cup FloatType -> 0
    [] ty.t = "bool" -> FALSE
    [] ty.t \in {"str", "view"} -> <<"text", "">>
    [] ty.t \in {"list", "bytes"} -> << >>
    [] ty.t = "set" -> {}
    [] ty.t = "map" -> [k \in {} |-> 0]
    [] ty.t = "json" -> <<"null">>
    [] ty.t = "struct" ->
         [id \in Ids(ty) |->
            LET f == FieldOf(ty, id)
            IN IF f.opt THEN None ELSE DefaultPart(f.ty)]

FieldDefault(f) == IF f.opt THEN None ELSE DefaultOf(f.ty)
=============================================================================
