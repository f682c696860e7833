----------------------------- MODULE WireValues -----------------------------
(***************************************************************************)
(* One value of a scalar Rust type on the wire: how value_from_db of the   *)
(* derives sends it, and how the FromGrpcValue of any scalar type reads    *)
(* what a server sends.                                                    *)
(*                                                                         *)
(* A wire value is <<kind, payload>>, the unset kind <<"null">>; what a    *)
(* conversion returns is <<"ok", value>> or Err.  A width is given by the  *)
(* half of its range, scaled down but in the order of the code, so that    *)
(* every range check and every wrap has values on both sides.  A string is *)
(* a tuple that says what it spells: <<"text", x>>, <<"char", x>>,         *)
(* <<"rid", link>>, <<"iso", time>> or <<"dec", unscaled, scale>>.  A      *)
(* floating-point number is a number of halves.                            *)
(***************************************************************************)
EXTENDS Integers, Sequences, FiniteSets

CONSTANTS Half8, Half16, Half32, Half64,   \* an i8 lies in -Half8 .. Half8 - 1
          Exact32                          \* an f32 holds this many halves exactly

\* Each unsigned width fits the next signed one.
ASSUME WidthAssumption ==
  /\ {Half8, Half16, Half32, Half64, Exact32} \subseteq Nat
  /\ 1 < Half8 /\ 2 * Half8 <= Half16 /\ 2 * Half16 <= Half32 /\ 2 * Half32 <= Half64

Signed(half) == -half .. (half - 1)
Unsigned(half) == 0 .. (2 * half - 1)

IntRange ==
  [i8 |-> Signed(Half8), i16 |-> Signed(Half16), i32 |-> Signed(Half32), i64 |-> Signed(Half64),
   u8 |-> Unsigned(Half8), u16 |-> Unsigned(Half16), u32 |-> Unsigned(Half32),
   u64 |-> Unsigned(Half64)]

\* classify: the integer types and the wire kind each is sent as.
AsInt32 == {"i8", "i16", "i32", "u8", "u16"}
AsInt64 == {"i64", "u32", "u64"}
IntType == AsInt32 \cup AsInt64
FloatType == {"f32", "f64"}

\* The types whose value is one wire value that holds no other.
ScalarType == IntType \cup FloatType \cup {"str", "view", "char", "bool", "link", "datetime",
                                          "date", "decimal"}

Null == <<"null">>
Kind(w) == w[1]
Ok(v) == <<"ok", v>>
Err == <<"err">>
IsOk(r) == r # Err

-----------------------------------------------------------------------------
\* Numbers

\* `as i64`: what lies above the range wraps.
Wrap64(n) == IF n \in Signed(Half64) THEN n ELSE n - 2 * Half64

\* `as f32`: beyond the mantissa every other number is lost.
Narrow(h) == IF h \in -Exact32 .. Exact32 THEN h ELSE 2 * (h \div 2)

\* decimal_v: the mantissa as a number when it fits, otherwise as bytes.
DecimalV(d) ==
  <<"decimal", IF d.mantissa \in Signed(Half64)
               THEN [unscaled |-> d.mantissa, scale |-> d.scale, bytes |-> << >>]
               ELSE [unscaled |-> 0, scale |-> d.scale, bytes |-> <<d.mantissa>>]>>

\* A decimal that is a plain integer on the wire.
IsPlain(d) == d.scale = 0 /\ d.bytes = << >>

\* Mutant: an `as` cast where the range is checked.
DecodeInt_truncates(t, w) ==
  IF Kind(w) \in {"int32", "int64"}
  THEN Ok(CHOOSE n \in IntRange[t] : (n - w[2]) % Cardinality(IntRange[t]) = 0)
  ELSE Err

\* FromGrpcValue of the eight integer types: range-checked.
DecodeInt(t, w) ==
  LET within(n) == IF n \in IntRange[t] THEN Ok(n) ELSE Err
  IN CASE Kind(w) \in {"int32", "int64"} -> within(w[2])
       [] Kind(w) = "decimal" /\ IsPlain(w[2]) -> within(w[2].unscaled)
       [] OTHER -> Err

DecodeFloat(t, w) ==
  LET held(h) == Ok(IF t = "f32" THEN Narrow(h) ELSE h)
  IN CASE Kind(w) \in {"float", "double"} -> held(w[2])
       [] Kind(w) \in {"int32", "int64"} -> held(2 * w[2])
       [] OTHER -> Err

DecodeDecimal(w) ==
  CASE Kind(w) = "decimal" ->
         Ok([mantissa |-> IF w[2].bytes = << >> THEN w[2].unscaled ELSE w[2].bytes[1],
             scale |-> w[2].scale])
    [] Kind(w) = "int64" -> Ok([mantissa |-> w[2], scale |-> 0])
    [] OTHER -> Err

-----------------------------------------------------------------------------
\* Strings, links and times

\* Timestamps and decimals have a synthesized string, which a view cannot borrow.
DecodeString(t, w) ==
  CASE Kind(w) = "string" -> Ok(w[2])
    [] Kind(w) = "link" -> Ok(<<"rid", w[2]>>)
    [] Kind(w) = "timestamp" /\ t = "str" -> Ok(<<"iso", w[2]>>)
    [] Kind(w) = "decimal" /\ t = "str" /\ ~IsPlain(w[2]) ->
         Ok(<<"dec", w[2].unscaled, w[2].scale>>)
    [] OTHER -> Err

DecodeChar(w) == IF Kind(w) = "string" /\ w[2][1] = "char" THEN Ok(w[2]) ELSE Err

\* Link::parse of a string succeeds on what spells a rid.
DecodeLink(w) ==
  CASE Kind(w) = "link" -> Ok(w[2])
    [] Kind(w) = "string" /\ w[2][1] = "rid" -> Ok(w[2][2])
    [] OTHER -> Err

\* A time is <<day, time of the day>>; a DATE column holds midnights.
Midnight == 0
DecodeDateTime(w) ==
  CASE Kind(w) = "timestamp" -> Ok(w[2])
    [] Kind(w) = "string" /\ w[2][1] = "iso" -> Ok(w[2][2])
    [] OTHER -> Err
DecodeDate(w) == IF Kind(w) = "timestamp" THEN Ok(w[2][1]) ELSE Err

-----------------------------------------------------------------------------
\* A scalar of any type

EncodeScalar(t, v) ==
  CASE t \in AsInt32 -> <<"int32", v>>
    [] t \in AsInt64 -> <<"int64", Wrap64(v)>>
    [] t = "f32" -> <<"float", v>>
    [] t = "f64" -> <<"double", v>>
    [] t \in {"str", "view", "char"} -> <<"string", v>>
    [] t \in {"bool", "link"} -> <<t, v>>
    [] t = "datetime" -> <<"timestamp", v>>
    [] t = "date" -> <<"timestamp", <<v, Midnight>>>>
    [] t = "decimal" -> DecimalV(v)

DecodeScalar(t, w) ==
  CASE t \in IntType -> DecodeInt(t, w)
    [] t \in FloatType -> DecodeFloat(t, w)
    [] t \in {"str", "view"} -> DecodeString(t, w)
    [] t = "char" -> DecodeChar(w)
    [] t = "bool" -> IF Kind(w) = "bool" THEN Ok(w[2]) ELSE Err
    [] t = "link" -> DecodeLink(w)
    [] t = "datetime" -> DecodeDateTime(w)
    [] t = "date" -> DecodeDate(w)
    [] t = "decimal" -> DecodeDecimal(w)

\* The number that a reader of type t makes of a wire value.
NumberType == IntType \cup {"decimal"}
NumberOf(t, v) == IF t = "decimal" THEN v.mantissa ELSE v

\* Two readers that both accept a number make the same number of it.
ReadAlike(w) ==
  \A t, u \in NumberType :
    LET a == DecodeScalar(t, w)
        b == DecodeScalar(u, w)
    IN (IsOk(a) /\ IsOk(b) /\ (Kind(w) = "decimal" => IsPlain(w[2])))
       => NumberOf(t, a[2]) = NumberOf(u, b[2])
=============================================================================
