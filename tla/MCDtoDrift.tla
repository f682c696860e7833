------------------------------ MODULE MCDtoDrift ------------------------------
(***************************************************************************)
(* Instance of DtoDrift for TLC: a record type that reads its column as a  *)
(* NaiveDate, and schemas that give the column one of a few types.         *)
(***************************************************************************)
EXTENDS DtoDrift

EncodeNested(ty, v) == LET wire == Encode(ty, v) IN wire
DecodeNested(ty, w) == LET read == Decode(ty, w) IN read
DefaultNested(ty) == LET value == DefaultOf(ty) IN value
SameNested(ty, x, y) == LET same == Same(ty, x, y) IN same
ShuffledNested(ty, v) == LET several == Shuffled(ty, v) IN several

Day == Struct(<<Plain("day", "day", [t |-> "date"])>>)
OneReader == {Day}
Types == {<<"one", "DATE">>, <<"one", "DATETIME">>, <<"one", "STRING">>}
=============================================================================
