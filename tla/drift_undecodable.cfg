\* One record type and one column, of a type its field's class accepts.
SPECIFICATION DriftSpec
CONSTANTS
  EncodePart <- EncodeNested
  DecodePart <- DecodeNested
  DefaultPart <- DefaultNested
  SamePart <- SameNested
  ShuffledPart <- ShuffledNested
  Half8 = 2  Half16 = 4  Half32 = 8  Half64 = 16
  Exact32 = 8
  Readers <- OneReader
  Wire = {"day"}
  ColumnTypes <- Types
INVARIANT CheckedReadsDecode
