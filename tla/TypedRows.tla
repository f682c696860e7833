------------------------------ MODULE TypedRows ------------------------------
(***************************************************************************)
(* What typed writes promise, without columns, wire values or names: one   *)
(* row holds a value of the record type "shape", and a write does to it    *)
(* what its Rust value says, field by field; a field that is one column is *)
(* written as a whole.                                                     *)
(***************************************************************************)
EXTENDS RecordTypes

VARIABLES shape,   \* the record type
          row,     \* None, or Some([rid, value])
          next,    \* the rid of the next row
          asked    \* the writes on their way

vars == <<shape, row, next, asked>>

\* A value says nothing of a field that is not written, of an option that is None,
\* and of a field whose default is left out.
Says(f, x) ==
  /\ ~f.skipEncode
  /\ f.opt => x # None
  /\ (f.skipIfDefault /\ ~f.opt) => x # DefaultOf(f.ty)

\* A field after "new" was written over "stored"; "was" is None, or the value the
\* writer knew, which it leaves alone unless it is a HashSet, whose column may be
\* written "again" as it was.
Kept(f, was, new, stored, again) ==
  IF f.skipDecode THEN FieldDefault(f)
  ELSE IF (was = Some(new) /\ EncodeName(f) \notin again) \/ ~Says(f, new) THEN stored ELSE new

Known(known, id) == IF known = None THEN None ELSE Some(known[1][id])

Edited(ty, known, new, stored, again) ==
  [id \in Ids(ty) |-> Kept(FieldOf(ty, id), Known(known, id), new[id], stored[id], again)]

\* A tagged enum spread over the row: the same variant is edited, another one replaces it.
Switched(ty, known, new, stored, again) ==
  LET s == Struct(ty.variants[new[1]])
  IN IF known # None /\ known[1][1] = new[1]
     THEN IF stored[1] = new[1] THEN <<new[1], Edited(s, Some(known[1][2]), new[2], stored[2], again)>>
          ELSE stored
     ELSE IF stored[1] = new[1] THEN <<new[1], Edited(s, None, new[2], stored[2], again)>>
     ELSE new

\* The stored record after "new" was written over it, by a writer that knew "known".
Over(ty, known, new, stored, again) ==
  [id \in Ids(ty) |->
     LET f == FieldOf(ty, id)
         was == Known(known, id)
     IN IF ~f.flatten \/ f.skipDecode THEN Kept(f, was, new[id], stored[id], again)
        ELSE IF f.ty.t = "enum" THEN Switched(f.ty, was, new[id], stored[id], again)
        ELSE Edited(f.ty, was, new[id], stored[id], again)]

\* A new row: what is not said has its default, and the row knows its rid.
Blank(v) ==
  [id \in Ids(shape) |->
     LET f == FieldOf(shape, id)
     IN IF f.rename = "@rid" THEN Some(next)
        ELSE IF ~f.flatten THEN FieldDefault(f)
        ELSE IF f.ty.t = "enum" THEN v[id]
        ELSE [g \in Ids(f.ty) |-> FieldDefault(FieldOf(f.ty, g))]]
Born(v) == Some([rid |-> next, value |-> Over(shape, None, v, Blank(v), {})])

Written(now, known, v, again) == Some([now[1] EXCEPT !.value = Over(shape, known, v, @, again)])
IsRow(now, rid) == now # None /\ now[1].rid = rid
Makes(w) == w.op \in {"upsert", "insert", "create"} /\ row = None

\* What a write makes of the row as it finds it.
After(w, now) ==
  CASE Makes(w) -> Born(w.value)
    [] w.op = "upsert" /\ now # None -> Written(now, None, w.value, {})
    [] w.op = "save" /\ IsRow(now, w.rid) -> Written(now, w.known, w.value, w.again)
    [] w.op = "delete" /\ IsRow(now, w.rid) -> None
    [] OTHER -> now

-----------------------------------------------------------------------------

Ask(w) == asked' = asked \cup {w} /\ UNCHANGED <<shape, row, next>>

Gone(w) == asked' \in {asked, asked \ {w}} /\ UNCHANGED shape

\* The write takes effect.
Do(w) ==
  /\ w \in asked
  /\ Gone(w)
  /\ next' = IF Makes(w) THEN next + 1 ELSE next
  /\ LET now == row IN row' = After(w, now)

\* It never does.
Drop(w) == w \in asked /\ Gone(w) /\ UNCHANGED <<row, next>>

Next == \/ \E w \in asked' : Ask(w)
        \/ \E w \in asked : Do(w) \/ Drop(w)

Init == row = None /\ asked = {}
Spec == Init /\ [][Next]_vars
=============================================================================
