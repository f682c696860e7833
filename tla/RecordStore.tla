----------------------------- MODULE RecordStore -----------------------------
(***************************************************************************)
(* Clients read and write one row of a type through the typed calls of     *)
(* ArcadeDbClient: they fetch it into their record type, and write it with *)
(* create_record, bulk_insert, bulk_upsert_dtos, update_record_partial of  *)
(* what changed since they read it, and delete_record.  A request or its   *)
(* reply may be lost, may be carried out after the client gave up on it,   *)
(* and may be sent again; nothing in the client orders the writers.        *)
(***************************************************************************)
EXTENDS RecordCodec

CONSTANTS Client,
          Scenarios,   \* a set of [dto, values]: a record type and values of it
          MaxWrites,   \* bound: calls that write
          MaxFaults    \* bound: lost, late and repeated requests

\* The values of a scenario are of one row: they state its key columns, and agree on them.
ASSUME ScenarioAssumption ==
  \A s \in Scenarios : \A v, w \in s.values :
     LET keys == KeyColumns(s.dto)
     IN /\ keys # {} /\ keys \subseteq DOMAIN Props(s.dto, v)
        /\ Restrict(Props(s.dto, v), keys) = Restrict(Props(s.dto, w), keys)

VARIABLES scenario,  \* the record type and the values the clients work with
          row,       \* the server's row: None, or Some([rid, type, cols])
          next,      \* the rid of the next row
          held,      \* what a client has read: None, or Some([rid, value])
          call,      \* the call a client waits in: None, or Some([request, failed])
          requests,  \* requests on their way to the server
          writes, faults

vars == <<scenario, row, next, held, call, requests, writes, faults>>

dto == scenario.dto
Class == "T"

Init ==
  /\ scenario \in Scenarios
  /\ row = None
  /\ next = 1
  /\ held = [c \in Client |-> None]
  /\ call = [c \in Client |-> None]
  /\ requests = {}
  /\ writes = 0
  /\ faults = 0

-----------------------------------------------------------------------------
\* Reading

Decoded == DecodeRecord(dto, row[1])

\* fetch_optional, lookup_by_key: the row a query finds, decoded, or an error.
Fetch(c) ==
  /\ call[c] = None
  /\ row # None
  /\ held' = [held EXCEPT ![c] = IF IsOk(Decoded) THEN Some([rid |-> row[1].rid, value |-> Decoded[2]])
                                 ELSE None]
  /\ UNCHANGED <<scenario, row, next, call, requests, writes, faults>>

\* lookup: by the rid the client holds, which a deleted row has taken with it.
Lookup(c) ==
  /\ call[c] = None
  /\ held[c] # None
  /\ LET found == row # None /\ row[1].rid = held[c][1].rid
     IN held' = [held EXCEPT ![c] = IF found /\ IsOk(Decoded)
                                    THEN Some([@[1] EXCEPT !.value = Decoded[2]])
                                    ELSE None]
  /\ UNCHANGED <<scenario, row, next, call, requests, writes, faults>>

-----------------------------------------------------------------------------
\* Writing: the client encodes, and sends one request

Send(c, r) ==
  /\ call[c] = None
  /\ writes < MaxWrites
  /\ writes' = writes + 1
  /\ call' = [call EXCEPT ![c] = Some([request |-> r, failed |-> FALSE])]
  /\ requests' = requests \cup {r}
  /\ UNCHANGED <<scenario, row, next, held, faults>>

Request(c, op, rid, known, v, cols, again) ==
  [client |-> c, op |-> op, rid |-> rid, known |-> known, value |-> v, cols |-> cols,
   again |-> again]

\* bulk_upsert_dtos: refused without key columns, which the scenarios have.
BulkUpsert(c, v) == Send(c, Request(c, "upsert", 0, None, v, Props(dto, v), {}))

\* bulk_insert ignores a conflict, create_record is refused by the unique index.
BulkInsert(c, v) == Send(c, Request(c, "insert", 0, None, v, Props(dto, v), {}))
CreateRecord(c, v) == Send(c, Request(c, "create", 0, None, v, Props(dto, v), {}))

\* update_record_partial of changed_param_map; no change, no call.
UpdatePartial(c, v) ==
  /\ held[c] # None
  /\ \E again \in SUBSET Reordered(dto, v) :
       LET known == held[c][1]
           diff == PropsDiff(dto, known.value, v, again)
       IN /\ diff # NoProps
          /\ Send(c, Request(c, "save", known.rid, Some(known.value), v, diff, again))

DeleteRecord(c) ==
  /\ held[c] # None
  /\ Send(c, Request(c, "delete", held[c][1].rid, None, held[c][1].value, NoProps, {}))

-----------------------------------------------------------------------------
\* The server carries out a request

IsRow(rid) == row # None /\ row[1].rid = rid

NewRow(r) == row' = Some([rid |-> next, type |-> Class, cols |-> r.cols]) /\ next' = next + 1
Merge(cols) == row' = Some([row[1] EXCEPT !.cols = Later(@, cols)]) /\ UNCHANGED next

Serve(r) ==
  CASE r.op \in {"upsert", "insert", "create"} /\ row = None -> NewRow(r)
    [] r.op = "upsert" /\ row # None -> Merge(Restrict(r.cols, DOMAIN r.cols \ KeyColumns(dto)))
    [] r.op = "save" /\ IsRow(r.rid) -> Merge(r.cols)
    [] r.op = "delete" /\ IsRow(r.rid) -> row' = None /\ UNCHANGED next
    [] OTHER -> UNCHANGED <<row, next>>

Waits(r) == call[r.client] = Some([request |-> r, failed |-> FALSE])

\* The reply arrives, and the call returns; what the client held is spent.
Reply(r) ==
  /\ r \in requests
  /\ Waits(r)
  /\ Serve(r)
  /\ requests' = requests \ {r}
  /\ call' = [call EXCEPT ![r.client] = None]
  /\ held' = [held EXCEPT ![r.client] = None]
  /\ UNCHANGED <<scenario, writes, faults>>

Fault == faults < MaxFaults /\ faults' = faults + 1 /\ UNCHANGED <<scenario, next, held, writes>>
Fail(c) == call' = [call EXCEPT ![c] = Some([@[1] EXCEPT !.failed = TRUE])]

\* The client gives the request up before the server has seen it.
TimesOut(r) == r \in requests /\ Waits(r) /\ Fail(r.client) /\ Fault /\ UNCHANGED <<row, requests>>

\* The server carries a request out that nobody waits for, or whose reply is lost.
ServeUnheard(r) ==
  /\ r \in requests
  /\ Serve(r)
  /\ requests' = requests \ {r}
  /\ IF Waits(r) THEN faults < MaxFaults /\ faults' = faults + 1 /\ Fail(r.client)
     ELSE UNCHANGED <<call, faults>>
  /\ UNCHANGED <<scenario, held, writes>>

\* The request is lost.
Lose(r) ==
  /\ r \in requests
  /\ requests' = requests \ {r}
  /\ IF Waits(r) THEN Fail(r.client) ELSE UNCHANGED call
  /\ Fault
  /\ UNCHANGED row

Failed(c) == call[c] # None /\ call[c][1].failed

\* The caller repeats the call it got an error from, or leaves it.
Repeat(c) ==
  /\ Failed(c)
  /\ call' = [call EXCEPT ![c] = Some([@[1] EXCEPT !.failed = FALSE])]
  /\ requests' = requests \cup {call[c][1].request}
  /\ UNCHANGED <<scenario, row, next, held, writes, faults>>

Leave(c) ==
  /\ Failed(c)
  /\ call' = [call EXCEPT ![c] = None]
  /\ UNCHANGED <<scenario, row, next, held, requests, writes, faults>>

Next ==
  \/ \E c \in Client : \/ Fetch(c) \/ Lookup(c) \/ DeleteRecord(c) \/ Repeat(c) \/ Leave(c)
                       \/ \E v \in scenario.values :
                            \/ BulkUpsert(c, v) \/ BulkInsert(c, v)
                            \/ CreateRecord(c, v) \/ UpdatePartial(c, v)
  \/ \E r \in requests : Reply(r) \/ TimesOut(r) \/ ServeUnheard(r) \/ Lose(r)

Spec == Init /\ [][Next]_vars

-----------------------------------------------------------------------------
\* What a row can be relied on to show

\* The fields that are a column, each behind the field it is flattened through, if any.
Leaves(d) ==
  {<<f>> : f \in {f \in Fields(d) : ~f.flatten}}
  \cup UNION {{<<f, g>> : g \in Fields(f.ty)} : f \in {f \in Fields(d) : f.flatten}}
LeafOf(p) == p[Len(p)]
At(v, p) == IF Len(p) = 1 THEN v[p[1].id] ELSE v[p[1].id][p[2].id]

\* The columns a field is written to and read from.
Names(f) == (IF f.skipEncode THEN {} ELSE {EncodeName(f)})
            \cup (IF f.skipDecode THEN {} ELSE {DecodeName(f)})

\* What is written of a field is read as it was.
ComesBack(f, x) == Pushed(f, x) => Present(f, EncodePart(f.ty, Held(f, x))) = Ok(x)

\* A field that is read is read from where it is written; one that may be left out has
\* a default, which is a value of the field.
RegularField(f) ==
  /\ ~f.flatten
  /\ ~f.skipEncode /\ ~f.skipDecode => EncodeName(f) = DecodeName(f)
  /\ ~f.skipDecode /\ (f.skipEncode \/ f.skipIfDefault) => f.opt \/ f.default
  /\ f.opt \/ f.default \/ f.skipDecode => ComesBack(f, FieldDefault(f))

\* The column that the row fills itself.
RidField(f) == f.rename = "@rid" /\ f.opt /\ f.skipEncode /\ ~f.skipDecode
ReadsRids(f, rids) == \A n \in rids : DecodePart(f.ty, <<"string", <<"rid", n>>>>) = Ok(n)

Distinct(ty) ==
  ty.t = "struct" /\ ty.fields \in Seq(Fields(ty)) /\ \A f, g \in Fields(ty) : f.id = g.id => f = g

\* Fields have names of their own; a flattened one is a record that is always there.
Regular(d, rids) ==
  /\ Distinct(d)
  /\ \A f \in Fields(d) :
       IF f.flatten
       THEN /\ Distinct(f.ty)
            /\ ~f.skipEncode /\ ~f.skipDecode /\ ~f.opt /\ ~f.key /\ f.rename # "@rid"
            /\ \A g \in Fields(f.ty) : RegularField(g) /\ Names(g) \cap Synthetic = {}
       ELSE /\ RegularField(f)
            /\ IF RidField(f) THEN ReadsRids(f, rids)
               ELSE f.rename # "@rid" /\ Names(f) \cap Synthetic = {}
            /\ f.key => ~f.skipEncode
  /\ \A p, q \in Leaves(d) : p # q => Names(LeafOf(p)) \cap Names(LeafOf(q)) = {}

Faithful(s, rids) ==
  /\ Regular(s.dto, rids)
  /\ \A v \in s.values : \A p \in Leaves(s.dto) : ComesBack(LeafOf(p), At(v, p))

-----------------------------------------------------------------------------
\* Properties

\* A typed write does to the row what the value of the record says: the fields it
\* states are read back as they were, the others keep what the row had or start with
\* their default, whoever else wrote in between and however often the request came;
\* a HashSet of several elements may be stated though it did not change
\* (encode_field_push, __arcade_decode_from_map, props_diff, bulk_upsert_dtos,
\* update_record_partial).
Write(r) ==
  [op |-> r.op, rid |-> r.rid, known |-> r.known, value |-> r.value, again |-> r.again]

TypedRow ==
  IF row = None THEN None
  ELSE LET r == Decoded IN Some([rid |-> row[1].rid, value |-> IF IsOk(r) THEN r[2] ELSE Err])

Rows == INSTANCE TypedRows WITH
  shape <- dto, row <- TypedRow, asked <- {Write(r) : r \in requests}

WritesMeanTheirTypes == Rows!Spec

\* Two readers of one column that both accept its number read the same number: a
\* width that does not hold it is an error, never a truncation (record/types.rs).
ReadersAgree == row # None => \A k \in DOMAIN row[1].cols : ReadAlike(row[1].cols[k])

\* changed_wires, which compares Rust values, against props_diff, which compares wire
\* values ("Semantics match props_diff", record/mod.rs:324): a field that is a column is
\* named if it is written and is another Rust value; a flattened field is named if
\* one of its columns changes.  So a caller that skips the write on an empty list loses
\* nothing but the scale of a Decimal, and a HashSet that was only written again.
ReportsWhatItWrites ==
  \A c \in Client : held[c] # None =>
    \A v \in scenario.values : \A again \in SUBSET Reordered(dto, v) :
      LET u == held[c][1].value
          written == DOMAIN PropsDiff(dto, u, v, again)
          named == ChangedWires(dto, u, v)
      IN \A f \in {f \in Fields(dto) : ~f.skipEncode} :
           IF f.flatten
           THEN DOMAIN PropsOf(f, v[f.id]) \cap (written \ again) # {} => EncodeName(f) \in named
           ELSE EncodeName(f) \in named
                  <=> EncodeName(f) \in written /\ ~SameField(f, u[f.id], v[f.id])
=============================================================================
