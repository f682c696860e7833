---------------------------- MODULE MCClientData ----------------------------
(***************************************************************************)
(* Instances for TLC of the parts of the client library that share nothing *)
(* but the connection: typed records, UPDATE statements, transactions, the *)
(* cache, the script buffer and the pool of test databases.  A behaviour   *)
(* is one of one part, so their states add up and do not multiply.         *)
(***************************************************************************)
EXTENDS RecordStore, StatementStore, ClientTransaction, ClientCache, ScriptBuffer, TestPool

CONSTANTS p1, p2, t1, t2, t3

VARIABLE part

Ty(t) == [t |-> t]
ListOf(ty) == [t |-> "list", of |-> ty]
SetOf(ty) == [t |-> "set", of |-> ty]
MapOf(ty) == [t |-> "map", of |-> ty]
F(id, t) == Plain(id, id, Ty(t))
Of(id, ty) == Plain(id, id, ty)
Opt(f) == [f EXCEPT !.opt = TRUE]
Id == [F("id", "u8") EXCEPT !.key = TRUE]
X == <<"text", "x">>
Y == <<"text", "y">>

-----------------------------------------------------------------------------
\* What a type nests is converted as the type is: the layers of RecordCodec, to any depth.

EncodeNested(ty, v) == LET wire == Encode(ty, v) IN wire
DecodeNested(ty, w) == LET read == Decode(ty, w) IN read
DefaultNested(ty) == LET value == DefaultOf(ty) IN value
SameNested(ty, x, y) == LET same == Same(ty, x, y) IN same
ShuffledNested(ty, v) == LET several == Shuffled(ty, v) IN several

-----------------------------------------------------------------------------
\* Record types, with values on the edges of their fields

Numbers ==
  [dto |-> Struct(<<Id, F("big", "i64"), [F("wide", "u64") EXCEPT !.rename = "w"],
                    Opt(F("small", "i8")), F("ratio", "f32"), F("price", "decimal")>>),
   values |-> {[id |-> 1, big |-> -16, wide |-> 15, small |-> Some(-2), ratio |-> 3,
                price |-> [mantissa |-> 1, scale |-> 0]],
               [id |-> 1, big |-> 15, wide |-> 0, small |-> None, ratio |-> -1,
                price |-> [mantissa |-> 10, scale |-> 1]],
               [id |-> 1, big |-> 15, wide |-> 15, small |-> Some(1), ratio |-> 3,
                price |-> [mantissa |-> 16, scale |-> 1]]}]

Texts ==
  [dto |-> Struct(<<Id,
                    [Opt(F("rid", "link")) EXCEPT !.rename = "@rid", !.skipEncode = TRUE],
                    Plain("created_at", "createdAt", Ty("datetime")), F("day", "date"),
                    Opt(F("home", "link")), F("mark", "char"),
                    [F("note", "str") EXCEPT !.default = TRUE, !.skipIfDefault = TRUE],
                    [F("audit", "bool") EXCEPT !.skipDecode = TRUE, !.serRename = "auditedBy"]>>),
   values |-> {[id |-> 1, rid |-> None, created_at |-> <<1, 0>>, day |-> 1, home |-> None,
                mark |-> <<"char", "a">>, note |-> <<"text", "">>, audit |-> TRUE],
               [id |-> 1, rid |-> None, created_at |-> <<1, 5>>, day |-> 2, home |-> Some(7),
                mark |-> <<"char", "b">>, note |-> X, audit |-> FALSE],
               [id |-> 1, rid |-> Some(9), created_at |-> <<1, 5>>, day |-> 1, home |-> Some(8),
                mark |-> <<"char", "a">>, note |-> X, audit |-> TRUE]}]

Collections ==
  [dto |-> Struct(<<Id, Of("tags", SetOf(Ty("u8"))), Of("names", ListOf(Ty("str"))),
                    Of("scores", MapOf(Ty("i32"))), F("blob", "bytes"),
                    [Of("seen", ListOf(Ty("i64"))) EXCEPT !.default = TRUE,
                                                          !.skipIfDefault = TRUE]>>),
   values |-> {[id |-> 1, tags |-> {}, names |-> << >>, scores |-> [a |-> 1], blob |-> << >>,
                seen |-> << >>],
               [id |-> 1, tags |-> {3, 0}, names |-> <<X, X>>, scores |-> [k \in {} |-> 0],
                blob |-> <<3, 0>>, seen |-> <<-16, 15>>],
               [id |-> 1, tags |-> {3}, names |-> <<Y>>, scores |-> [a |-> -8, b |-> 7],
                blob |-> <<3>>, seen |-> << >>]}]

City == Struct(<<F("city", "str"), Opt(F("zip", "i32"))>>)
Contact == Struct(<<F("mail", "str"), Opt(F("phone", "str"))>>)
Status == Enum(NoTag, [Active |-> << >>, Closed |-> << >>])
Payload == Enum("type", [Card |-> <<F("last", "i32")>>, Bank |-> <<F("iban", "str")>>])

Nested ==
  [dto |-> Struct(<<Id, Of("home", City), [Of("contact", Contact) EXCEPT !.flatten = TRUE],
                    Of("status", Status), Opt(Of("payload", Payload)), F("extra", "json")>>),
   values |-> {[id |-> 1, home |-> [city |-> X, zip |-> Some(7)],
                contact |-> [mail |-> X, phone |-> None], status |-> <<"Active">>,
                payload |-> None, extra |-> <<"obj", [a |-> <<"num", 9>>, b |-> <<"null">>]>>],
               [id |-> 1, home |-> [city |-> Y, zip |-> None],
                contact |-> [mail |-> X, phone |-> Some(Y)], status |-> <<"Closed">>,
                payload |-> Some(<<"Card", [last |-> 3]>>), extra |-> <<"arr", <<>>>>],
               [id |-> 1, home |-> [city |-> Y, zip |-> Some(-8)],
                contact |-> [mail |-> Y, phone |-> Some(X)], status |-> <<"Closed">>,
                payload |-> Some(<<"Bank", [iban |-> X]>>), extra |-> <<"float", 3>>]}]

\* A tagged enum spread over the row's own columns.
Party == Enum("kind", [Person |-> <<F("first", "str"), Opt(F("last", "str"))>>,
                       Firm |-> <<F("legal", "str")>>])
Spread ==
  [dto |-> Struct(<<Id, [Of("party", Party) EXCEPT !.flatten = TRUE],
                    [F("rank", "u16") EXCEPT !.default = TRUE]>>),
   values |-> {[id |-> 1, party |-> <<"Person", [first |-> X, last |-> None]>>, rank |-> 7],
               [id |-> 1, party |-> <<"Person", [first |-> Y, last |-> Some(X)]>>, rank |-> 0],
               [id |-> 1, party |-> <<"Firm", [legal |-> X]>>, rank |-> 0]}]

AllScenarios == {Numbers, Texts, Collections, Nested, Spread}

-----------------------------------------------------------------------------
\* Statements

I(n) == <<"int32", n>>
T(x) == <<"string", x>>
L(ws) == <<"list", ws>>
StartRow == [n |-> I(1), tags |-> L(<<I(1)>>), note |-> T(X)]

\* One element each, guarded by its absence.
Appends == {<< << <<"append", "tags", I(n)>> >>,
               << <<"not_contains_any", "tags", <<I(n)>> >> >> >> : n \in {2, 3}}

\* Several bounds of one column, and what is not set.
Bounds ==
  {<< << <<"set", "note", T(Y)>>, <<"set_or_null", "rank", None>>,
         <<"append", "tags", I(2)>>, <<"append", "tags", I(3)>> >>,
      << <<"gte", "n", I(1)>>, <<"gte", "n", I(0)>>, <<"lt", "n", I(3)>>, <<"ne", "n", I(7)>> >> >>,
   << << <<"set_expr", "n", 1>>, <<"set_when", "note", T(X), FALSE>>,
         <<"set_opt", "rank", Some(I(4))>>, <<"set_opt", "note", None>> >>,
      << <<"between", "rank", I(1), I(4)>>, <<"lte", "rank", I(4)>>, <<"gt", "rank", I(0)>>,
         <<"eq", "owner", T(X)>> >> >>,
   << << <<"set_or_null", "rank", Some(I(2))>>, <<"set_when", "note", T(X), TRUE>>,
         <<"set_or_null", "owner", Some(T(X))>> >>,
      << <<"is_null", "rank">>, <<"is_not_null", "n">>, <<"bind", "limit", I(3)>> >> >>}

\* Two lists for one column.
Lists ==
  {<< << <<"append", "log", I(1)>> >>,
      << <<"in_list", "n", <<I(1), I(2)>> >>, <<"not_in", "n", <<I(2), I(3)>> >>,
         <<"in_list", "n", <<I(1)>> >> >> >>,
   << << <<"set_expr", "n", 1>> >>,
      << <<"contains", "tags", I(1)>>, <<"contains_all", "tags", <<I(1), I(2)>> >>,
         <<"contains_all", "tags", <<I(1)>> >> >> >>,
   << << <<"append", "tags", I(2)>>, <<"set", "note", T(Y)>> >>,
      << <<"contains_any", "tags", <<I(1), I(3)>> >>, <<"not_contains_any", "tags", <<I(2)>> >>,
         <<"not_contains_any", "tags", <<I(3)>> >> >> >>}

\* A row is claimed if nobody has: the column that is set is the one that is tested.
Claim == {<< << <<"set", "note", T(Y)>> >>, << <<"eq", "note", T(X)>> >> >>}

Disjoint == {Appends, Bounds, Lists}
Claiming == {Claim}

-----------------------------------------------------------------------------
\* A process of two tasks, and one of one task

TwoAndOne == [p \in {p1, p2} |-> IF p = p1 THEN {t1, t2} ELSE {t3}]

-----------------------------------------------------------------------------

allVars == <<part, vars, updateVars, cacheVars, bufferVars, poolVars, txVars>>

ClientInit ==
  /\ part \in {"records", "updates", "cache", "buffer", "pool", "tx"}
  /\ Init /\ UpdateInit /\ CacheInit /\ BufferInit /\ PoolInit /\ TxInit
  /\ part = "records" \/ scenario = Numbers
  /\ part = "updates" \/ menu = CHOOSE m \in Menus : TRUE

RecordsStep ==
  part = "records" /\ Next /\ UNCHANGED <<part, updateVars, cacheVars, bufferVars, poolVars, txVars>>
UpdatesStep ==
  part = "updates" /\ UpdateNext /\ UNCHANGED <<part, vars, cacheVars, bufferVars, poolVars, txVars>>
CacheStep ==
  part = "cache" /\ CacheNext /\ UNCHANGED <<part, vars, updateVars, bufferVars, poolVars, txVars>>
BufferStep ==
  part = "buffer" /\ BufferNext /\ UNCHANGED <<part, vars, updateVars, cacheVars, poolVars, txVars>>
PoolStep ==
  part = "pool" /\ PoolNext /\ UNCHANGED <<part, vars, updateVars, cacheVars, bufferVars, txVars>>
TxStep ==
  part = "tx" /\ TxNext /\ UNCHANGED <<part, vars, updateVars, cacheVars, bufferVars, poolVars>>

\* Only a transaction has an end of its own; the other parts may stop anywhere.
Rest == part # "tx" /\ UNCHANGED allVars

ClientNext ==
  RecordsStep \/ UpdatesStep \/ CacheStep \/ BufferStep \/ PoolStep \/ TxStep \/ Rest

\* The clients do the same, and so do the two tasks of one process.
Exchanged == Permutations(Client) \cup Permutations({t1, t2})

ClientSpec == ClientInit /\ [][ClientNext]_allVars

\* The record types with a column for every field show what was written.  An enum that
\* is spread over the row does not: its columns mean what its discriminator says.
ASSUME RecordsFaithful ==
  /\ \A s \in AllScenarios \ {Spread} : Faithful(s, 1 .. 4)
  /\ ~Faithful(Spread, 1 .. 4)

\* The statements of these sets keep apart what the builders leave to their caller;
\* the one that claims a row does not.
ASSUME StatementsApart ==
  /\ \A m \in Disjoint : Apart(m)
  /\ \A m \in Claiming : ~Apart(m)
=============================================================================
