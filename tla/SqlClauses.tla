------------------------------ MODULE SqlClauses ------------------------------
(***************************************************************************)
(* The builders SetClause and FilterClause: a chain of calls becomes the   *)
(* fragments of an UPDATE ... SET ... WHERE and the parameters they name,  *)
(* the caller merges both sides' parameters into one map, and the server   *)
(* binds them by name.                                                     *)
(*                                                                         *)
(* A call is a tuple, its method first, then its column and its arguments. *)
(* A parameter's name is <<column, tag, number>>: the tag is "" when the   *)
(* column is the name, the number 0 unless the name was taken.  Values are *)
(* wire values.                                                            *)
(***************************************************************************)
EXTENDS Option, WireValues, FiniteSetsExt, SequencesExt

ColName(col) == <<col, "", 0>>
TagName(col, tag) == <<col, tag, 0>>

\* A map with an entry inserted, and extended over another map.
With(f, x, v) == [y \in DOMAIN f \cup {x} |-> IF y = x THEN v ELSE f[y]]
Over(f, g) == [y \in DOMAIN f \cup DOMAIN g |-> IF y \in DOMAIN f THEN f[y] ELSE g[y]]

Clause == [frags |-> << >>, params |-> [n \in {} |-> Null]]

WithFrag(c, frag) == [c EXCEPT !.frags = Append(@, frag)]
WithParam(c, name, w) == [c EXCEPT !.params = With(@, name, w)]

\* FilterClause::bind, SetClause::bind: a value without a fragment.
Bind(c, name, w) == WithParam(c, name, w)

-----------------------------------------------------------------------------
\* SetClause

SetCol(c, col, w) == WithParam(WithFrag(c, <<"param", col, ColName(col)>>), ColName(col), w)
SetOpt(c, col, opt) == IF opt = None THEN c ELSE SetCol(c, col, opt[1])
SetWhen(c, cond, col, w) == IF cond THEN SetCol(c, col, w) ELSE c
SetExpr(c, col, expr) == WithFrag(c, <<"expr", col, expr>>)

\* A null cannot be bound: it is spelled in the statement.
SetOrNull(c, col, opt) == IF opt = None THEN WithFrag(c, <<"null", col>>)
                          ELSE SetCol(c, col, opt[1])

\* Appends to one column share one fragment and one list.
AppendTo(c, col, w) ==
  LET name == TagName(col, "append")
  IN IF name \in DOMAIN c.params /\ Kind(c.params[name]) = "list"
     THEN WithParam(c, name, <<"list", Append(c.params[name][2], w)>>)
     ELSE WithParam(WithFrag(c, <<"append", col, name>>), name, <<"list", <<w>>>>)

Setting(c, call) ==
  CASE call[1] = "set" -> SetCol(c, call[2], call[3])
    [] call[1] = "set_opt" -> SetOpt(c, call[2], call[3])
    [] call[1] = "set_when" -> SetWhen(c, call[4], call[2], call[3])
    [] call[1] = "set_or_null" -> SetOrNull(c, call[2], call[3])
    [] call[1] = "set_expr" -> SetExpr(c, call[2], call[3])
    [] call[1] = "append" -> AppendTo(c, call[2], call[3])

\* The builder after each of its calls.
SetAfter(calls) ==
  LET after[i \in 0..Len(calls)] == IF i = 0 THEN Clause ELSE Setting(after[i - 1], calls[i])
  IN after

SetClause(calls) == SetAfter(calls)[Len(calls)]

-----------------------------------------------------------------------------
\* FilterClause

\* Mutant: the second use of a name overwrites the first.
ParamName_plain(c, base) == base

\* param_name: the name itself when it is free, else with the first free number.
ParamName(c, base) ==
  LET numbered(n) == [base EXCEPT ![3] = n]
      taken == DOMAIN c.params
  IN IF base \notin taken THEN base
     ELSE numbered(Min({n \in 2 .. Cardinality(taken) + 2 : numbered(n) \notin taken}))

\* One fragment and its one parameter.
Tagged(c, op, col, base, w) ==
  LET name == ParamName(c, base)
  IN WithParam(WithFrag(c, <<op, col, name>>), name, w)

Eq(c, col, w) == Tagged(c, "=", col, ColName(col), w)

Comparison == [ne |-> "<>", lt |-> "<", lte |-> "<=", gt |-> ">", gte |-> ">="]
Compare(c, col, tag, w) == Tagged(c, Comparison[tag], col, TagName(col, tag), w)

\* Both names are chosen before either is bound.
Between(c, col, from, to) ==
  LET lo == ParamName(c, TagName(col, "from"))
      hi == ParamName(c, TagName(col, "to"))
  IN WithParam(WithParam(WithFrag(c, <<"BETWEEN", col, lo, hi>>), lo, from), hi, to)

IsNull(c, col) == WithFrag(c, <<"IS NULL", col>>)
IsNotNull(c, col) == WithFrag(c, <<"IS NOT NULL", col>>)

InList(c, col, ws) == Tagged(c, "IN", col, TagName(col, "in"), <<"list", ws>>)
NotIn(c, col, ws) == Tagged(c, "NOT IN", col, TagName(col, "nin"), <<"list", ws>>)
ContainsOne(c, col, w) == Tagged(c, "CONTAINS", col, TagName(col, "has"), w)
ContainsAll(c, col, ws) == Tagged(c, "CONTAINSALL", col, TagName(col, "all"), <<"list", ws>>)
ContainsAny(c, col, ws) == Tagged(c, "CONTAINSANY", col, TagName(col, "any"), <<"list", ws>>)

\* Mutant: the list is bound as one element of a list.
NotContainsAny_nested(c, col, ws) ==
  LET this == ContainsAny(c, col, <<<<"list", ws>>>>)
  IN [this EXCEPT !.frags[Len(this.frags)] = <<"NOT", @>>]

\* The fragment contains_any has just pushed, negated.
NotContainsAny(c, col, ws) ==
  LET this == ContainsAny(c, col, ws)
  IN [this EXCEPT !.frags[Len(this.frags)] = <<"NOT", @>>]

Filtering(c, call) ==
  CASE call[1] = "eq" -> Eq(c, call[2], call[3])
    [] call[1] \in DOMAIN Comparison -> Compare(c, call[2], call[1], call[3])
    [] call[1] = "between" -> Between(c, call[2], call[3], call[4])
    [] call[1] = "is_null" -> IsNull(c, call[2])
    [] call[1] = "is_not_null" -> IsNotNull(c, call[2])
    [] call[1] = "in_list" -> InList(c, call[2], call[3])
    [] call[1] = "not_in" -> NotIn(c, call[2], call[3])
    [] call[1] = "contains" -> ContainsOne(c, call[2], call[3])
    [] call[1] = "contains_all" -> ContainsAll(c, call[2], call[3])
    [] call[1] = "contains_any" -> ContainsAny(c, call[2], call[3])
    [] call[1] = "not_contains_any" -> NotContainsAny(c, call[2], call[3])
    [] call[1] = "bind" -> Bind(c, ColName(call[2]), call[3])

FilterAfter(calls) ==
  LET after[i \in 0..Len(calls)] == IF i = 0 THEN Clause ELSE Filtering(after[i - 1], calls[i])
  IN after

FilterClause(calls) == FilterAfter(calls)[Len(calls)]

\* The statement of both, with the parameters merged: the WHERE's are extended
\* over the SET's.
Update(sets, filters) ==
  LET s == SetClause(sets)
      f == FilterClause(filters)
  IN [set |-> s.frags, where |-> f.frags, params |-> Over(f.params, s.params)]

-----------------------------------------------------------------------------
\* The server: it binds a parameter by its name, and a column without a value is null

Column(cols, col) == IF col \in DOMAIN cols THEN cols[col] ELSE Null
Elements(w) == IF Kind(w) = "list" THEN w[2] ELSE << >>

\* Integers of either width are compared as numbers; null satisfies nothing.
Compared(a, op, b) ==
  /\ a # Null /\ b # Null
  /\ CASE op = "=" -> a[2] = b[2]
       [] op = "<>" -> a[2] # b[2]
       [] op = "<" -> a[2] < b[2]
       [] op = "<=" -> a[2] <= b[2]
       [] op = ">" -> a[2] > b[2]
       [] op = ">=" -> a[2] >= b[2]

Has(list, w) == \E i \in DOMAIN list : list[i] = w

\* A value beside the parameters of a fragment.
Matches(a, frag, params) ==
  LET op == frag[1]
      b == params[frag[3]]
  IN CASE op \in {Comparison[t] : t \in DOMAIN Comparison} \cup {"="} -> Compared(a, op, b)
       [] op = "BETWEEN" -> Compared(a, ">=", b) /\ Compared(a, "<=", params[frag[4]])
       [] op = "IN" -> Has(Elements(b), a)
       [] op = "NOT IN" -> ~Has(Elements(b), a)
       [] op = "CONTAINS" -> Has(Elements(a), b)
       [] op = "CONTAINSALL" -> \A i \in DOMAIN b[2] : Has(Elements(a), b[2][i])
       [] op = "CONTAINSANY" -> \E i \in DOMAIN b[2] : Has(Elements(a), b[2][i])

Holds(cols, frag, params) ==
  LET a == Column(cols, frag[2])
  IN CASE frag[1] = "IS NULL" -> a = Null
       [] frag[1] = "IS NOT NULL" -> a # Null
       [] OTHER -> Matches(a, frag, params)

Satisfies(cols, frag, params) ==
  IF frag[1] = "NOT" THEN ~Holds(cols, frag[2], params) ELSE Holds(cols, frag, params)

Selected(cols, statement) ==
  \A i \in DOMAIN statement.where : Satisfies(cols, statement.where[i], statement.params)

Assigned(cols, frag, params) ==
  LET col == frag[2]
      now == Column(cols, col)
  IN CASE frag[1] = "param" -> With(cols, col, params[frag[3]])
       [] frag[1] = "null" -> Restrict(cols, DOMAIN cols \ {col})
       [] frag[1] = "append" ->
              With(cols, col, <<"list", Elements(now) \o Elements(params[frag[3]])>>)
       [] frag[1] = "expr" /\ now = Null -> cols
       [] frag[1] = "expr" /\ now # Null -> With(cols, col, <<now[1], now[2] + frag[3]>>)

\* The row after each assignment.
RowAfter(cols, frags, params) ==
  LET after[i \in 0..Len(frags)] ==
        IF i = 0 THEN cols ELSE Assigned(after[i - 1], frags[i], params)
  IN after

\* UPDATE ... SET ... WHERE on one row.
Execute(cols, statement) ==
  IF ~Selected(cols, statement) THEN cols
  ELSE RowAfter(cols, statement.set, statement.params)[Len(statement.set)]
=============================================================================
