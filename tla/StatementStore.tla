---------------------------- MODULE StatementStore ----------------------------
(***************************************************************************)
(* Clients run UPDATE statements they build with SetClause and             *)
(* FilterClause on one row, through execute_with_values.  A request or its *)
(* reply may be lost, carried out late, and sent again by the caller.      *)
(***************************************************************************)
EXTENDS SqlClauses

CONSTANTS Updater,        \* clients
          Menus,          \* a set of sets of statements <<SET calls, WHERE calls>>
          Start,          \* the row's columns at the start
          MaxStatements,  \* bound: statements begun
          MaxLosses       \* bound: lost, late and repeated requests

VARIABLES menu,      \* the statements the clients of this behaviour use
          cols,      \* the row
          waiting,   \* the statement a client waits for: None, or Some([statement, failed])
          updates,   \* requests on their way, as <<client, statement>>
          begun, losses

updateVars == <<menu, cols, waiting, updates, begun, losses>>

UpdateInit ==
  /\ menu \in Menus
  /\ cols = Start
  /\ waiting = [c \in Updater |-> None]
  /\ updates = {}
  /\ begun = 0
  /\ losses = 0

Built(s) == Update(s[1], s[2])

\* execute_with_values of a statement and its merged parameters.
ExecuteWithValues(c, s) ==
  /\ waiting[c] = None
  /\ begun < MaxStatements
  /\ begun' = begun + 1
  /\ waiting' = [waiting EXCEPT ![c] = Some([statement |-> s, failed |-> FALSE])]
  /\ updates' = updates \cup {<<c, s>>}
  /\ UNCHANGED <<menu, cols, losses>>

Awaited(r) == waiting[r[1]] = Some([statement |-> r[2], failed |-> FALSE])
FailUpdate(c) == waiting' = [waiting EXCEPT ![c] = Some([@[1] EXCEPT !.failed = TRUE])]
Loss == losses < MaxLosses /\ losses' = losses + 1 /\ UNCHANGED <<menu, begun>>

UpdateReply(r) ==
  /\ Awaited(r)
  /\ cols' = Execute(cols, Built(r[2]))
  /\ updates' = updates \ {r}
  /\ waiting' = [waiting EXCEPT ![r[1]] = None]
  /\ UNCHANGED <<menu, begun, losses>>

\* The reply is lost.
UpdateReplyLost(r) ==
  /\ Awaited(r)
  /\ cols' = Execute(cols, Built(r[2]))
  /\ updates' = updates \ {r}
  /\ FailUpdate(r[1])
  /\ Loss

\* The client gives up first: the request may still be carried out, or vanish.
UpdateTimesOut(r) == Awaited(r) /\ FailUpdate(r[1]) /\ Loss /\ UNCHANGED <<cols, updates>>

UpdateArrivesLate(r) ==
  /\ ~Awaited(r)
  /\ cols' \in {cols, Execute(cols, Built(r[2]))}
  /\ updates' = updates \ {r}
  /\ UNCHANGED <<menu, waiting, begun, losses>>

UpdateFailed(c) == waiting[c] # None /\ waiting[c][1].failed

RepeatUpdate(c) ==
  /\ UpdateFailed(c)
  /\ waiting' = [waiting EXCEPT ![c] = Some([@[1] EXCEPT !.failed = FALSE])]
  /\ updates' = updates \cup {<<c, waiting[c][1].statement>>}
  /\ UNCHANGED <<menu, cols, begun, losses>>

LeaveUpdate(c) ==
  /\ UpdateFailed(c)
  /\ waiting' = [waiting EXCEPT ![c] = None]
  /\ UNCHANGED <<menu, cols, updates, begun, losses>>

UpdateNext ==
  \/ \E c \in Updater : \/ RepeatUpdate(c) \/ LeaveUpdate(c)
                        \/ \E s \in menu : ExecuteWithValues(c, s)
  \/ \E r \in updates : \/ UpdateReply(r) \/ UpdateReplyLost(r)
                        \/ UpdateTimesOut(r) \/ UpdateArrivesLate(r)

UpdateSpec == UpdateInit /\ [][UpdateNext]_updateVars

-----------------------------------------------------------------------------
\* What the calls say, each with its own value

Says(now, call_) ==
  LET a == Column(now, call_[2])
      m == call_[1]
  IN CASE m = "eq" -> Compared(a, "=", call_[3])
       [] m \in DOMAIN Comparison -> Compared(a, Comparison[m], call_[3])
       [] m = "between" -> Compared(a, ">=", call_[3]) /\ Compared(a, "<=", call_[4])
       [] m = "is_null" -> a = Null
       [] m = "is_not_null" -> a # Null
       [] m = "in_list" -> a \in ToSet(call_[3])
       [] m = "not_in" -> a \notin ToSet(call_[3])
       [] m = "contains" -> call_[3] \in ToSet(Elements(a))
       [] m = "contains_all" -> ToSet(call_[3]) \subseteq ToSet(Elements(a))
       [] m = "contains_any" -> ToSet(call_[3]) \cap ToSet(Elements(a)) # {}
       [] m = "not_contains_any" -> ToSet(call_[3]) \cap ToSet(Elements(a)) = {}
       [] m = "bind" -> TRUE

Puts(now, call_) ==
  LET col == call_[2]
      a == Column(now, col)
      put(w) == With(now, col, w)
  IN CASE call_[1] = "set" -> put(call_[3])
       [] call_[1] = "set_opt" -> IF call_[3] = None THEN now ELSE put(call_[3][1])
       [] call_[1] = "set_when" -> IF call_[4] THEN put(call_[3]) ELSE now
       [] call_[1] = "set_or_null" -> IF call_[3] = None THEN Restrict(now, DOMAIN now \ {col})
                                      ELSE put(call_[3][1])
       [] call_[1] = "append" -> put(<<"list", Append(Elements(a), call_[3])>>)
       [] call_[1] = "set_expr" -> IF a = Null THEN now ELSE put(<<a[1], a[2] + call_[3]>>)

\* The row after each of the SET calls.
PutAfter(now, calls) ==
  LET after[i \in 0..Len(calls)] == IF i = 0 THEN now ELSE Puts(after[i - 1], calls[i])
  IN after

Meant(now, s) ==
  IF \A i \in DOMAIN s[2] : Says(now, s[2][i]) THEN PutAfter(now, s[1])[Len(s[1])] ELSE now

-----------------------------------------------------------------------------
\* Properties

\* A statement built by the two builders does to the row, at any time it may reach
\* the server, what its calls say one by one: no fragment is filled with the value of
\* another one, on either side (SetClause, FilterClause::param_name, and the merge of
\* their parameters).
StatementMeansItsCalls ==
  \A r \in updates : Execute(cols, Built(r[2])) = Meant(cols, r[2])

\* What the builders leave to their caller.  Of a column's own parameter: a bind takes
\* it only if no eq or bind has, and no column is set whose own parameter the WHERE
\* takes.  And a column is appended to or changed otherwise, not both.
OwnParam(call_) == call_[1] \in {"eq", "bind"}
BindsFree(filters) ==
  \A i, j \in DOMAIN filters :
    filters[i][1] = "bind" /\ j < i /\ OwnParam(filters[j]) => filters[i][2] # filters[j][2]
SetsApart(sets, filters) ==
  \A i \in DOMAIN sets, j \in DOMAIN filters :
    sets[i][1] \notin {"append", "set_expr"} /\ OwnParam(filters[j]) => sets[i][2] # filters[j][2]
AppendsAlone(sets) ==
  \A i, j \in DOMAIN sets :
    sets[i][1] = "append" /\ sets[j][1] # "append" => sets[i][2] # sets[j][2]

\* Nor is a column that a statement appends to counted up by another.
CountsApart(sets, others) ==
  \A i \in DOMAIN sets, j \in DOMAIN others :
    sets[i][1] = "append" /\ others[j][1] = "set_expr" => sets[i][2] # others[j][2]

Apart(m) ==
  /\ \A s \in m : BindsFree(s[2]) /\ SetsApart(s[1], s[2]) /\ AppendsAlone(s[1])
  /\ \A s, t \in m : CountsApart(s[1], t[1])

\* The append guarded by not_contains_any of its own element is idempotent: sent
\* again, arriving late or raced by another client, it leaves the element in once.
Guarded(s) ==
  \A i \in DOMAIN s[1] :
    /\ s[1][i][1] = "append"
    /\ \E j \in DOMAIN s[2] : /\ s[2][j][1] = "not_contains_any"
                              /\ s[2][j][2] = s[1][i][2]
                              /\ s[1][i][3] \in ToSet(s[2][j][3])
    /\ \A j \in DOMAIN s[1] : s[1][i][2] = s[1][j][2] /\ s[1][i][3] = s[1][j][3] => i = j

AppendOnce ==
  (\A s \in menu : Guarded(s)) =>
     \A col \in DOMAIN cols : Kind(cols[col]) = "list" => IsInjective(cols[col][2])
=============================================================================
