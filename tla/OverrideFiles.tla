----------------------------- MODULE OverrideFiles -----------------------------
(***************************************************************************)
(* What arcadedb-migrate makes of the statements of one override file      *)
(* (migrator/classification.rs): which of them are destructive, the order  *)
(* the two phases execute them in, the row counts that verify the copies,  *)
(* and the types the file owns afterwards.  A developer writes any file of *)
(* up to MaxLen statements; plan time checks it and apply_override         *)
(* (migrator/mod.rs) executes it on a database of a few types, without     *)
(* faults: OverrideEngine has those, and what a refusal leaves behind.     *)
(*                                                                         *)
(* Data.  A statement has an operation, a source and a target type, and,   *)
(* if it copies, whether its SELECT takes all rows or leaves one out.      *)
(***************************************************************************)
EXTENDS Integers, SequencesExt

CONSTANTS
  Type,
  Base,        \* Base[t]: rows of t before the migration, or Missing
  Missing,     \* the row count of a type that is not there
  Statement,   \* the statements a file may hold
  MaxLen       \* bound: statements of the file

ASSUME FilesAssumption ==
  /\ Missing \notin Nat
  /\ Base \in [Type -> Nat \cup {Missing}]
  /\ \A s \in Statement :
       /\ s.op \in {"create", "insert", "moveSelect", "moveType", "record",
                    "drop", "rename", "update"}
       /\ s.from \in Type /\ s.to \in Type /\ s.all \in BOOLEAN
  /\ MaxLen \in Nat

VARIABLES
  file,       \* the statements as written
  step,       \* "write", "copy", "verify", "swap", "done", "refused"
  rows,       \* the database: rows of each type
  counts,     \* source counts taken before the copies, by copy pair
  remaining,  \* statements of the current phase still to execute
  log         \* statements executed

fileVars == <<file, step, rows, counts, remaining, log>>

Pair == [from : Type, to : Type]

FilesInit ==
  /\ file = <<>> /\ step = "write" /\ rows = Base
  /\ counts = [p \in {} |-> 0] /\ remaining = <<>> /\ log = <<>>

----------------------------------------------------------------------------
\* classify_statement: DROP, DELETE, UPDATE, ALTER TYPE ... NAME.
Destructive(s) == s.op \in {"drop", "rename", "update"}

\* split_override_phases, for one statement.
Part(split, s) ==
  IF Destructive(s) THEN [split EXCEPT !.swaps = Append(@, s)]
                    ELSE [split EXCEPT !.copies = Append(@, s)]

\* The copies and the swaps among the first i statements.
SplitAfter(f) ==
  LET split[i \in 0..Len(f)] ==
        IF i = 0 THEN [copies |-> <<>>, swaps |-> <<>>] ELSE Part(split[i - 1], f[i])
  IN split

Copies(f) == SplitAfter(f)[Len(f)].copies
Swaps(f) == SplitAfter(f)[Len(f)].swaps

\* Mutant: only neighbours are compared, from the second on.
Ordered_neighbours(f) ==
  \A i \in DOMAIN f : i > 2 /\ Destructive(f[i - 1]) => Destructive(f[i])

\* validate_phase_ordering: nothing additive after something destructive.
Ordered(f) ==
  \A i, j \in DOMAIN f : i < j /\ Destructive(f[i]) => Destructive(f[j])

\* copy_verification_pairs: INSERT ... FROM SELECT, and MOVE VERTEX if its
\* source is a SELECT: without a FROM in its text a MOVE gives no pair.
Pairs(f) ==
  {[from |-> s.from, to |-> s.to] :
     s \in {f[i] : i \in {j \in DOMAIN f : f[j].op \in {"insert", "moveSelect"}}}}

\* Mutant: a rename leaves the old name owned and not the new one.
Owns_oldName(owned, s) ==
  CASE s.op = "create" -> owned \cup {s.to}
    [] s.op = "drop"   -> owned \ {s.to}
    [] OTHER           -> owned

\* owned_types, for one statement.
Owns(owned, s) ==
  CASE s.op = "create" -> owned \cup {s.to}
    [] s.op = "drop"   -> owned \ {s.to}
    [] s.op = "rename" -> (owned \ {s.from}) \cup {s.to}
    [] OTHER           -> owned

\* What the first i statements leave owned.
OwnedAfter(f) ==
  LET owned[i \in 0..Len(f)] == IF i = 0 THEN {} ELSE Owns(owned[i - 1], f[i])
  IN owned

OwnedByFile(f) == OwnedAfter(f)[Len(f)]

----------------------------------------------------------------------------
(* The server *)

There(t) == rows[t] # Missing
Selected(s) == IF s.all \/ rows[s.from] = 0 THEN rows[s.from] ELSE rows[s.from] - 1

Possible(s) ==
  CASE s.op = "create" -> TRUE
    [] s.op \in {"insert", "moveSelect", "moveType"} -> There(s.from) /\ There(s.to)
    [] s.op = "rename" -> There(s.from) /\ ~There(s.to)
    [] OTHER -> There(s.to)

RowsAfter(s) ==
  CASE s.op = "create" /\ ~There(s.to) -> [rows EXCEPT ![s.to] = 0]
    [] s.op = "record" -> [rows EXCEPT ![s.to] = @ + 1]
    [] s.op = "insert" -> [rows EXCEPT ![s.to] = @ + Selected(s)]
    [] s.op \in {"moveSelect", "moveType"} ->
         [rows EXCEPT ![s.from] = @ - Selected(s), ![s.to] = rows[s.to] + Selected(s)]
    [] s.op = "drop" -> [rows EXCEPT ![s.to] = Missing]
    [] s.op = "rename" -> [rows EXCEPT ![s.to] = rows[s.from], ![s.from] = Missing]
    [] OTHER -> rows

----------------------------------------------------------------------------
Write(s) ==
  /\ step = "write" /\ Len(file) < MaxLen
  /\ file' = Append(file, s)
  /\ UNCHANGED <<step, rows, counts, remaining, log>>

\* build_plan checks the order; the copy phase begins with the source counts.
Plan ==
  /\ step = "write" /\ Ordered(file)
  /\ \A p \in Pairs(file) : There(p.from)
  /\ counts' = [p \in Pairs(file) |-> rows[p.from]]
  /\ remaining' = Copies(file)
  /\ step' = "copy"
  /\ UNCHANGED <<file, rows, log>>

RefuseFile ==
  /\ step = "write"
  /\ ~Ordered(file) \/ \E p \in Pairs(file) : ~There(p.from)
  /\ step' = "refused"
  /\ UNCHANGED <<file, rows, counts, remaining, log>>

ExecuteNext ==
  /\ step \in {"copy", "swap"} /\ remaining # <<>>
  /\ IF Possible(Head(remaining))
       THEN /\ rows' = RowsAfter(Head(remaining)) /\ log' = Append(log, Head(remaining))
            /\ UNCHANGED step
       ELSE step' = "refused" /\ UNCHANGED <<rows, log>>
  /\ remaining' = Tail(remaining)
  /\ UNCHANGED <<file, counts>>

Copied ==
  /\ step = "copy" /\ remaining = <<>>
  /\ step' = "verify"
  /\ UNCHANGED <<file, rows, counts, remaining, log>>

\* The target of every pair holds at least the rows its source held.
CopiesVerified == \A p \in DOMAIN counts : There(p.to) /\ rows[p.to] >= counts[p]

Verify ==
  /\ step = "verify"
  /\ IF CopiesVerified THEN step' = "swap" /\ remaining' = Swaps(file)
                 ELSE step' = "refused" /\ UNCHANGED remaining
  /\ UNCHANGED <<file, rows, counts, log>>

Done ==
  /\ step = "swap" /\ remaining = <<>>
  /\ step' = "done"
  /\ UNCHANGED <<file, rows, counts, remaining, log>>

FilesNext ==
  \/ \E s \in Statement : Write(s)
  \/ Plan \/ RefuseFile \/ ExecuteNext \/ Copied \/ Verify \/ Done

FilesSpec == FilesInit /\ [][FilesNext]_fileVars

----------------------------------------------------------------------------
(* Properties *)

\* The phases execute an accepted file in the order it was written: the split
\* never makes a statement jump ahead of another (validate_phase_ordering).
OrderKept == step \in {"copy", "verify", "swap", "done"} => IsPrefix(log, file)

\* What the file leaves behind that was not there before is owned, so that a
\* destructive sync does not drop it; and nothing is owned that is gone.
LeftBehindIsOwned ==
  step = "done" =>
    /\ \A t \in Type : There(t) /\ Base[t] = Missing => t \in OwnedByFile(file)
    /\ \A t \in OwnedByFile(file) : There(t)
=============================================================================
