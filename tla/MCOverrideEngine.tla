--------------------------- MODULE MCOverrideEngine ---------------------------
(* Instances of OverrideEngine for TLC: which override files there are. *)
EXTENDS OverrideEngine, TLC

CONSTANTS rebuild, trim, retag, tidy

\* rebuild: INSERT ... FROM SELECT, a rename, a drop of the source.
\* trim: the same with a WHERE that leaves a row out, and the drop only.
\* retag: MOVE VERTEX and a drop.  tidy: destructive statements only.
MCKind == rebuild :> "insert" @@ trim :> "insert" @@ retag :> "move" @@ tidy :> "none"
MCSwaps == rebuild :> 2 @@ trim :> 1 @@ retag :> 1 @@ tidy :> 2
MCDrop == rebuild :> 2 @@ trim :> 1 @@ retag :> 1 @@ tidy :> 0
MCRows == rebuild :> 2 @@ trim :> 2 @@ retag :> 2 @@ tidy :> 0
MCSelects == [MCRows EXCEPT ![trim] = 1]
\* A MOVE whose WHERE leaves a row out.
MoveFiltered == [MCSelects EXCEPT ![retag] = 1]

AllLoud == {<<f, i>> \in File \X (1..2) : i <= NSwap[f]}
\* tidy's statements are UPDATEs, which can be executed again.
TidySilent == {x \in AllLoud : x[1] # tidy}

Pick(c) == [f \in File |-> c[f]]
KindOf == Pick(MCKind)
SwapsOf == Pick(MCSwaps)
DropOf == Pick(MCDrop)
RowsOf == Pick(MCRows)
SelectsOf == Pick(MCSelects)
SelectsLessMoved == Pick(MoveFiltered)
=============================================================================
