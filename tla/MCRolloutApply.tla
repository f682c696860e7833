---------------------------- MODULE MCRolloutApply ----------------------------
(* Instances of RolloutApply for TLC: which override files and releases. *)
EXTENDS RolloutApply, TLC

CONSTANTS rebuild, shift, tidy

\* rebuild: INSERT ... FROM SELECT, a rename, a drop of the source.
\* shift: MOVE VERTEX only.
\* tidy: one destructive statement.
MCKind == rebuild :> "insert" @@ shift :> "move" @@ tidy :> "none"
MCSwaps == rebuild :> 2 @@ shift :> 0 @@ tidy :> 1
MCDrop == rebuild :> 2 @@ shift :> 0 @@ tidy :> 0
MCRows == rebuild :> 1 @@ shift :> 2 @@ tidy :> 0

Pick(c) == [f \in File |-> c[f]]
KindOf == Pick(MCKind)
SwapsOf == Pick(MCSwaps)
DropOf == Pick(MCDrop)
RowsOf == Pick(MCRows)
AllLoud == {<<f, i>> \in File \X (1..2) : i <= NSwap[f]}

\* Three releases that add an override each; the second leaves the schema as it is.
ThreeReleases == << {shift}, {shift, rebuild}, {shift, rebuild, tidy} >>
ByName == Pick(shift :> 1 @@ rebuild :> 2 @@ tidy :> 3)
SchemaSums == <<1, 1, 2>>

\* The first two of them.
TwoReleases == << {shift}, {shift, rebuild} >>
OneSum == <<1, 1>>
=============================================================================
