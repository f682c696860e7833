--------------------------- MODULE OverrideContract ---------------------------
(***************************************************************************)
(* What the override engine of arcadedb-migrate promises (migrator/mod.rs, *)
(* schema/revisions/progress.rs), with every failure and retry abstracted  *)
(* away: the rows of an override are copied once, then its destructive     *)
(* statements take effect one after the other in file order, and only an   *)
(* override all of whose statements took effect is recorded as applied.    *)
(***************************************************************************)
EXTENDS Integers

CONSTANTS
  File,       \* override files
  WithCopy,   \* those with a copy phase
  NSwap       \* NSwap[f]: number of swap statements of f

VARIABLES
  copied,     \* files whose copy has been committed
  ran,        \* ran[f]: swap statements of f that took effect
  applied     \* files in the registry

vars == <<copied, ran, applied>>

Init == copied = {} /\ ran = [f \in File |-> {}] /\ applied = {}

CommitCopy(f) ==
  /\ f \in WithCopy \ copied /\ ran[f] = {}
  /\ copied' = copied \cup {f}
  /\ UNCHANGED <<ran, applied>>

RunSwap(f) ==
  /\ f \notin applied
  /\ f \in WithCopy => f \in copied
  /\ \E i \in 1..NSwap[f] :
       /\ ran[f] = 1..(i - 1)
       /\ ran' = [ran EXCEPT ![f] = 1..i]
  /\ UNCHANGED <<copied, applied>>

Apply(f) ==
  /\ f \notin applied
  /\ f \in WithCopy => f \in copied
  /\ ran[f] = 1..NSwap[f]
  /\ applied' = applied \cup {f}
  /\ UNCHANGED <<copied, ran>>

Next == \E f \in File : CommitCopy(f) \/ RunSwap(f) \/ Apply(f)

Spec == Init /\ [][Next]_vars
=============================================================================
