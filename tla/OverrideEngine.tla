---------------------------- MODULE OverrideEngine ----------------------------
(***************************************************************************)
(* The phase engine of arcadedb-migrate: Migrator::apply_override and      *)
(* apply_copy_phase (migrator/mod.rs) with the journal of                  *)
(* schema/revisions/progress.rs and the registry of applied overrides.     *)
(*                                                                         *)
(* One client applies overrides, one at a time (the lock serializes runs). *)
(* Every statement is an RPC of its own: it can fail before it is executed *)
(* or be executed with its reply lost, and the client can crash between    *)
(* any two.  Whatever happens, the run ends and a later run calls the      *)
(* engine again.  A crash and an error reply leave the same state behind:  *)
(* the rollback the error path sends changes nothing that was committed.   *)
(*                                                                         *)
(* Data.  An override copies rows of one source type to one new target     *)
(* type, if it has a copy phase.  INSERT ... FROM SELECT joins the copy    *)
(* transaction; MOVE VERTEX commits as it runs.  One of the swap           *)
(* statements may drop the source.  A swap statement is loud if the server *)
(* refuses to execute it twice (a rename, a drop) and silent if it would   *)
(* take effect again (an UPDATE).                                          *)
(***************************************************************************)
EXTENDS Integers

CONSTANTS
  File,       \* override files
  CopyKind,   \* CopyKind[f]: "insert", "move", or "none" without copy phase
  Rows,       \* Rows[f]: rows of the source type before the migration
  Selects,    \* Selects[f]: how many of them the copy statement selects
  NSwap,      \* NSwap[f]: number of swap statements
  DropAt,     \* DropAt[f]: the swap statement that drops the source, 0 if none
  Loud,       \* swap statements <<f, i>> that fail when executed again
  MaxFaults   \* bound: failures, lost replies and crashes in a behaviour

ASSUME EngineAssumption ==
  /\ CopyKind \in [File -> {"insert", "move", "none"}]
  /\ Rows \in [File -> Nat]
  /\ Selects \in [File -> Nat] /\ \A f \in File : Selects[f] <= Rows[f]
  /\ NSwap \in [File -> Nat]
  /\ DropAt \in [File -> Nat]
  /\ Loud \subseteq File \X Nat
  /\ MaxFaults \in Nat

VARIABLES
  \* the database
  src, tgt,    \* src[f], tgt[f]: committed rows of f's source and target type
  sel,         \* sel[f]: rows of the source that f's copy statement selects
  copyMark,    \* copyMark[f]: f's "copy" row in schema_override_progress
  swapMark,    \* swapMark[f]: f's "swap" ordinals in schema_override_progress
  ran, reran,  \* ran[f], reran[f]: swaps that took effect once, more than once
  recorded,    \* schema_overrides_applied
  \* the client
  pc, cur,     \* where it is in apply_override, and for which file
  todo,        \* swap statements still to execute (not in resume.swap_done)
  expected,    \* source rows counted before the copy
  added,       \* rows inserted by the open copy transaction
  faults

data == <<src, tgt, sel>>
journal == <<copyMark, swapMark>>
swaps == <<ran, reran>>
client == <<cur, todo, expected, added>>
vars == <<data, journal, swaps, recorded, pc, client, faults>>

Swaps(f) == 1..NSwap[f]

TypeOK ==
  /\ src \in [File -> Nat] /\ tgt \in [File -> Nat] /\ sel \in [File -> Nat]
  /\ copyMark \in [File -> BOOLEAN]
  /\ swapMark \in [File -> SUBSET Nat]
  /\ ran \in [File -> SUBSET Nat] /\ reran \in [File -> SUBSET Nat]
  /\ recorded \subseteq File
  /\ pc \in {"idle", "begin", "copy", "verify", "commit", "swap", "mark", "clear"}
  /\ cur \in File
  /\ todo \subseteq Nat
  /\ expected \in Nat /\ added \in Nat
  /\ faults \in 0..MaxFaults

Init ==
  /\ src = Rows /\ tgt = [f \in File |-> 0] /\ sel = Selects
  /\ copyMark = [f \in File |-> FALSE]
  /\ swapMark = [f \in File |-> {}]
  /\ ran = [f \in File |-> {}] /\ reran = [f \in File |-> {}]
  /\ recorded = {}
  /\ pc = "idle" /\ cur \in File /\ todo = {} /\ expected = 0 /\ added = 0
  /\ faults = 0

----------------------------------------------------------------------------
\* Mutants: the copy marker is not read; the swap markers are not read.
Call_copyAgain(f) ==
  /\ pc = "idle"
  /\ cur' = f
  /\ todo' = Swaps(f) \ swapMark[f]
  /\ pc' = IF CopyKind[f] = "none" THEN "swap" ELSE "begin"
  /\ UNCHANGED <<data, journal, swaps, recorded, expected, added, faults>>
Call_swapAgain(f) ==
  /\ pc = "idle"
  /\ cur' = f
  /\ todo' = Swaps(f)
  /\ pc' = IF CopyKind[f] = "none" \/ copyMark[f] THEN "swap" ELSE "begin"
  /\ UNCHANGED <<data, journal, swaps, recorded, expected, added, faults>>

\* apply_override starts: read_progress, then the copy phase unless there is
\* none or its marker is there.
Call(f) ==
  /\ pc = "idle"
  /\ cur' = f
  /\ todo' = Swaps(f) \ swapMark[f]
  /\ pc' = IF CopyKind[f] = "none" \/ copyMark[f] THEN "swap" ELSE "begin"
  /\ UNCHANGED <<data, journal, swaps, recorded, expected, added, faults>>

\* A live sync calls the engine for the overrides that are not recorded.
SyncCall(f) == f \notin recorded /\ Call(f)

\* Mutant: rows that are already in the target are not expected again.
BeginCopy_lessCopied ==
  /\ pc = "begin"
  /\ expected' = src[cur] - tgt[cur] /\ added' = 0
  /\ pc' = "copy"
  /\ UNCHANGED <<data, journal, swaps, recorded, cur, todo, faults>>

\* begin_transaction and the source counts, taken before the copy.
BeginCopy ==
  /\ pc = "begin"
  /\ expected' = src[cur] /\ added' = 0
  /\ pc' = "copy"
  /\ UNCHANGED <<data, journal, swaps, recorded, cur, todo, faults>>

\* The server executes a MOVE VERTEX of n rows, which commits as it runs.
Move(n) ==
  /\ src' = [src EXCEPT ![cur] = @ - n]
  /\ tgt' = [tgt EXCEPT ![cur] = @ + n]
  /\ sel' = [sel EXCEPT ![cur] = @ - n]

RunCopy ==
  /\ pc = "copy"
  /\ \/ CopyKind[cur] = "insert" /\ added' = sel[cur] /\ UNCHANGED data
     \/ CopyKind[cur] = "move" /\ Move(sel[cur]) /\ UNCHANGED added
  /\ pc' = "verify"
  /\ UNCHANGED <<journal, swaps, recorded, cur, todo, expected, faults>>

\* Mutant: the verification is skipped.
Verified_always == TRUE

\* SELECT count(*) of the target, inside the transaction.
Counted == tgt[cur] + added

\* It is compared with the count of the source.
Verified == Counted >= expected

\* Verification passed: the "copy" marker joins the transaction.
Verify ==
  /\ pc = "verify" /\ Verified
  /\ pc' = "commit"
  /\ UNCHANGED <<data, journal, swaps, recorded, client, faults>>

\* Verification failed: rollback and an error.
RejectCopy ==
  /\ pc = "verify" /\ ~Verified
  /\ pc' = "idle"
  /\ UNCHANGED <<data, journal, swaps, recorded, client, faults>>

\* The server commits the copied rows and the marker.
CommitCopy ==
  /\ pc = "commit"
  /\ tgt' = [tgt EXCEPT ![cur] = @ + added]
  /\ copyMark' = [copyMark EXCEPT ![cur] = TRUE]
  /\ pc' = "swap"
  /\ UNCHANGED <<src, sel, swapMark, swaps, recorded, client, faults>>

----------------------------------------------------------------------------
\* Mutant: the last one not journaled is next.
NextSwap_last(i) == i \in todo /\ \A j \in todo : i >= j

\* The loop over the swap statements: the first one not journaled is next.
NextSwap(i) == i \in todo /\ \A j \in todo : i <= j

\* The server refuses a loud statement that already took effect.
Refuses(i) == i \in ran[cur] /\ <<cur, i>> \in Loud

\* The server executes swap statement i (it commits as it runs).
Execute(i) ==
  /\ ran' = [ran EXCEPT ![cur] = @ \cup {i}]
  /\ reran' = [reran EXCEPT ![cur] = IF i \in ran[cur] THEN @ \cup {i} ELSE @]
  /\ IF i = DropAt[cur]
       THEN /\ src' = [src EXCEPT ![cur] = 0]
            /\ sel' = [sel EXCEPT ![cur] = 0]
            /\ UNCHANGED tgt
       ELSE UNCHANGED data

ExecSwap(i) ==
  /\ pc = "swap" /\ NextSwap(i) /\ ~Refuses(i)
  /\ Execute(i)
  /\ pc' = "mark"
  /\ UNCHANGED <<journal, recorded, client, faults>>

SwapError(i) ==
  /\ pc = "swap" /\ NextSwap(i) /\ Refuses(i)
  /\ pc' = "idle"
  /\ UNCHANGED <<data, journal, swaps, recorded, client, faults>>

\* Mutant: the statement stays in the list.
MarkSwap_repeats(i) ==
  /\ pc = "mark" /\ NextSwap(i)
  /\ swapMark' = [swapMark EXCEPT ![cur] = @ \cup {i}]
  /\ pc' = "swap"
  /\ UNCHANGED <<data, copyMark, swaps, recorded, client, faults>>

\* mark_swap, right after the statement it tracks.
MarkSwap(i) ==
  /\ pc = "mark" /\ NextSwap(i)
  /\ swapMark' = [swapMark EXCEPT ![cur] = @ \cup {i}]
  /\ todo' = todo \ {i}
  /\ pc' = "swap"
  /\ UNCHANGED <<data, copyMark, swaps, recorded, cur, expected, added, faults>>

\* Mutant: the override is recorded before its last statement ran.
Record_early ==
  /\ pc = "swap" /\ (\E i \in Swaps(cur) : todo \subseteq {i}) /\ cur \notin recorded
  /\ recorded' = recorded \cup {cur}
  /\ pc' = "clear"
  /\ UNCHANGED <<data, journal, swaps, client, faults>>

\* record_override: an INSERT under the UNIQUE index on filename.
Record ==
  /\ pc = "swap" /\ todo = {} /\ cur \notin recorded
  /\ recorded' = recorded \cup {cur}
  /\ pc' = "clear"
  /\ UNCHANGED <<data, journal, swaps, client, faults>>

\* clear_progress.
Clear ==
  /\ pc = "clear"
  /\ copyMark' = [copyMark EXCEPT ![cur] = FALSE]
  /\ swapMark' = [swapMark EXCEPT ![cur] = {}]
  /\ pc' = "idle"
  /\ UNCHANGED <<data, swaps, recorded, client, faults>>

----------------------------------------------------------------------------
(* Faults: each ends the run, with or without its statement executed. *)

EndRun == /\ faults < MaxFaults /\ faults' = faults + 1
          /\ pc' = "idle" /\ UNCHANGED client

\* The statement is not executed, or the client crashes before sending it.
Fail ==
  /\ pc # "idle" /\ EndRun
  /\ UNCHANGED <<data, journal, swaps, recorded>>

\* MOVE VERTEX fails part-way: what it moved stays moved.
PartialMove ==
  /\ pc = "copy" /\ CopyKind[cur] = "move" /\ EndRun
  /\ \E n \in 0..sel[cur] : Move(n)
  /\ UNCHANGED <<journal, swaps, recorded>>

\* The statement is executed and its reply lost.
LostCommit ==
  /\ pc = "commit" /\ EndRun
  /\ tgt' = [tgt EXCEPT ![cur] = @ + added]
  /\ copyMark' = [copyMark EXCEPT ![cur] = TRUE]
  /\ UNCHANGED <<src, sel, swapMark, swaps, recorded>>

LostSwap(i) ==
  /\ pc = "swap" /\ NextSwap(i) /\ ~Refuses(i) /\ EndRun
  /\ Execute(i)
  /\ UNCHANGED <<journal, recorded>>

LostMark(i) ==
  /\ pc = "mark" /\ NextSwap(i) /\ EndRun
  /\ swapMark' = [swapMark EXCEPT ![cur] = @ \cup {i}]
  /\ UNCHANGED <<data, copyMark, swaps, recorded>>

LostRecord ==
  /\ pc = "swap" /\ todo = {} /\ cur \notin recorded /\ EndRun
  /\ recorded' = recorded \cup {cur}
  /\ UNCHANGED <<data, journal, swaps>>

LostClear ==
  /\ pc = "clear" /\ EndRun
  /\ copyMark' = [copyMark EXCEPT ![cur] = FALSE]
  /\ swapMark' = [swapMark EXCEPT ![cur] = {}]
  /\ UNCHANGED <<data, swaps, recorded>>

----------------------------------------------------------------------------
\* The steps of apply_override after its start.
EngineStep ==
  \/ BeginCopy \/ RunCopy \/ Verify \/ RejectCopy \/ CommitCopy
  \/ \E i \in todo : ExecSwap(i) \/ SwapError(i) \/ MarkSwap(i)
  \/ Record \/ Clear

EngineFault ==
  \/ Fail \/ PartialMove \/ LostCommit
  \/ \E i \in todo : LostSwap(i) \/ LostMark(i)
  \/ LostRecord \/ LostClear

Next == EngineStep \/ EngineFault \/ \E f \in File : SyncCall(f)

Spec == Init /\ [][Next]_vars

\* Clients and server keep going, and a failed migration is run again: a file
\* that is refused for good is taken out of the directory, so that the next run
\* reaches the files after it.
Fairness == WF_vars(EngineStep) /\ \A f \in File : SF_vars(SyncCall(f))

FairSpec == Spec /\ Fairness

----------------------------------------------------------------------------
(* Properties *)

HasCopy(f) == CopyKind[f] # "none"

\* The copy of f is committed, as the journal or the registry shows.
Copied(f) == copyMark[f] \/ f \in recorded

\* Every MOVE VERTEX selects all rows of its source.
FullMoves == \A f \in File : CopyKind[f] = "move" => Selects[f] = Rows[f]

\* No fault and no retry ever loses a row of the source: it is still in the
\* source, or its copy is committed.  Copying precedes dropping even when the
\* run that copied is not the run that drops.
NoRowLost ==
  \A f \in File :
    /\ CopyKind[f] = "insert" => src[f] = Rows[f] \/ tgt[f] >= Rows[f]
    /\ CopyKind[f] = "move" => src[f] + tgt[f] >= Rows[f]

\* No retry copies a row twice ("a re-run after a committed copy skips it").
NoRowTwice == \A f \in File : HasCopy(f) => tgt[f] <= Rows[f]

\* The registry lists an override only once its copy is committed and all its
\* swap statements took effect, whichever runs executed them.
RecordedMeansDone ==
  \A f \in recorded : ran[f] = Swaps(f) /\ (HasCopy(f) => tgt[f] >= Selects[f])

\* A swap statement whose marker was written, or whose override is recorded, is
\* never executed again.
MarkedSwapNotRepeated ==
  [][\A f \in File : \A i \in reran'[f] \ reran[f] :
       i \notin swapMark[f] /\ f \notin recorded]_<<swaps, swapMark, recorded>>

\* f needs a developer: its copy leaves out rows, or a swap statement that cannot
\* be executed twice took effect and its marker was not written.
Blocked(f) ==
  \/ CopyKind[f] = "insert" /\ Selects[f] < Rows[f]
  \/ \E i \in ran[f] \ swapMark[f] : <<f, i>> \in Loud

\* A failed migration that is run again gets through (progress.rs: "the resume
\* state that makes a failed apply safe to re-run"), the two cases apart.
Resumes == \A f \in File : <>(f \in recorded) \/ <>[]Blocked(f)

\* The engine keeps the contract of OverrideContract.
Contract == INSTANCE OverrideContract
  WITH WithCopy <- {f \in File : HasCopy(f)},
       copied <- {f \in File : HasCopy(f) /\ Copied(f)},
       applied <- recorded

ContractSpec == Contract!Spec
=============================================================================
