------------------------ MODULE OverrideEngine_proofs ------------------------
(***************************************************************************)
(* The phase engine, proved for every set of override files and any number *)
(* of faults: types, no lost and no duplicated rows, complete records, and *)
(* the step simulation of OverrideContract.                                *)
(*                                                                         *)
(* The argument.  The registry and the two kinds of journal rows always    *)
(* tell less than what happened (Book): a marker is written after what it  *)
(* marks.  Until the copy marker commits, an INSERT has left no row and a  *)
(* MOVE has only shifted rows (Stock), so what the next run counts and     *)
(* copies again is what is still missing.                                  *)
(*                                                                         *)
(* The last part is about the rollouts that call the engine: one counts as *)
(* applied only when its overrides are recorded and its diff was executed. *)
(***************************************************************************)
EXTENDS RolloutApply, TLAPS

\* What the journal and the registry say of the swap statements is true, and
\* the ones that took effect are a prefix of the file.
Book ==
  \A f \in File :
    /\ swapMark[f] \subseteq ran[f] /\ reran[f] \subseteq ran[f]
    /\ \E n \in 0..NSwap[f] : ran[f] = 1..n
    /\ f \in recorded => ran[f] = Swaps(f)
    /\ ran[f] # {} /\ HasCopy(f) => Copied(f)

\* What the client relies on at each point of apply_override.
Run ==
  /\ pc \notin {"idle", "clear"} =>
       /\ cur \notin recorded
       /\ todo \subseteq Swaps(cur) /\ Swaps(cur) \ todo \subseteq ran[cur]
       /\ todo \cap swapMark[cur] = {}
  /\ pc \in {"begin", "copy", "verify", "commit"} =>
       HasCopy(cur) /\ ~copyMark[cur] /\ ran[cur] = {}
  /\ pc \in {"swap", "mark"} => (HasCopy(cur) => copyMark[cur])
  /\ pc = "mark" => \A i \in todo : NextSwap(i) => i \in ran[cur]
  /\ pc = "clear" => cur \in recorded

\* Where the rows are.
Stock ==
  /\ \A f \in File : CopyKind[f] = "insert" =>
       /\ ~Copied(f) => src[f] = Rows[f] /\ tgt[f] = 0 /\ sel[f] = Selects[f]
       /\ Copied(f) => tgt[f] = Rows[f] /\ Selects[f] = Rows[f]
  /\ \A f \in File : CopyKind[f] = "move" =>
       /\ ~Copied(f) => src[f] + tgt[f] = Rows[f] /\ tgt[f] + sel[f] = Selects[f]
       /\ Copied(f) => tgt[f] = Selects[f]

\* What the open copy transaction holds.
Pending ==
  /\ pc \in {"copy", "verify", "commit"} /\ CopyKind[cur] = "insert" =>
       expected = Rows[cur]
  /\ pc = "copy" => added = 0
  /\ pc \in {"verify", "commit"} =>
       /\ CopyKind[cur] = "insert" => added = Selects[cur]
       /\ CopyKind[cur] = "move" => added = 0 /\ sel[cur] = 0
  /\ pc = "commit" => Verified

\* A copy statement selects rows that are there.
TInv == TypeOK /\ \A f \in File : sel[f] <= src[f]

EInv == TInv /\ Book /\ Run /\ Stock /\ Pending

-----------------------------------------------------------------------------
\* In the loop over the swap statements, executing the next one extends the
\* prefix that took effect by exactly that one, or leaves it alone.
LEMMA NextExtends ==
  ASSUME TypeOK, Book, Run, pc = "swap", NEW i \in todo, NextSwap(i)
  PROVE  \E n \in 0..NSwap[cur] :
           /\ i \in 1..NSwap[cur] /\ ran[cur] = 1..n
           /\ \/ i \in 1..n
              \/ i = n + 1 /\ (ran[cur] \cup {i}) = 1..i
<1> USE EngineAssumption DEF TypeOK
<1>1. i \in 1..NSwap[cur] /\ todo \subseteq 1..NSwap[cur]
  BY DEF Run, Swaps
<1>2. PICK n \in 0..NSwap[cur] : ran[cur] = 1..n
  BY DEF Book
<1>3. i > 1 => i - 1 \in ran[cur]
  <2> SUFFICES ASSUME i > 1 PROVE i - 1 \in ran[cur]
    OBVIOUS
  <2>1. i - 1 \in 1..NSwap[cur] /\ ~(i <= i - 1)
    BY <1>1
  <2>2. i - 1 \notin todo
    BY <2>1 DEF NextSwap
  <2> QED
    BY <2>1, <2>2 DEF Run, Swaps
<1>4. i \in 1..(n + 1)
  BY <1>1, <1>2, <1>3
<1>5. i = n + 1 => (ran[cur] \cup {i}) = 1..i
  BY <1>2, <1>4
<1>6. i \in 1..n \/ i = n + 1
  BY <1>4
<1> QED
  BY <1>1, <1>2, <1>5, <1>6

-----------------------------------------------------------------------------
LEMMA MoveType ==
  ASSUME TInv, NEW n \in 0..sel[cur], Move(n)
  PROVE  /\ src' \in [File -> Nat] /\ tgt' \in [File -> Nat] /\ sel' \in [File -> Nat]
         /\ \A f \in File : sel'[f] <= src'[f]
<1> USE DEF TInv, TypeOK
<1>1. n \in Nat /\ src[cur] - n \in Nat /\ sel[cur] - n \in Nat /\ tgt[cur] + n \in Nat
      /\ sel[cur] - n <= src[cur] - n
  OBVIOUS
<1> QED
  BY <1>1 DEF Move

LEMMA ExecuteType ==
  ASSUME TInv, NEW i \in Nat, Execute(i)
  PROVE  /\ src' \in [File -> Nat] /\ tgt' \in [File -> Nat] /\ sel' \in [File -> Nat]
         /\ ran' \in [File -> SUBSET Nat] /\ reran' \in [File -> SUBSET Nat]
         /\ \A f \in File : sel'[f] <= src'[f]
  BY DEF TInv, TypeOK, Execute, data

\* All variables keep their types.
LEMMA TypeStep == TInv /\ [Next]_vars => TInv'
<1> SUFFICES ASSUME TInv, [Next]_vars PROVE TInv'
  OBVIOUS
<1> USE EngineAssumption DEF TInv, TypeOK, data, journal, swaps, client
<1>1. ASSUME NEW f \in File, SyncCall(f) PROVE TInv'
  BY <1>1 DEF SyncCall, Call, Swaps
<1>2. CASE EngineStep
  <2>1. CASE BeginCopy
    BY <2>1 DEF BeginCopy
  <2>2. CASE RunCopy
    <3>1. sel[cur] \in 0..sel[cur]
      OBVIOUS
    <3>2. CASE Move(sel[cur]) /\ UNCHANGED added
      BY <2>2, <3>1, <3>2, MoveType DEF RunCopy
    <3>3. CASE added' = sel[cur] /\ UNCHANGED data
      BY <2>2, <3>3 DEF RunCopy
    <3> QED
      BY <2>2, <3>2, <3>3 DEF RunCopy
  <2>3. CASE Verify \/ RejectCopy
    BY <2>3 DEF Verify, RejectCopy
  <2>4. CASE CommitCopy
    BY <2>4 DEF CommitCopy
  <2>5. ASSUME NEW i \in todo, ExecSwap(i) PROVE TInv'
    BY <2>5, ExecuteType DEF ExecSwap
  <2>6. ASSUME NEW i \in todo, SwapError(i) PROVE TInv'
    BY <2>6 DEF SwapError
  <2>7. ASSUME NEW i \in todo, MarkSwap(i) PROVE TInv'
    BY <2>7 DEF MarkSwap
  <2>8. CASE Record
    BY <2>8 DEF Record
  <2>9. CASE Clear
    BY <2>9 DEF Clear
  <2> QED
    BY <1>2, <2>1, <2>2, <2>3, <2>4, <2>5, <2>6, <2>7, <2>8, <2>9 DEF EngineStep
<1>3. CASE EngineFault
  <2> USE DEF EndRun
  <2>1. CASE Fail
    BY <2>1 DEF Fail
  <2>2. CASE PartialMove
    BY <2>2, MoveType DEF PartialMove
  <2>3. CASE LostCommit
    BY <2>3 DEF LostCommit
  <2>4. ASSUME NEW i \in todo, LostSwap(i) PROVE TInv'
    BY <2>4, ExecuteType DEF LostSwap
  <2>5. ASSUME NEW i \in todo, LostMark(i) PROVE TInv'
    BY <2>5 DEF LostMark
  <2>6. CASE LostRecord
    BY <2>6 DEF LostRecord
  <2>7. CASE LostClear
    BY <2>7 DEF LostClear
  <2> QED
    BY <1>3, <2>1, <2>2, <2>3, <2>4, <2>5, <2>6, <2>7 DEF EngineFault
<1>4. CASE UNCHANGED vars
  BY <1>4 DEF vars
<1> QED
  BY <1>1, <1>2, <1>3, <1>4 DEF Next

\* Every variable keeps its type through all runs, faults and retries.
THEOREM TypeCorrect == Spec => []TypeOK
<1>1. Init => TInv
  BY EngineAssumption DEF Init, TInv, TypeOK
<1>2. TInv => TypeOK
  BY DEF TInv
<1> QED
  BY <1>1, <1>2, TypeStep, PTL DEF Spec

-----------------------------------------------------------------------------
(* What each statement the server executes does to Book and Stock, whether   *)
(* or not the client hears of it.                                            *)

\* Rows a MOVE shifts before its copy is committed stay accounted for.
LEMMA MoveKeeps ==
  ASSUME EInv, pc = "copy", CopyKind[cur] = "move", NEW n \in 0..sel[cur], Move(n),
         UNCHANGED <<journal, swaps, recorded>>
  PROVE  Book' /\ Stock' /\ sel'[cur] = sel[cur] - n /\ src'[cur] = src[cur] - n
         /\ tgt'[cur] = tgt[cur] + n
<1> USE EngineAssumption DEF EInv, TInv, TypeOK, journal, swaps, Copied, HasCopy
<1>1. Book'
  BY DEF Book
<1>2. /\ src'[cur] = src[cur] - n /\ tgt'[cur] = tgt[cur] + n /\ sel'[cur] = sel[cur] - n
      /\ \A f \in File \ {cur} : src'[f] = src[f] /\ tgt'[f] = tgt[f] /\ sel'[f] = sel[f]
  BY DEF Move
<1>3. ~Copied(cur)
  BY DEF Run
<1>4. Stock'
  BY <1>2, <1>3 DEF Stock
<1> QED
  BY <1>1, <1>2, <1>4

\* A committed copy holds what the verification counted.
LEMMA CommitKeeps ==
  ASSUME EInv, pc = "commit",
         tgt' = [tgt EXCEPT ![cur] = @ + added],
         copyMark' = [copyMark EXCEPT ![cur] = TRUE],
         UNCHANGED <<src, sel, swapMark, swaps, recorded>>
  PROVE  Book' /\ Stock'
<1> USE EngineAssumption DEF EInv, TInv, TypeOK, swaps, Copied, HasCopy
<1>1. Book'
  BY DEF Book
<1>2. \A f \in File \ {cur} : tgt'[f] = tgt[f] /\ (Copied(f)' <=> Copied(f))
  OBVIOUS
<1>3. ~Copied(cur) /\ copyMark'[cur] /\ tgt'[cur] = tgt[cur] + added
  BY DEF Run
<1>4. CopyKind[cur] = "insert" =>
        tgt'[cur] = Selects[cur] /\ Selects[cur] >= Rows[cur]
  BY <1>3 DEF Pending, Stock, Verified, Counted
<1>5. CopyKind[cur] = "move" => tgt'[cur] = Selects[cur]
  BY <1>3 DEF Pending, Stock
<1>6. Stock'
  BY <1>2, <1>3, <1>4, <1>5 DEF Stock
<1> QED
  BY <1>1, <1>6

\* A swap statement runs after the copy, in file order.
LEMMA ExecuteKeeps ==
  ASSUME EInv, pc = "swap", NEW i \in todo, NextSwap(i), Execute(i),
         UNCHANGED <<journal, recorded>>
  PROVE  Book' /\ Stock' /\ ran'[cur] = ran[cur] \cup {i}
<1> USE EngineAssumption DEF EInv, TInv, TypeOK, journal, Copied, HasCopy
<1>1. PICK n \in 0..NSwap[cur] :
        i \in 1..NSwap[cur] /\ ran[cur] = 1..n
        /\ (i \in 1..n \/ (i = n + 1 /\ (ran[cur] \cup {i}) = 1..i))
  BY NextExtends
<1>2. /\ ran'[cur] = ran[cur] \cup {i} /\ reran'[cur] \subseteq ran'[cur]
      /\ \A f \in File \ {cur} : ran'[f] = ran[f] /\ reran'[f] = reran[f]
  BY DEF Execute, Book
<1>3. \E m \in 0..NSwap[cur] : ran'[cur] = 1..m
  <2>1. CASE i \in 1..n
    <3>1. ran'[cur] = 1..n
      BY <1>1, <1>2, <2>1
    <3> QED
      BY <3>1
  <2>2. CASE i = n + 1 /\ (ran[cur] \cup {i}) = 1..i
    <3>1. i \in 0..NSwap[cur]
      BY <1>1
    <3> QED
      BY <1>2, <2>2, <3>1
  <2> QED
    BY <1>1, <2>1, <2>2
<1>4. cur \notin recorded /\ (HasCopy(cur) => Copied(cur))
  BY DEF Run
<1>5. Book'
  BY <1>2, <1>3, <1>4 DEF Book
<1>6. /\ tgt' = tgt
      /\ \A f \in File \ {cur} : src'[f] = src[f] /\ sel'[f] = sel[f]
  BY DEF Execute, data
<1>7. Stock'
  BY <1>4, <1>6 DEF Stock
<1> QED
  BY <1>2, <1>5, <1>7

\* A marker is written for a statement that took effect.
LEMMA MarkKeeps ==
  ASSUME EInv, pc = "mark", NEW i \in todo, NextSwap(i),
         swapMark' = [swapMark EXCEPT ![cur] = @ \cup {i}],
         UNCHANGED <<data, copyMark, swaps, recorded>>
  PROVE  Book' /\ Stock' /\ i \in ran[cur]
<1> USE EngineAssumption DEF EInv, TInv, TypeOK, data, swaps, Copied, HasCopy
<1>1. i \in ran[cur]
  BY DEF Run
<1>2. Book'
  BY <1>1 DEF Book
<1>3. Stock'
  BY DEF Stock
<1> QED
  BY <1>1, <1>2, <1>3

\* Nothing is left to do when the registry row is written.
LEMMA RecordKeeps ==
  ASSUME EInv, pc = "swap", todo = {}, recorded' = recorded \cup {cur},
         UNCHANGED <<data, journal, swaps>>
  PROVE  Book' /\ Stock'
<1> USE EngineAssumption DEF EInv, TInv, TypeOK, data, journal, swaps, Copied, HasCopy
<1>1. ran[cur] = Swaps(cur) /\ (HasCopy(cur) => Copied(cur))
  <2>1. Swaps(cur) \subseteq ran[cur]
    BY DEF Run
  <2>2. ran[cur] \subseteq Swaps(cur)
    BY DEF Book, Swaps
  <2> QED
    BY <2>1, <2>2 DEF Run
<1>2. \A f \in File : HasCopy(f) => (Copied(f)' <=> Copied(f))
  BY <1>1
<1>3. Book'
  BY <1>1, <1>2 DEF Book, Swaps
<1>4. Stock'
  BY <1>2 DEF Stock
<1> QED
  BY <1>3, <1>4

\* The registry row stands in for the journal rows that are removed.
LEMMA ClearKeeps ==
  ASSUME EInv, pc = "clear",
         copyMark' = [copyMark EXCEPT ![cur] = FALSE],
         swapMark' = [swapMark EXCEPT ![cur] = {}],
         UNCHANGED <<data, swaps, recorded>>
  PROVE  Book' /\ Stock'
<1> USE EngineAssumption DEF EInv, TInv, TypeOK, data, swaps, Copied, HasCopy
<1>1. cur \in recorded
  BY DEF Run
<1>2. \A f \in File : Copied(f)' <=> Copied(f)
  BY <1>1
<1>3. Book'
  BY <1>2 DEF Book, Swaps
<1>4. Stock'
  BY <1>2 DEF Stock
<1> QED
  BY <1>3, <1>4

-----------------------------------------------------------------------------
\* apply_override picks up where the journal says an earlier run stopped.
LEMMA CallStep ==
  ASSUME EInv, NEW f \in File, SyncCall(f)
  PROVE  Book' /\ Run' /\ Stock' /\ Pending'
<1> USE EngineAssumption DEF EInv, TInv, TypeOK, SyncCall, Call, data, journal,
        swaps, Copied, HasCopy
<1>1. Book'
  BY DEF Book
<1>2. Stock'
  BY DEF Stock
<1>3. Pending'
  BY DEF Pending
<1>4. CopyKind[f] # "none" /\ ~copyMark[f] => ran[f] = {}
  BY DEF Book
<1>5. Swaps(f) \ (Swaps(f) \ swapMark[f]) \subseteq ran[f]
  BY DEF Book
<1>6. cur' = f /\ f \notin recorded' /\ todo' = Swaps(f) \ swapMark'[f]
      /\ pc' \in {"swap", "begin"}
  OBVIOUS
<1>7. Run'
  BY <1>4, <1>5, <1>6 DEF Run
<1> QED
  BY <1>1, <1>2, <1>3, <1>7

\* The copy phase: what is counted, copied and verified before the commit.
LEMMA CopyStep ==
  ASSUME EInv, BeginCopy \/ RunCopy \/ Verify \/ RejectCopy \/ CommitCopy
  PROVE  Book' /\ Run' /\ Stock' /\ Pending'
<1> USE EngineAssumption DEF EInv, TInv, TypeOK, swaps, Copied, HasCopy
<1>1. CASE BeginCopy
  <2> USE <1>1 DEF BeginCopy, data, journal
  <2>1. Book' /\ Stock'
    BY DEF Book, Stock
  <2>2. Run'
    BY DEF Run
  <2>3. Pending'
    BY DEF Pending, Run, Stock
  <2> QED
    BY <2>1, <2>2, <2>3
<1>2. CASE RunCopy
  <2> USE <1>2 DEF RunCopy
  <2>1. Run'
    BY DEF Run, journal
  <2>2. CASE CopyKind[cur] = "insert" /\ added' = sel[cur] /\ UNCHANGED data
    <3> USE <2>2 DEF data, journal
    <3>1. Book' /\ Stock'
      BY DEF Book, Stock
    <3>2. ~Copied(cur)
      BY DEF Run
    <3>3. Pending'
      BY <3>2 DEF Pending, Stock
    <3> QED
      BY <2>1, <3>1, <3>3
  <2>3. CASE CopyKind[cur] = "move" /\ Move(sel[cur]) /\ UNCHANGED added
    <3>1. sel[cur] \in 0..sel[cur]
      OBVIOUS
    <3>2. Book' /\ Stock' /\ sel'[cur] = sel[cur] - sel[cur]
      BY <2>3, <3>1, MoveKeeps
    <3>3. cur' = cur /\ added' = added /\ pc' = "verify" /\ added = 0
      BY <2>3 DEF Pending
    <3>4. Pending'
      BY <2>3, <3>2, <3>3 DEF Pending
    <3> QED
      BY <2>1, <3>2, <3>4
  <2> QED
    BY <2>2, <2>3
<1>3. CASE Verify \/ RejectCopy
  <2> USE <1>3 DEF Verify, RejectCopy, data, journal, client, Verified, Counted
  <2>1. Book' /\ Stock'
    BY DEF Book, Stock
  <2>2. Run'
    BY DEF Run, Swaps
  <2>3. Pending'
    BY DEF Pending
  <2> QED
    BY <2>1, <2>2, <2>3
<1>4. CASE CommitCopy
  <2> USE <1>4 DEF CommitCopy, client
  <2>1. Book' /\ Stock'
    BY CommitKeeps
  <2>2. Run'
    BY DEF Run, Swaps
  <2>3. Pending'
    BY DEF Pending
  <2> QED
    BY <2>1, <2>2, <2>3
<1> QED
  BY <1>1, <1>2, <1>3, <1>4

\* The swap loop, the registry row and the clean-up.
LEMMA SwapStep ==
  ASSUME EInv,
         \/ \E i \in todo : ExecSwap(i) \/ SwapError(i) \/ MarkSwap(i)
         \/ Record \/ Clear
  PROVE  Book' /\ Run' /\ Stock' /\ Pending'
<1> USE EngineAssumption DEF EInv, TInv, TypeOK, Copied, HasCopy, client
<1>1. ASSUME NEW i \in todo, ExecSwap(i)
      PROVE  Book' /\ Run' /\ Stock' /\ Pending'
  <2> USE <1>1 DEF ExecSwap, journal
  <2>1. Book' /\ Stock' /\ ran'[cur] = ran[cur] \cup {i}
    BY ExecuteKeeps
  <2>2. \A j \in todo : NextSwap(j) => j = i
    BY DEF NextSwap
  <2>3. Run'
    BY <2>1, <2>2 DEF Run, Swaps, NextSwap
  <2>4. Pending'
    BY DEF Pending
  <2> QED
    BY <2>1, <2>3, <2>4
<1>2. ASSUME NEW i \in todo, MarkSwap(i)
      PROVE  Book' /\ Run' /\ Stock' /\ Pending'
  <2> USE <1>2 DEF MarkSwap
  <2>1. Book' /\ Stock' /\ i \in ran[cur]
    BY MarkKeeps
  <2>2. Run'
    BY <2>1 DEF Run, Swaps, swaps
  <2>3. Pending'
    BY DEF Pending
  <2> QED
    BY <2>1, <2>2, <2>3
<1>3. CASE Record
  <2> USE <1>3 DEF Record
  <2>1. Book' /\ Stock'
    BY RecordKeeps
  <2>2. Run' /\ Pending'
    BY DEF Run, Pending
  <2> QED
    BY <2>1, <2>2
<1>4. CASE Clear
  <2> USE <1>4 DEF Clear
  <2>1. Book' /\ Stock'
    BY ClearKeeps
  <2>2. Run' /\ Pending'
    BY DEF Run, Pending
  <2> QED
    BY <2>1, <2>2
<1>5. ASSUME NEW i \in todo, SwapError(i)
      PROVE  Book' /\ Run' /\ Stock' /\ Pending'
  BY <1>5 DEF SwapError, data, journal, swaps, Book, Run, Stock, Pending
<1> QED
  BY <1>1, <1>2, <1>3, <1>4, <1>5

\* A fault leaves what its statement leaves, and no run.
LEMMA FaultStep ==
  ASSUME EInv, EngineFault
  PROVE  Book' /\ Run' /\ Stock' /\ Pending'
<1> USE EngineAssumption DEF EInv, TInv, TypeOK
<1>1. EndRun => Run' /\ Pending'
  BY DEF EndRun, Run, Pending
<1>2. CASE Fail
  BY <1>1, <1>2 DEF Fail, data, journal, swaps, Book, Stock, Copied, HasCopy
<1>3. CASE PartialMove
  BY <1>1, <1>3, MoveKeeps DEF PartialMove
<1>4. CASE LostCommit
  BY <1>1, <1>4, CommitKeeps DEF LostCommit
<1>5. ASSUME NEW i \in todo, LostSwap(i)
      PROVE  Book' /\ Run' /\ Stock' /\ Pending'
  BY <1>1, <1>5, ExecuteKeeps DEF LostSwap
<1>6. ASSUME NEW i \in todo, LostMark(i)
      PROVE  Book' /\ Run' /\ Stock' /\ Pending'
  BY <1>1, <1>6, MarkKeeps DEF LostMark
<1>7. CASE LostRecord
  BY <1>1, <1>7, RecordKeeps DEF LostRecord
<1>8. CASE LostClear
  BY <1>1, <1>8, ClearKeeps DEF LostClear
<1> QED
  BY <1>2, <1>3, <1>4, <1>5, <1>6, <1>7, <1>8 DEF EngineFault

-----------------------------------------------------------------------------
LEMMA InvInit == Init => EInv
<1> SUFFICES ASSUME Init PROVE EInv
  OBVIOUS
<1> USE EngineAssumption DEF Init
<1>1. TInv
  BY DEF TInv, TypeOK
<1>2. 1..0 = {}
  OBVIOUS
<1>3. Book
  <2>1. \A f \in File : NSwap[f] \in Nat
    OBVIOUS
  <2>2. \A f \in File : ran[f] = {} /\ reran[f] = {} /\ swapMark[f] = {}
    OBVIOUS
  <2>3. \A f \in File : \E n \in 0..NSwap[f] : ran[f] = 1..n
    <3> SUFFICES ASSUME NEW f \in File
                 PROVE  0 \in 0..NSwap[f] /\ ran[f] = 1..0
      OBVIOUS
    <3> QED
      BY <1>2, <2>1, <2>2
  <2> QED
    BY <2>2, <2>3 DEF Book
<1>4. Run /\ Stock /\ Pending
  BY DEF Run, Stock, Pending, Copied
<1> QED
  BY <1>1, <1>3, <1>4 DEF EInv

LEMMA InvStep == EInv /\ [Next]_vars => EInv'
<1> SUFFICES ASSUME EInv, [Next]_vars PROVE EInv'
  OBVIOUS
<1>1. TInv'
  BY TypeStep DEF EInv
<1>2. CASE EngineStep
  BY <1>1, <1>2, CopyStep, SwapStep DEF EngineStep, EInv
<1>3. CASE EngineFault
  BY <1>1, <1>3, FaultStep DEF EInv
<1>4. ASSUME NEW f \in File, SyncCall(f) PROVE EInv'
  BY <1>1, <1>4, CallStep DEF EInv
<1>5. CASE UNCHANGED vars
  BY <1>5 DEF vars, data, journal, swaps, client, EInv, TInv, TypeOK, Book, Run,
     Stock, Pending, Copied, HasCopy, Swaps, NextSwap, Verified, Counted
<1> QED
  BY <1>2, <1>3, <1>4, <1>5 DEF Next

LEMMA Invariant == Spec => []EInv
  BY InvInit, InvStep, PTL DEF Spec

-----------------------------------------------------------------------------
\* No retry copies a row twice, however often and wherever runs fail.
THEOREM CopiedOnce == Spec => []NoRowTwice
<1>1. EInv => NoRowTwice
  <2> SUFFICES ASSUME EInv, NEW f \in File, HasCopy(f) PROVE tgt[f] <= Rows[f]
    BY DEF NoRowTwice
  <2> USE EngineAssumption DEF EInv, TInv, TypeOK
  <2>1. CASE CopyKind[f] = "insert"
    BY <2>1 DEF Stock
  <2>2. CASE CopyKind[f] = "move"
    BY <2>2 DEF Stock
  <2> QED
    BY <2>1, <2>2 DEF HasCopy
<1> QED
  BY <1>1, Invariant, PTL

\* If every MOVE selects its whole source, no row is lost: a source is dropped
\* only after all its rows were committed to the target.
THEOREM NothingLost ==
  ASSUME FullMoves
  PROVE  Spec => []NoRowLost
<1>1. EInv => NoRowLost
  <2> SUFFICES ASSUME EInv, NEW f \in File
               PROVE  /\ CopyKind[f] = "insert" => src[f] = Rows[f] \/ tgt[f] >= Rows[f]
                      /\ CopyKind[f] = "move" => src[f] + tgt[f] >= Rows[f]
    BY DEF NoRowLost
  <2> USE EngineAssumption DEF EInv, TInv, TypeOK
  <2>1. CASE CopyKind[f] = "insert"
    BY <2>1 DEF Stock
  <2>2. CASE CopyKind[f] = "move"
    BY <2>2 DEF Stock, FullMoves
  <2> QED
    BY <2>1, <2>2
<1> QED
  BY <1>1, Invariant, PTL

\* The registry never lists an override that is not completely done.
THEOREM RecordIsTrue == Spec => []RecordedMeansDone
<1>1. EInv => RecordedMeansDone
  <2> SUFFICES ASSUME EInv, NEW f \in recorded
               PROVE  ran[f] = Swaps(f) /\ (HasCopy(f) => tgt[f] >= Selects[f])
    BY DEF RecordedMeansDone
  <2> USE EngineAssumption DEF EInv, TInv, TypeOK
  <2>1. ran[f] = Swaps(f)
    BY DEF Book
  <2>2. Copied(f) /\ (HasCopy(f) => CopyKind[f] \in {"insert", "move"})
    BY DEF Copied, HasCopy
  <2>3. HasCopy(f) => tgt[f] = Selects[f]
    BY <2>2 DEF Stock
  <2> QED
    BY <2>1, <2>3
<1> QED
  BY <1>1, Invariant, PTL

\* A statement whose marker was written, or whose override is recorded, is never
\* executed again.
THEOREM NeverRepeated == Spec => MarkedSwapNotRepeated
<1> DEFINE A == \A f \in File : \A i \in reran'[f] \ reran[f] :
                  i \notin swapMark[f] /\ f \notin recorded
<1>1. EInv /\ [Next]_vars => [A]_<<swaps, swapMark, recorded>>
  <2> SUFFICES ASSUME EInv, [Next]_vars PROVE A \/ UNCHANGED reran
    BY DEF swaps, EInv, TInv, TypeOK
  <2> USE DEF EInv, TInv, TypeOK
  <2>1. ASSUME pc = "swap", NEW i \in todo, Execute(i) PROVE A
    <3>1. i \notin swapMark[cur] /\ cur \notin recorded
      BY <2>1 DEF Run
    <3>2. /\ reran'[cur] \ reran[cur] \subseteq {i}
          /\ \A f \in File \ {cur} : reran'[f] = reran[f]
      BY <2>1 DEF Execute
    <3> QED
      BY <3>1, <3>2
  <2>2. (\E i \in todo : ExecSwap(i) \/ LostSwap(i)) => A
    BY <2>1 DEF ExecSwap, LostSwap
  <2>3. \/ \E i \in todo : ExecSwap(i) \/ LostSwap(i)
        \/ UNCHANGED reran
    BY DEF Next, vars, swaps, EngineStep, BeginCopy, RunCopy, Verify, RejectCopy,
       CommitCopy, SwapError, MarkSwap, Record, Clear, EngineFault,
       Fail, PartialMove, LostCommit, LostMark, LostRecord, LostClear, SyncCall,
       Call
  <2> QED
    BY <2>2, <2>3
<1> QED
  BY <1>1, Invariant, PTL DEF Spec, MarkedSwapNotRepeated

-----------------------------------------------------------------------------
(* The engine implements OverrideContract. *)

LEMMA ContractInit == Init => Contract!Init
  BY DEF Init, Contract!Init, Copied

\* A committed copy is the contract's.
LEMMA CommitSimulates ==
  ASSUME EInv, pc = "commit", copyMark' = [copyMark EXCEPT ![cur] = TRUE],
         UNCHANGED <<swaps, recorded>>
  PROVE  Contract!CommitCopy(cur)
<1> USE DEF EInv, TInv, TypeOK, HasCopy, Copied, swaps
<1>1. HasCopy(cur) /\ ~copyMark[cur] /\ ran[cur] = {} /\ cur \notin recorded
  BY DEF Run
<1>2. {f \in File : HasCopy(f) /\ Copied(f)}' =
        {f \in File : HasCopy(f) /\ Copied(f)} \cup {cur}
  BY <1>1
<1> QED
  BY <1>1, <1>2 DEF Contract!CommitCopy

\* An executed swap statement is the contract's next one, or one that already
\* took effect: the contract does not see the second time.
LEMMA ExecuteSimulates ==
  ASSUME EInv, pc = "swap", NEW i \in todo, NextSwap(i), Execute(i),
         UNCHANGED <<journal, recorded>>
  PROVE  Contract!RunSwap(cur) \/ UNCHANGED Contract!vars
<1> USE DEF EInv, TInv, TypeOK, journal, HasCopy, Copied
<1>1. PICK n \in 0..NSwap[cur] :
        i \in 1..NSwap[cur] /\ ran[cur] = 1..n
        /\ (i \in 1..n \/ (i = n + 1 /\ (ran[cur] \cup {i}) = 1..i))
  BY NextExtends
<1>2. {f \in File : HasCopy(f) /\ Copied(f)}' = {f \in File : HasCopy(f) /\ Copied(f)}
  OBVIOUS
<1>3. ran' = [ran EXCEPT ![cur] = @ \cup {i}]
  BY DEF Execute
<1>4. CASE i \in 1..n
  <2>1. ran' = ran
    BY <1>1, <1>3, <1>4
  <2> QED
    BY <1>2, <2>1 DEF Contract!vars
<1>5. CASE i = n + 1 /\ (ran[cur] \cup {i}) = 1..i
  <2>1. ran[cur] = 1..(i - 1) /\ ran' = [ran EXCEPT ![cur] = 1..i]
    <3>1. i - 1 = n
      BY <1>5
    <3> QED
      BY <1>1, <1>3, <1>5, <3>1
  <2>2. cur \notin recorded /\ (HasCopy(cur) => Copied(cur))
    BY DEF Run
  <2> QED
    BY <1>1, <1>2, <2>1, <2>2 DEF Contract!RunSwap
<1> QED
  BY <1>1, <1>4, <1>5

\* The registry row is the contract's Apply.
LEMMA RecordSimulates ==
  ASSUME EInv, pc = "swap", todo = {}, recorded' = recorded \cup {cur},
         UNCHANGED <<data, journal, swaps>>
  PROVE  Contract!Apply(cur)
<1> USE DEF EInv, TInv, TypeOK, journal, swaps, HasCopy, Copied
<1>1. cur \notin recorded /\ (HasCopy(cur) => copyMark[cur]) /\ Swaps(cur) \subseteq ran[cur]
  BY DEF Run
<1>2. ran[cur] = 1..NSwap[cur]
  <2>1. ran[cur] \subseteq Swaps(cur)
    BY EngineAssumption DEF Book, Swaps
  <2> QED
    BY <1>1, <2>1 DEF Swaps
<1>3. {f \in File : HasCopy(f) /\ Copied(f)}' = {f \in File : HasCopy(f) /\ Copied(f)}
  BY <1>1
<1> QED
  BY <1>1, <1>2, <1>3 DEF Contract!Apply

\* Removing the journal rows of a recorded override changes nothing it promises.
LEMMA ClearSimulates ==
  ASSUME EInv, pc = "clear", copyMark' = [copyMark EXCEPT ![cur] = FALSE],
         UNCHANGED <<swaps, recorded>>
  PROVE  UNCHANGED Contract!vars
<1> USE DEF EInv, TInv, TypeOK, swaps, HasCopy, Copied
<1>1. cur \in recorded
  BY DEF Run
<1>2. {f \in File : HasCopy(f) /\ Copied(f)}' = {f \in File : HasCopy(f) /\ Copied(f)}
  BY <1>1
<1> QED
  BY <1>2 DEF Contract!vars

LEMMA ContractStep == EInv /\ [Next]_vars => [Contract!Next]_(Contract!vars)
<1> SUFFICES ASSUME EInv, [Next]_vars PROVE Contract!Next \/ UNCHANGED Contract!vars
  OBVIOUS
<1>0. cur \in File
  BY DEF EInv, TInv, TypeOK
<1>1. (copyMark' = copyMark /\ ran' = ran /\ recorded' = recorded) => UNCHANGED Contract!vars
  BY DEF Contract!vars, Copied
<1>2. CASE CommitCopy \/ LostCommit
  BY <1>0, <1>2, CommitSimulates DEF CommitCopy, LostCommit, Contract!Next
<1>3. ASSUME NEW i \in todo, ExecSwap(i) \/ LostSwap(i)
      PROVE  Contract!Next \/ UNCHANGED Contract!vars
  BY <1>0, <1>3, ExecuteSimulates DEF ExecSwap, LostSwap, Contract!Next
<1>4. CASE Record \/ LostRecord
  BY <1>0, <1>4, RecordSimulates DEF Record, LostRecord, Contract!Next
<1>5. CASE Clear \/ LostClear
  BY <1>5, ClearSimulates DEF Clear, LostClear
<1>6. \/ CommitCopy \/ LostCommit \/ Record \/ LostRecord \/ Clear \/ LostClear
      \/ \E i \in todo : ExecSwap(i) \/ LostSwap(i)
      \/ copyMark' = copyMark /\ ran' = ran /\ recorded' = recorded
  BY DEF Next, vars, journal, swaps, EngineStep, BeginCopy, RunCopy, Verify,
     RejectCopy, SwapError, MarkSwap, EngineFault, Fail, PartialMove,
     LostMark, SyncCall, Call
<1> QED
  BY <1>1, <1>2, <1>3, <1>4, <1>5, <1>6

\* With any failures, lost replies and crashes, and any number of retries, the
\* engine copies each override once, runs its destructive statements in order
\* after the copy, and records it last.
THEOREM KeepsContract == Spec => ContractSpec
<1>1. Contract!Spec <=> Contract!Init /\ [][Contract!Next]_(Contract!vars)
  BY DEF Contract!Spec
<1> QED
  BY <1>1, ContractInit, ContractStep, Invariant, PTL DEF ContractSpec, Spec

-----------------------------------------------------------------------------
(* Rollouts *)

\* The rollouts have checksums, and those that were applied to the end are done.
Written ==
  /\ release \in Nat
  /\ \E S : rollouts \in Seq(S)
  /\ \A r \in DOMAIN rollouts : rollouts[r].sum # 0
  /\ completed \subseteq DOMAIN rollouts
  /\ \A r \in completed : Done(r)

\* The checksum of the snapshot is the one of a rollout that is done.
LastInv == last # 0 => \E q \in DOMAIN rollouts : rollouts[q].sum = last /\ Done(q)

\* How far the apply has come: what is no longer left is recorded, and the stages
\* after the overrides begin when nothing is left.
Applying ==
  /\ pc # "idle" => at # 0 /\ stage = "overrides" /\ cur \in left
  /\ pc = "clear" => cur \in recorded
  /\ at # 0 =>
       /\ at \in DOMAIN rollouts
       /\ rollouts[at].files \subseteq left \cup recorded
       /\ stage \in {"overrides", "diff", "snapshot", "revision"}
       /\ stage # "overrides" => left = {}
       /\ stage \in {"snapshot", "revision"} => (rollouts[at].diff => at \in diffed)

AInv == Written /\ LastInv /\ Applying

\* What is done stays done: records and diffs are never taken back, and the rollouts
\* that are written stay as they are.
LEMMA DoneStays ==
  ASSUME NEW r \in DOMAIN rollouts, Done(r), recorded \subseteq recorded', diffed \subseteq diffed',
         rollouts'[r] = rollouts[r]
  PROVE  Done(r)'
BY DEF Done

\* A file that is written leaves the others as they are.
LEMMA WriteStep == ASSUME AInv, Write PROVE AInv'
<1> USE DEF AInv
<1> DEFINE v == release + 1
           rollout == [sum |-> Sum[v], files |-> Dir[v] \ recorded, diff |-> Sum[v] # last]
<1>1. v \in DOMAIN Dir /\ release' = v /\ Sum[v] # 0
  BY RolloutAssumption DEF Write, Written
<1>2. /\ UNCHANGED <<vars, outcome, apply>>
      /\ rollouts' = rollouts \/ rollouts' = Append(rollouts, rollout)
  BY DEF Write
<1>3. UNCHANGED <<recorded, pc, cur, at, stage, left, diffed, last, completed>>
  BY <1>2 DEF vars, client, outcome, apply
<1>4. /\ \E S : rollouts' \in Seq(S)
      /\ DOMAIN rollouts \subseteq DOMAIN rollouts'
      /\ \A r \in DOMAIN rollouts : rollouts'[r] = rollouts[r]
      /\ \A r \in DOMAIN rollouts' : rollouts'[r].sum # 0
  <2>1. CASE rollouts' = rollouts
    BY <2>1 DEF Written
  <2>2. CASE rollouts' = Append(rollouts, rollout)
    <3>1. PICK S : rollouts \in Seq(S)
      BY DEF Written
    <3>2. rollout.sum # 0
      BY <1>1
    <3> HIDE DEF rollout
    <3>3. rollouts \in Seq(S \cup {rollout})
      BY <3>1
    <3>4. /\ rollouts' \in Seq(S \cup {rollout})
          /\ DOMAIN rollouts' = DOMAIN rollouts \cup {Len(rollouts) + 1}
          /\ \A r \in DOMAIN rollouts : rollouts'[r] = rollouts[r]
          /\ rollouts'[Len(rollouts) + 1] = rollout
      BY <2>2, <3>1, <3>3
    <3> QED
      BY <3>2, <3>4 DEF Written
  <2> QED
    BY <1>2, <2>1, <2>2
<1>5. \A r \in DOMAIN rollouts : Done(r) => Done(r)'
  BY <1>3, <1>4, DoneStays
<1>6. Written'
  <2>1. release' \in Nat
    BY <1>1 DEF Written
  <2> QED
    BY <1>3, <1>4, <1>5, <2>1 DEF Written
<1>7. LastInv'
  BY <1>3, <1>4, <1>5 DEF LastInv
<1>8. Applying'
  BY <1>3, <1>4 DEF Applying
<1> QED
  BY <1>6, <1>7, <1>8

\* The engine keeps to one section, and never takes back a record.
LEMMA CallsStep ==
  ASSUME AInv, CallEngine \/ EngineGoesOn \/ EngineReturns \/ EngineFails PROVE AInv'
<1> USE DEF AInv
<1>1. UNCHANGED <<files, outcome, stage>>
  BY DEF CallEngine, EngineGoesOn, EngineReturns, EngineFails, apply
<1>2. UNCHANGED <<release, rollouts, diffed, last, completed>>
  BY <1>1 DEF files, outcome
<1>3. recorded \subseteq recorded'
  BY DEF CallEngine, Call, EngineGoesOn, EngineStep, BeginCopy, RunCopy, Verify, RejectCopy,
    CommitCopy, ExecSwap, SwapError, MarkSwap, Record, Clear, EngineReturns, LostClear, Fail,
    EngineFails, RecordError, EngineFault, PartialMove, LostCommit, LostSwap, LostMark, LostRecord
<1>4. Written' /\ LastInv'
  <2>1. \A r \in DOMAIN rollouts : Done(r) => Done(r)'
    BY <1>2, <1>3, DoneStays
  <2> QED
    BY <1>2, <2>1 DEF Written, LastInv
<1>5. CASE CallEngine
  <2>1. /\ at # 0 /\ stage = "overrides" /\ UNCHANGED <<at, stage, left, recorded>>
        /\ cur' \in left /\ pc' \in {"swap", "begin"}
    BY <1>5 DEF CallEngine, Call, apply
  <2> QED
    BY <1>2, <1>4, <2>1 DEF Applying
<1>6. CASE EngineGoesOn
  <2>1. /\ at # 0 /\ pc # "idle" /\ UNCHANGED <<at, stage, left, cur>>
        /\ pc' = "clear" => cur \in recorded'
    BY <1>6 DEF EngineGoesOn, apply, EngineStep, BeginCopy, RunCopy, Verify, RejectCopy,
      CommitCopy, ExecSwap, SwapError, MarkSwap, Record, Clear, client
  <2> QED
    BY <1>2, <1>3, <1>4, <2>1 DEF Applying
<1>7. CASE EngineReturns
  <2>1. /\ at # 0 /\ pc = "clear" /\ pc' = "idle" /\ left' = left \ {cur}
        /\ UNCHANGED <<at, stage>>
    BY <1>7 DEF EngineReturns, Clear, LostClear, Fail, EndRun
  <2> QED
    BY <1>2, <1>3, <1>4, <2>1 DEF Applying
<1>8. CASE EngineFails
  <2>1. at' = 0 /\ pc' = "idle"
    BY <1>8 DEF EngineFails, RejectCopy, SwapError, RecordError, EngineFault, Fail, PartialMove,
      LostCommit, LostSwap, LostMark, LostRecord, LostClear, EndRun
  <2> QED
    BY <1>4, <2>1 DEF Applying
<1> QED
  BY <1>5, <1>6, <1>7, <1>8

\* The stages around the engine.
LEMMA StageStep ==
  ASSUME AInv,
         \/ \E r \in DOMAIN rollouts : Begin(r)
         \/ SectionsDone \/ ExecDiff \/ WriteSnapshot \/ RecordRevision \/ Abort
  PROVE  AInv'
<1> USE DEF AInv
<1>1. UNCHANGED <<release, rollouts, recorded, cur>> /\ pc' = pc /\ pc = "idle"
  BY DEF Begin, SectionsDone, ExecDiff, WriteSnapshot, RecordRevision, Abort, vars, files,
    client, Applying
<1>2. diffed \subseteq diffed' /\ \A r \in DOMAIN rollouts : Done(r) => Done(r)'
  <2>1. diffed \subseteq diffed'
    BY DEF Begin, SectionsDone, ExecDiff, WriteSnapshot, RecordRevision, Abort, outcome
  <2> QED
    BY <1>1, <2>1, DoneStays
<1>3. UNCHANGED <<last, completed>> => Written' /\ LastInv'
  BY <1>1, <1>2 DEF Written, LastInv
<1>4. ASSUME NEW r \in DOMAIN rollouts, Begin(r) PROVE AInv'
  <2>1. /\ at' = r /\ stage' = "overrides" /\ left' = rollouts[r].files
        /\ UNCHANGED <<diffed, last, completed>>
    BY <1>4 DEF Begin, outcome
  <2> QED
    BY <1>1, <1>3, <2>1 DEF Applying
<1>5. CASE SectionsDone \/ Abort
  <2>1. /\ UNCHANGED <<diffed, last, completed>>
        /\ \/ at' = 0
           \/ /\ at' = at /\ at # 0 /\ left' = left /\ left = {}
              /\ stage' = IF rollouts[at].diff THEN "diff" ELSE "snapshot"
    BY <1>5 DEF SectionsDone, Abort, outcome
  <2> QED
    BY <1>1, <1>3, <2>1 DEF Applying
<1>6. CASE ExecDiff
  <2>1. /\ diffed' = diffed \cup {at} /\ stage' = "snapshot" /\ stage = "diff" /\ at # 0
        /\ UNCHANGED <<last, completed, at, left>>
    BY <1>6 DEF ExecDiff
  <2> QED
    BY <1>1, <1>3, <2>1 DEF Applying
<1>7. CASE WriteSnapshot
  <2>1. /\ last' = rollouts[at].sum /\ stage' = "revision" /\ stage = "snapshot" /\ at # 0
        /\ UNCHANGED <<diffed, completed, at, left>>
    BY <1>7 DEF WriteSnapshot
  <2>2. at \in DOMAIN rollouts /\ Done(at)
    BY <2>1 DEF Applying, Done
  <2>3. LastInv'
    BY <1>1, <1>2, <2>1, <2>2 DEF LastInv
  <2>4. Written' /\ Applying'
    BY <1>1, <1>2, <2>1 DEF Written, Applying
  <2> QED
    BY <2>3, <2>4
<1>8. CASE RecordRevision
  <2>1. /\ completed' = completed \cup {at} /\ at' = 0 /\ stage = "revision" /\ at # 0
        /\ UNCHANGED <<diffed, last, stage, left>>
    BY <1>8 DEF RecordRevision
  <2>2. at \in DOMAIN rollouts /\ Done(at)
    BY <2>1 DEF Applying, Done
  <2> QED
    BY <1>1, <1>2, <2>1, <2>2 DEF Written, LastInv, Applying
<1> QED
  BY <1>4, <1>5, <1>6, <1>7, <1>8

\* An apply ends well only when all its overrides are recorded and its diff was executed,
\* and the snapshot has the checksum of a rollout for which this is so, whichever attempts
\* did it and whatever failed.  Two releases may have one checksum: then the rollout of
\* the second counts as applied by a snapshot of the first.
THEOREM AppliedIsDone == RSpec => []AppliedSumIsDone
<1>1. RInit => AInv
  <2>1. <<>> \in Seq({}) /\ DOMAIN <<>> = {}
    OBVIOUS
  <2> QED
    BY <2>1 DEF RInit, Init, AInv, Written, LastInv, Applying
<1>2. AInv /\ [RNext]_rvars => AInv'
  <2> SUFFICES ASSUME AInv, [RNext]_rvars PROVE AInv'
    OBVIOUS
  <2>1. CASE UNCHANGED rvars
    BY <2>1 DEF rvars, vars, files, outcome, apply, client, AInv, Written, LastInv, Done, Applying
  <2> QED
    BY <2>1, WriteStep, CallsStep, StageStep DEF RNext, ApplyStep
<1>3. AInv => AppliedSumIsDone
  BY DEF AInv, Written, LastInv, AppliedSumIsDone, Unapplied
<1> QED
  BY <1>1, <1>2, <1>3, PTL DEF RSpec
=============================================================================
