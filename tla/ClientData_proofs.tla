--------------------------- MODULE ClientData_proofs ---------------------------
(***************************************************************************)
(* What the independent parts of the client promise, for any number of     *)
(* clients, retries, keys, seconds, statements and calls, and any faults.  *)
(*                                                                         *)
(* Transactions: the invariant says where an attempt can still take        *)
(* effect.  A commit that nobody waits for belongs to the last attempt of  *)
(* a client that is done with it, and the server keeps no transaction of   *)
(* an attempt that took effect.  That the retries are enough follows from  *)
(* counting: an attempt that conflicts was overtaken by another client.    *)
(*                                                                         *)
(* Cache: what a get answered is judged by the entry it found, so the      *)
(* invariant follows an entry from the client that makes it through the    *)
(* store to the client that reads it.  Wherever it is, its times are       *)
(* numbers no larger than Forever, which the clock does not reach.         *)
(*                                                                         *)
(* Script buffer: a statement that was pushed and is neither executed nor  *)
(* refused is waiting, in the buffer or, when the buffer was taken by a    *)
(* flush, in the script on its way.                                        *)
(*                                                                         *)
(* Values: what a reader accepts of a scalar, arm by arm; and one layer of *)
(* conversion, a field, a container, a record or an enum: it brings its    *)
(* value back when it brings back the values of its parts.                 *)
(*                                                                         *)
(* Records: the invariant says that the row shows a value of every field   *)
(* that is a column, and what a client holds, knew or asked for is of the  *)
(* scenario or was shown by a row.  A write is followed column by column,  *)
(* from the field that owns it to the same field of the row as read.       *)
(*                                                                         *)
(* Drift checks: for every scalar field, the columns the checks accept,    *)
(* and among them those whose values its reader takes.                     *)
(*                                                                         *)
(* Statements: by induction over the calls of a builder, its fragments and *)
(* what the calls mean agree under every map of parameters that has the    *)
(* builder's own, so also under the merged one.                            *)
(***************************************************************************)
EXTENDS ClientTransaction, ClientCache, ScriptBuffer, StatementStore, RecordStore, DtoDrift,
        FiniteSetTheorems, SequenceTheorems, WellFoundedInduction, TLAPS

----------------------------------------------------------------------------
(* Transactions *)

\* The only error after which the effect is open.
Unsure(c) == pc[c] \in {"rollback", "err"} /\ err[c] = "commit"

\* A client that has an effect was told so, or was not told anything; one that was told
\* so has it, unless its transaction was gone.
EffectIsKnown ==
  \A c \in Caller : /\ effect[c] \in {0, 1}
                    /\ pc[c] = "ok" => effect[c] = IF err[c] = "gone" THEN 0 ELSE 1
                    /\ effect[c] = 1 => pc[c] = "ok" \/ Unsure(c)

\* The transaction of an attempt is one, and gone once it took effect.
OneEach ==
  /\ \A t, u \in open : t.by = u.by /\ t.n = u.n => t = u
  /\ \A t \in open : t.n <= attempt[t.by]
  /\ \A c \in Caller : effect[c] = 1 => Mine(c) = {}

\* Late commits are of the last attempt, which is not repeated.
LateIsLast == \A t \in late : t.n = attempt[t.by] /\ Unsure(t.by)

AttemptLeft == \A c \in Caller : pc[c] = "begin" => attempt[c] <= Retries

NotYetUnsure ==
  \A c \in Caller : pc[c] \in {"begin", "body", "commit"} => err[c] \in {"none", "conflict"}

TInv == TypeOK /\ AttemptLeft
EInv == EffectIsKnown /\ OneEach /\ LateIsLast /\ NotYetUnsure
IInv == TInv /\ EInv

\* Every step leaves the variables in their types, and an attempt to begin.
LEMMA TypeStep == ASSUME TInv, [TxNext]_txVars PROVE TInv'
<1> USE DEF TInv, TypeOK, AttemptLeft, Goto, Error, server
<1>0. TxFault => txFaults' \in 0..MaxTxFaults
  BY TransactionAssumption DEF TxFault
<1>1. ASSUME NEW c \in Caller, Begin(c) \/ BeginFails(c) PROVE TInv'
  <2>1. attempt[c] + 1 \in 0..(Retries + 1)
    BY <1>1, TransactionAssumption DEF Begin, BeginFails
  <2>2. [by |-> c, n |-> attempt[c] + 1, base |-> version] \in Tx
    BY <2>1 DEF Tx
  <2>3. attempt' \in [Caller -> 0..(Retries + 1)] /\ open' \subseteq Tx
    BY <1>1, <2>1, <2>2 DEF Begin, BeginFails
  <2>4. pc' \in [Caller -> {"begin", "body", "commit", "rollback", "ok", "err"}]
    BY <1>1 DEF Begin, BeginFails
  <2>5. err' \in [Caller -> {"none", "conflict", "body", "commit", "gone"}] /\ txFaults' \in 0..MaxTxFaults
    BY <1>0, <1>1 DEF Begin, BeginFails
  <2>6. AttemptLeft'
    BY <1>1 DEF Begin, BeginFails
  <2> QED
    BY <1>1, <2>3, <2>4, <2>5, <2>6 DEF Begin, BeginFails
<1>2. ASSUME NEW c \in Caller, WriteInTx(c) \/ WriteConflict(c) \/ BodyFails(c) PROVE TInv'
  BY <1>0, <1>2 DEF WriteInTx, WriteConflict, BodyFails
<1>3. ASSUME NEW t \in open, Committed(t) PROVE
        version' \in Nat /\ effect' \in [Caller -> Nat] /\ open' \subseteq Tx
  BY <1>3 DEF Committed, Tx
<1>4. ASSUME NEW c \in Caller, Commit(c) \/ CommitNothing(c) PROVE TInv'
  BY <1>3, <1>4 DEF Commit, CommitNothing, Mine
<1>5. ASSUME NEW c \in Caller, CommitConflict(c) PROVE TInv'
  BY <1>5 DEF CommitConflict, AfterFailedCommit, Mine
<1>6. ASSUME NEW c \in Caller, CommitFails(c) PROVE TInv'
  <2>1. version' \in Nat /\ effect' \in [Caller -> Nat] /\ open' \subseteq Tx /\ late' \subseteq Tx
    BY <1>3, <1>6 DEF CommitFails, Mine
  <2> QED
    BY <1>0, <1>6, <2>1 DEF CommitFails, AfterFailedCommit
<1>7. ASSUME NEW c \in Caller, Rollback(c) PROVE TInv'
  BY <1>0, <1>7, TransactionAssumption DEF Rollback, AttemptsLeft, Mine
<1>8. ASSUME NEW c \in Caller, Drop(c) PROVE TInv'
  BY <1>8 DEF Drop, Mine
<1>9. ASSUME NEW c \in Caller, Cancel(c) PROVE TInv'
  BY <1>0, <1>9 DEF Cancel, Mine
<1>10. ASSUME NEW t \in open, Reap(t) PROVE TInv'
  BY <1>0, <1>10 DEF Reap
<1>11. ASSUME NEW t \in late, LateCommit(t) PROVE TInv'
  <2>1. version' \in Nat /\ effect' \in [Caller -> Nat] /\ open' \subseteq Tx
    <3>1. CASE Committed(t)
      <4>1. t \in open
        BY <3>1 DEF Committed
      <4> QED
        BY <1>3, <3>1, <4>1
    <3>2. CASE UNCHANGED server
      BY <3>2
    <3> QED
      BY <1>11, <3>1, <3>2 DEF LateCommit
  <2> QED
    BY <1>11, <2>1 DEF LateCommit
<1>12. ASSUME NEW t \in background, BackgroundRollback(t) PROVE TInv'
  BY <1>12 DEF BackgroundRollback
<1>13. CASE UNCHANGED txVars
  BY <1>13 DEF txVars
<1> QED
  BY <1>1, <1>2, <1>4, <1>5, <1>6, <1>7, <1>8, <1>9, <1>10, <1>11, <1>12, <1>13
  DEF TxNext, ClientStep, ClientFault, Finished

\* A step that commits the transaction of the last attempt of a client without effect.
LEMMA CommitStep ==
  ASSUME IInv, NEW c \in Caller, NEW t \in Mine(c), Committed(t), UNCHANGED attempt,
         effect[c] = 0
  PROVE  /\ OneEach' /\ effect'[c] = 1
         /\ \A d \in Caller \ {c} : effect'[d] = effect[d]
<1> USE DEF IInv, TInv, EInv, TypeOK, Tx
<1>1. t \in open /\ t.by = c /\ t.n = attempt[c]
  BY DEF Mine
<1>2. effect'[c] = 1 /\ \A d \in Caller \ {c} : effect'[d] = effect[d]
  BY <1>1 DEF Committed
<1>3. open' = open \ {t}
  BY DEF Committed
<1>4. Mine(c)' = {}
  BY <1>1, <1>3 DEF Mine, OneEach
<1>5. \A d \in Caller : Mine(d)' \subseteq Mine(d)
  BY <1>3 DEF Mine
<1>6. OneEach'
  BY <1>2, <1>3, <1>4, <1>5 DEF OneEach
<1> QED
  BY <1>2, <1>6

\* A step that commits nothing and begins nothing keeps OneEach.
LEMMA OneEachKept ==
  ASSUME OneEach, open' \subseteq open, UNCHANGED <<effect, attempt>>
  PROVE  OneEach'
<1>1. \A c \in Caller : Mine(c)' \subseteq Mine(c)
  BY DEF Mine
<1> QED
  BY <1>1 DEF OneEach

\* A client that begins has no transaction yet that bears the number of its attempt.
LEMMA BeginStep ==
  ASSUME IInv, NEW c \in Caller, Begin(c) \/ BeginFails(c)
  PROVE  EInv'
<1> USE DEF IInv, TInv, EInv, TypeOK, server
<1> DEFINE t == [by |-> c, n |-> attempt[c] + 1, base |-> version]
<1>1. /\ open' \in {open, open \cup {t}} /\ attempt' = [attempt EXCEPT ![c] = @ + 1]
      /\ UNCHANGED <<effect, late>> /\ pc[c] = "begin" /\ pc'[c] \in {"body", "err"}
      /\ \A d \in Caller \ {c} : pc'[d] = pc[d] /\ err'[d] = err[d]
      /\ err'[c] = err[c] \/ (pc'[c] = "err" /\ err'[c] = "body")
      /\ pc'[c] = "err" => err'[c] = "body"
  BY DEF Begin, BeginFails, Goto, Error
<1>2. effect[c] = 0 /\ \A u \in late : u.by # c
  BY <1>1 DEF EffectIsKnown, LateIsLast, Unsure
<1>3. \A u \in open : u.by \in Caller /\ u.n \in Nat /\ attempt[u.by] \in Nat /\ u.n <= attempt[u.by]
  BY DEF OneEach, Tx
<1>4. t.by = c /\ t.n = attempt[c] + 1 /\ attempt[c] \in Nat
  OBVIOUS
<1> HIDE DEF t
<1>5. \A u, v \in open' : u.by = v.by /\ u.n = v.n => u = v
  BY <1>1, <1>3, <1>4 DEF OneEach
<1>6. \A u \in open' : u.n <= attempt'[u.by]
  BY <1>1, <1>3, <1>4
<1>7. \A d \in Caller \ {c} : Mine(d)' \subseteq Mine(d)
  BY <1>1, <1>4 DEF Mine
<1>8. OneEach'
  BY <1>1, <1>2, <1>5, <1>6, <1>7 DEF OneEach
<1>9. LateIsLast'
  BY <1>1, <1>2 DEF LateIsLast, Unsure, Tx
<1>10. EffectIsKnown' /\ NotYetUnsure'
  BY <1>1, <1>2 DEF EffectIsKnown, NotYetUnsure, Unsure
<1> QED
  BY <1>8, <1>9, <1>10

LEMMA ClientKeeps ==
  ASSUME IInv, NEW c \in Caller, ClientStep(c) \/ ClientFault(c)
  PROVE  EInv'
<1> USE DEF IInv, TInv, EInv, TypeOK, server, Goto, Error
<1>1. CASE WriteInTx(c) \/ WriteConflict(c) \/ BodyFails(c) \/ Rollback(c) \/ Drop(c)
  <2>1. OneEach'
    BY <1>1, OneEachKept DEF WriteInTx, WriteConflict, BodyFails, Rollback, Drop
  <2>2. LateIsLast'
    BY <1>1 DEF WriteInTx, WriteConflict, BodyFails, Rollback, Drop, Retryable, LateIsLast, Unsure, Tx
  <2>3. EffectIsKnown' /\ NotYetUnsure'
    BY <1>1 DEF WriteInTx, WriteConflict, BodyFails, Rollback, Drop, Retryable, EffectIsKnown,
                NotYetUnsure, Unsure
  <2> QED
    BY <2>1, <2>2, <2>3
<1>2. CASE CommitConflict(c)
  <2>1. OneEach'
    BY <1>2, OneEachKept DEF CommitConflict
  <2>2. effect[c] = 0 /\ \A u \in late : u.by # c
    BY <1>2 DEF CommitConflict, EffectIsKnown, LateIsLast, Unsure
  <2> QED
    BY <1>2, <2>1, <2>2 DEF CommitConflict, AfterFailedCommit, EffectIsKnown, NotYetUnsure,
                            LateIsLast, Unsure, Tx
<1>3. CASE Commit(c)
  <2>1. effect[c] = 0 /\ \A u \in late : u.by # c
    BY <1>3 DEF Commit, EffectIsKnown, LateIsLast, Unsure
  <2>2. /\ OneEach' /\ effect'[c] = 1
        /\ \A d \in Caller \ {c} : effect'[d] = effect[d]
    BY <1>3, <2>1, CommitStep DEF Commit
  <2> QED
    BY <1>3, <2>1, <2>2 DEF Commit, EffectIsKnown, NotYetUnsure, LateIsLast, Unsure, Tx
<1>4. CASE CommitFails(c) \/ (Cancel(c) /\ pc[c] = "commit")
  <2>1. effect[c] = 0 /\ \A u \in late : u.by # c
    BY <1>4 DEF CommitFails, Cancel, EffectIsKnown, LateIsLast, Unsure
  <2>2. /\ OneEach' /\ effect'[c] \in {0, 1}
        /\ \A d \in Caller \ {c} : effect'[d] = effect[d]
    <3>1. CASE UNCHANGED server
      BY <1>4, <2>1, <3>1, OneEachKept DEF CommitFails, Cancel
    <3>2. CASE \E t \in Mine(c) : Committed(t)
      BY <1>4, <2>1, <3>2, CommitStep DEF CommitFails, Cancel
    <3> QED
      BY <1>4, <3>1, <3>2 DEF CommitFails, Cancel
  <2>3. Unsure(c)' /\ \A d \in Caller \ {c} : pc'[d] = pc[d] /\ err'[d] = err[d]
    BY <1>4 DEF CommitFails, Cancel, AfterFailedCommit, Unsure
  <2>4. late' \subseteq late \cup Mine(c) /\ attempt' = attempt
    BY <1>4 DEF CommitFails, Cancel
  <2>5. LateIsLast'
    BY <2>3, <2>4 DEF LateIsLast, Unsure, Mine, Tx
  <2>6. EffectIsKnown' /\ NotYetUnsure'
    BY <2>2, <2>3 DEF EffectIsKnown, NotYetUnsure, Unsure
  <2> QED
    BY <2>2, <2>5, <2>6
<1>5. CASE CommitNothing(c)
  <2>1. OneEach'
    BY <1>5, OneEachKept DEF CommitNothing
  <2>2. effect[c] = 0 /\ \A u \in late : u.by # c
    BY <1>5 DEF CommitNothing, EffectIsKnown, LateIsLast, Unsure
  <2> QED
    BY <1>5, <2>1, <2>2 DEF CommitNothing, EffectIsKnown, NotYetUnsure, LateIsLast, Unsure, Tx
<1>6. CASE Cancel(c) /\ pc[c] # "commit"
  <2>1. OneEach'
    BY <1>6, OneEachKept DEF Cancel
  <2> QED
    BY <1>6, <2>1 DEF Cancel, EffectIsKnown, NotYetUnsure, LateIsLast, Unsure, Tx
<1> QED
  BY <1>1, <1>2, <1>3, <1>4, <1>5, <1>6, BeginStep DEF ClientStep, ClientFault

LEMMA ServerKeeps ==
  ASSUME IInv, NEW t,
         \/ t \in open /\ Reap(t)
         \/ t \in late /\ LateCommit(t)
         \/ t \in background /\ BackgroundRollback(t)
  PROVE  EInv'
<1> USE DEF IInv, TInv, EInv, TypeOK, server
<1>1. UNCHANGED <<pc, attempt, err>> /\ late' \subseteq late
  BY DEF Reap, LateCommit, BackgroundRollback
<1>2. LateIsLast' /\ NotYetUnsure'
  BY <1>1 DEF LateIsLast, NotYetUnsure, Unsure
<1>3. CASE LateCommit(t) /\ Committed(t)
  <2>1. t \in Tx /\ t.n = attempt[t.by] /\ Unsure(t.by) /\ t \in open
    BY <1>3 DEF LateCommit, LateIsLast, Committed
  <2>2. t.by \in Caller /\ t \in Mine(t.by) /\ effect[t.by] = 0
    BY <2>1 DEF OneEach, EffectIsKnown, Mine, Tx
  <2>3. /\ OneEach' /\ effect'[t.by] = 1
        /\ \A d \in Caller \ {t.by} : effect'[d] = effect[d]
    BY <1>1, <1>3, <2>2, CommitStep
  <2> QED
    BY <1>1, <1>2, <2>1, <2>3 DEF EffectIsKnown, Unsure
<1>4. CASE ~(LateCommit(t) /\ Committed(t))
  <2>1. open' \subseteq open /\ effect' = effect
    BY <1>4 DEF Reap, LateCommit, BackgroundRollback
  <2> QED
    BY <1>1, <1>2, <2>1, OneEachKept DEF EffectIsKnown, Unsure
<1> QED
  BY <1>3, <1>4

LEMMA TransactionInvariant == TxSpec => []IInv
<1>1. TxInit => IInv
  <2> SUFFICES ASSUME TxInit PROVE IInv
    OBVIOUS
  <2>1. 0 \in 0..(Retries + 1) /\ 0 \in 0..MaxTxFaults /\ 0 <= Retries
    BY TransactionAssumption
  <2>2. TInv
    BY <2>1 DEF TxInit, TInv, TypeOK, AttemptLeft
  <2>3. EInv
    BY DEF TxInit, EInv, EffectIsKnown, OneEach, LateIsLast, NotYetUnsure, Unsure, Mine
  <2> QED
    BY <2>2, <2>3 DEF IInv
<1>2. IInv /\ [TxNext]_txVars => IInv'
  <2> SUFFICES ASSUME IInv, [TxNext]_txVars PROVE IInv'
    OBVIOUS
  <2>1. TInv'
    BY TypeStep DEF IInv
  <2>2. CASE UNCHANGED txVars
    <3>1. OneEach'
      BY <2>2, OneEachKept DEF txVars, server, IInv, EInv
    <3>2. UNCHANGED <<effect, late, pc, attempt, err>>
      BY <2>2 DEF txVars, server
    <3>3. EffectIsKnown'
      BY <3>2 DEF IInv, EInv, EffectIsKnown, Unsure
    <3>4. NotYetUnsure'
      BY <3>2 DEF IInv, EInv, NotYetUnsure
    <3>5. LateIsLast'
      BY <3>2 DEF IInv, EInv, LateIsLast, Unsure
    <3> QED
      BY <3>1, <3>3, <3>4, <3>5, <2>1 DEF EInv, IInv
  <2>3. EInv'
    BY <2>2, ClientKeeps, ServerKeeps DEF TxNext, Finished, IInv
  <2> QED
    BY <2>1, <2>3 DEF IInv
<1> QED
  BY <1>1, <1>2, PTL DEF TxSpec

\* However often run_transaction repeats the unit, whatever is lost, late, cancelled
\* or reaped, it takes effect at most once, and exactly once when Ok was returned and
\* the transaction was not gone.
THEOREM EffectOnce == TxSpec => []AtMostOnce
<1>1. IInv => AtMostOnce
  BY DEF IInv, EInv, AtMostOnce, EffectIsKnown
<1> QED
  BY <1>1, TransactionInvariant, PTL

\* An error other than an unanswered commit means that the unit has no effect, and
\* never will have one ("transaction rolled back", transaction.rs).
THEOREM ErrorMeansNothing == TxSpec => []NoEffectOnError
<1>1. IInv => NoEffectOnError
  BY DEF IInv, EInv, NoEffectOnError, EffectIsKnown, Unsure
<1> QED
  BY <1>1, TransactionInvariant, PTL

\* Without faults, version counts the clients whose unit took effect, every attempt
\* began after as many commits as there were attempts before it, and a runner keeps its
\* transaction until it has a conflict or an effect.
Effective == {c \in Caller : effect[c] = 1}

Overtaken ==
  txFaults = 0 =>
    /\ late = {} /\ \A t \in background : t.by \in Guard
    /\ version = Cardinality(Effective)
    /\ \A t \in open : t.n - 1 <= t.base /\ t.base <= version
    /\ \A c \in Caller : pc[c] = "begin" => attempt[c] <= version
    /\ \A c \in Runner :
         /\ pc[c] \in {"body", "commit"} => Mine(c) # {}
         /\ pc[c] = "rollback" => err[c] = "conflict" /\ attempt[c] <= version
         /\ pc[c] = "err" => Retries + 1 < Cardinality(Caller)

\* A client that has no effect yet leaves room for one in version.
LEMMA NotAll ==
  ASSUME NEW c \in Caller, effect[c] # 1
  PROVE  IsFiniteSet(Effective) /\ Cardinality(Effective) < Cardinality(Caller)
<1>1. Effective \in SUBSET Caller /\ Effective # Caller
  BY DEF Effective
<1>2. IsFiniteSet(Caller) /\ Cardinality(Caller) \in Nat
  BY TransactionAssumption, FS_CardinalityType
<1>3. IsFiniteSet(Effective) /\ Cardinality(Effective) \in Nat
  BY <1>1, <1>2, FS_Subset, FS_CardinalityType
<1> QED
  BY <1>1, <1>2, <1>3, FS_Subset

LEMMA OvertakenStep == ASSUME IInv, Overtaken, [TxNext]_txVars PROVE Overtaken'
<1> SUFFICES ASSUME txFaults' = 0 PROVE Overtaken'
  BY DEF Overtaken
<1> USE DEF server
<1>1. TypeOK /\ txFaults \in Nat /\ version \in Nat /\ Retries \in Nat
  BY TransactionAssumption DEF IInv, TInv, TypeOK
<1>2. txFaults = 0 /\ ~TxFault
  <2>1. TxFault => txFaults' # 0
    BY <1>1 DEF TxFault
  <2> SUFFICES ASSUME txFaults # 0 PROVE FALSE
    BY <2>1
  <2>2. UNCHANGED txFaults
    BY <2>1 DEF TxNext, ClientStep, ClientFault, Finished, txVars, Begin, BeginFails, WriteInTx,
      WriteConflict, BodyFails, Commit, CommitNothing, CommitConflict, CommitFails, Rollback, Drop, Cancel,
      Reap, LateCommit, BackgroundRollback
  <2> QED
    BY <2>2
<1>3. /\ late = {} /\ \A t \in background : t.by \in Guard
      /\ version = Cardinality(Effective)
      /\ \A t \in open : t.n - 1 <= t.base /\ t.base <= version
      /\ \A c \in Caller : pc[c] = "begin" => attempt[c] <= version
      /\ \A c \in Runner :
           /\ pc[c] \in {"body", "commit"} => Mine(c) # {}
           /\ pc[c] = "rollback" => err[c] = "conflict" /\ attempt[c] <= version
           /\ pc[c] = "err" => Retries + 1 < Cardinality(Caller)
  BY <1>2 DEF Overtaken
<1>4. Runner \subseteq Caller /\ Runner \cap Guard = {}
  BY TransactionAssumption DEF Caller
<1>5. \A c \in Caller : /\ attempt[c] \in Nat
                        /\ \A t \in Mine(c) : t \in open /\ t.by = c /\ t.n = attempt[c] /\ t.base \in Nat
  BY <1>1 DEF TypeOK, Mine, Tx
<1>6. Effective' = {c \in Caller : effect'[c] = 1}
  BY DEF Effective
\* A conflict: somebody committed since the attempt began.
<1>7. ASSUME NEW c \in Caller, NEW t \in Mine(c), ~Fresh(t) PROVE attempt[c] <= version
  BY <1>1, <1>3, <1>5, <1>7 DEF Fresh
<1>8. ASSUME NEW c \in Caller, Begin(c) PROVE Overtaken'
  <2> DEFINE t == [by |-> c, n |-> attempt[c] + 1, base |-> version]
  <2>1. /\ open' = open \cup {t} /\ attempt' = [attempt EXCEPT ![c] = @ + 1]
        /\ UNCHANGED <<version, effect, late, background, err>> /\ pc[c] = "begin"
        /\ pc' = [pc EXCEPT ![c] = "body"]
    BY <1>8 DEF Begin, Goto
  <2>2. t.by = c /\ t.n = attempt[c] + 1 /\ t.base = version
    OBVIOUS
  <2> HIDE DEF t
  <2>3. \A u \in open' : u.n - 1 <= u.base /\ u.base <= version
    BY <1>1, <1>3, <1>5, <2>1, <2>2
  <2>4. Effective' = Effective
    BY <2>1 DEF Effective
  <2>5. ASSUME NEW d \in Runner, pc'[d] \in {"body", "commit"} PROVE Mine(d)' # {}
    <3>1. CASE d = c
      BY <1>1, <1>4, <2>1, <2>2, <3>1 DEF Mine, TypeOK
    <3>2. CASE d # c
      BY <1>1, <1>3, <1>4, <2>1, <2>5, <3>2 DEF Mine, TypeOK
    <3> QED
      BY <3>1, <3>2
  <2> QED
    BY <1>1, <1>3, <1>4, <2>1, <2>3, <2>4, <2>5 DEF Overtaken, TypeOK
<1>9. ASSUME NEW c \in Caller, WriteInTx(c) \/ WriteConflict(c) PROVE Overtaken'
  <2>1. /\ UNCHANGED <<server, late, background, attempt>>
        /\ pc[c] = "body" /\ \A d \in Caller : d # c => pc'[d] = pc[d] /\ err'[d] = err[d]
        /\ \/ pc'[c] = "commit"
           \/ pc'[c] = "rollback" /\ err'[c] = "conflict" /\ attempt[c] <= version
    BY <1>1, <1>7, <1>9 DEF WriteInTx, WriteConflict, Goto, Error, TypeOK
  <2>2. Effective' = Effective /\ \A d : Mine(d)' = Mine(d)
    BY <2>1 DEF Effective, Mine
  <2> QED
    BY <1>1, <1>3, <1>4, <2>1, <2>2 DEF Overtaken
<1>10. ASSUME NEW c \in Caller, BodyFails(c) \/ CommitFails(c) \/ CommitNothing(c) PROVE Overtaken'
  <2>1. Mine(c) = {} /\ c \in Guard
    BY <1>2, <1>3, <1>10 DEF BodyFails, CommitFails, CommitNothing, Caller
  <2>2. /\ UNCHANGED <<server, late, background, attempt>>
        /\ \A d \in Caller : d # c => pc'[d] = pc[d] /\ err'[d] = err[d]
        /\ pc'[c] \in {"rollback", "err", "ok"}
    BY <1>1, <1>2, <1>10, <2>1 DEF BodyFails, CommitFails, CommitNothing, AfterFailedCommit, Goto, Error, TypeOK
  <2>3. Effective' = Effective /\ \A d : Mine(d)' = Mine(d)
    BY <2>2 DEF Effective, Mine
  <2> QED
    BY <1>1, <1>3, <1>4, <2>1, <2>2, <2>3 DEF Overtaken
<1>11. ASSUME NEW c \in Caller, Commit(c) PROVE Overtaken'
  <2>1. PICK t \in Mine(c) : Committed(t)
    BY <1>11 DEF Commit
  <2>2. effect[c] = 0 /\ UNCHANGED <<late, background, attempt, err>> /\ pc' = [pc EXCEPT ![c] = "ok"]
    BY <1>11 DEF Commit, Goto, IInv, EInv, EffectIsKnown, Unsure
  <2>3. effect'[c] = 1 /\ \A d \in Caller \ {c} : effect'[d] = effect[d]
    BY <2>1, <2>2, CommitStep
  <2>4. version' = version + 1 /\ open' = open \ {t} /\ t.by = c
    BY <1>5, <2>1 DEF Committed
  <2>5. Effective' = Effective \cup {c} /\ c \notin Effective
    BY <2>2, <2>3 DEF Effective
  <2>6. Cardinality(Effective') = version'
    <3>1. IsFiniteSet(Effective)
      BY <2>2, NotAll
    <3>2. Cardinality(Effective \cup {c}) = Cardinality(Effective) + 1
      BY <2>5, <3>1, FS_AddElement
    <3> QED
      BY <1>3, <2>4, <2>5, <3>2
  <2>7. \A d \in Runner : d # c => Mine(d)' = Mine(d)
    BY <2>2, <2>4 DEF Mine
  <2>8. \A u \in open' : u.n - 1 <= u.base /\ u.base <= version'
    BY <1>1, <1>3, <2>4 DEF TypeOK, Tx
  <2> QED
    BY <1>1, <1>3, <1>4, <1>5, <2>2, <2>4, <2>6, <2>7, <2>8 DEF Overtaken, TypeOK
<1>12. ASSUME NEW c \in Caller, CommitConflict(c) PROVE Overtaken'
  <2>1. /\ UNCHANGED <<version, effect, late, background, attempt>>
        /\ open' \in {open, open \ Mine(c)} /\ pc[c] = "commit" /\ attempt[c] <= version
        /\ \A d \in Caller : d # c => pc'[d] = pc[d] /\ err'[d] = err[d]
        /\ pc'[c] = IF c \in Runner THEN "rollback" ELSE "err"
        /\ err'[c] = "conflict"
    BY <1>1, <1>7, <1>12 DEF CommitConflict, AfterFailedCommit, Goto, Error, TypeOK
  <2>2. Effective' = Effective /\ \A d \in Caller : d # c => Mine(d)' = Mine(d)
    BY <2>1 DEF Effective, Mine
  <2> QED
    BY <1>1, <1>3, <1>4, <2>1, <2>2 DEF Overtaken
<1>13. ASSUME NEW c \in Caller, Rollback(c) PROVE Overtaken'
  <2>1. /\ UNCHANGED <<version, effect, late, background, attempt, err>>
        /\ open' \in {open, open \ Mine(c)} /\ pc[c] = "rollback"
        /\ \A d \in Caller : d # c => pc'[d] = pc[d]
        /\ pc'[c] = IF c \in Runner /\ Retryable(err[c]) /\ AttemptsLeft(c) THEN "begin" ELSE "err"
    BY <1>1, <1>13 DEF Rollback, Goto, TypeOK
  <2>2. Effective' = Effective /\ \A d \in Caller : d # c => Mine(d)' = Mine(d)
    BY <2>1 DEF Effective, Mine
  <2>3. ASSUME c \in Runner, pc'[c] = "err" PROVE Retries + 1 < Cardinality(Caller)
    <3>1. Retries + 1 <= attempt[c]
      BY <1>1, <1>3, <1>5, <2>1, <2>3 DEF Retryable, AttemptsLeft
    <3>2. attempt[c] <= version
      BY <1>3, <2>1, <2>3
    <3>3. effect[c] # 1
      BY <1>3, <2>1, <2>3 DEF IInv, EInv, EffectIsKnown, Unsure
    <3>4. Cardinality(Caller) \in Nat
      BY TransactionAssumption, FS_CardinalityType
    <3> QED
      BY <1>1, <1>3, <1>5, <3>1, <3>2, <3>3, <3>4, NotAll
  <2> QED
    BY <1>1, <1>3, <1>4, <1>5, <2>1, <2>2, <2>3 DEF Overtaken
<1>14. ASSUME NEW c \in Caller, Drop(c) PROVE Overtaken'
  <2>1. /\ UNCHANGED <<server, late, attempt>> /\ c \in Guard
        /\ background' = background \cup Mine(c) /\ pc'[c] = "err"
        /\ \A d \in Caller : d # c => pc'[d] = pc[d] /\ err'[d] = err[d]
    BY <1>1, <1>14 DEF Drop, Goto, Error, TypeOK
  <2>2. Effective' = Effective /\ \A d : Mine(d)' = Mine(d)
    BY <2>1 DEF Effective, Mine
  <2> QED
    BY <1>1, <1>3, <1>4, <1>5, <2>1, <2>2 DEF Overtaken
<1>15. ASSUME NEW t, (t \in open /\ Reap(t)) \/ (t \in background /\ BackgroundRollback(t))
       PROVE  Overtaken'
  <2>1. /\ UNCHANGED <<version, effect, late, pc, attempt, err>>
        /\ open' = open \ {t} /\ background' \subseteq background
        /\ t.by \in Guard \/ pc[t.by] \in {"ok", "err"}
    BY <1>2, <1>3, <1>15 DEF Reap, BackgroundRollback
  <2>2. Effective' = Effective
    BY <2>1 DEF Effective
  <2>3. \A d \in Runner : pc[d] \in {"body", "commit"} => Mine(d)' = Mine(d)
    BY <1>4, <2>1 DEF Mine
  <2> QED
    BY <1>1, <1>3, <1>4, <2>1, <2>2, <2>3 DEF Overtaken
<1>16. CASE UNCHANGED txVars
  <2>1. UNCHANGED <<version, open, effect, late, background, pc, attempt, err>>
    BY <1>16 DEF txVars
  <2>2. Effective' = Effective /\ \A d : Mine(d)' = Mine(d)
    BY <2>1 DEF Effective, Mine
  <2> QED
    BY <1>3, <2>1, <2>2 DEF Overtaken
<1>17. ~\E c \in Caller : BeginFails(c) \/ Cancel(c)
  BY <1>2 DEF BeginFails, Cancel
<1> QED
  BY <1>3, <1>8, <1>9, <1>10, <1>11, <1>12, <1>13, <1>14, <1>15, <1>16, <1>17
  DEF TxNext, ClientStep, ClientFault, Finished

\* One retry for every other client is enough, for any number of clients: without
\* faults, run_transaction gives up on none of them ("self-healing under concurrent
\* writers", transaction.rs).
THEOREM RetriesAreEnough == TxSpec => []EnoughRetries
<1>1. TxInit => Overtaken
  <2> SUFFICES ASSUME TxInit PROVE Overtaken
    OBVIOUS
  <2>1. Effective = {}
    BY DEF TxInit, Effective
  <2> QED
    BY <2>1, FS_EmptySet, TransactionAssumption DEF TxInit, Overtaken, Caller
<1>2. IInv /\ Overtaken /\ [TxNext]_txVars => Overtaken'
  BY OvertakenStep
<1>3. Overtaken => EnoughRetries
  <2>1. Cardinality(Caller) \in Nat /\ Retries \in Nat
    BY TransactionAssumption, FS_CardinalityType
  <2> QED
    BY <2>1 DEF Overtaken, EnoughRetries
<1> QED
  BY <1>1, <1>2, <1>3, TransactionInvariant, PTL DEF TxSpec

----------------------------------------------------------------------------
(* The cache *)

\* The stamp of an entry is what some clock said when it was made.
Entry == {e \in [id : Nat \ {0}, made : Nat, stored_at : Nat, ttl_secs : 0..Forever] :
            e.made <= e.stored_at /\ e.stored_at <= e.made + Skew}
String == Entry \cup {Nothing, Junk}

\* What a client carries from one step of a call to the next.
Carries(p) ==
  /\ p.at = "set" => p.key \in Key /\ p.envelope \in Entry
  /\ p.at = "judge" => p.key \in Key /\ p.found \in String
  /\ p.at = "heal" => p.key \in Key

CInv ==
  /\ now \in 0..MaxSeconds
  /\ entries \in Nat
  /\ store \in [Key -> String]
  /\ DOMAIN doing = CacheClient /\ \A c \in CacheClient : Carries(doing[c])
  /\ DOMAIN answers = CacheClient
  /\ AnswersAreTimely

\* Only an entry decodes.
LEMMA OnlyEntries == ASSUME NEW e \in String, Decodes(e) PROVE e \in Entry
BY DEF String, Nothing, Junk, Decodes

\* The arithmetic of Envelope::expired: what two clocks say of an entry is its time, up
\* to what they differ.
LEMMA JudgedInTime ==
  ASSUME now \in 0..MaxSeconds, NEW e \in Entry, NEW t \in UnixNow
  PROVE  /\ Expired(e, t) => e.ttl_secs # Forever /\ now + Skew >= e.made + e.ttl_secs
         /\ ~Expired(e, t) => e.ttl_secs = Forever \/ now < e.made + e.ttl_secs + Skew
BY CacheAssumption DEF Entry, Expired, SaturatingAdd, UnixNow

LEMMA CStep == ASSUME CInv, [CacheNext]_cacheVars PROVE CInv'
<1> USE DEF CInv
<1>1. CASE Tick
  BY <1>1, CacheAssumption DEF Tick, AnswersAreTimely
<1>2. CASE Restart
  BY <1>2 DEF Restart, AnswersAreTimely, String
<1>3. ASSUME NEW k \in Key, RawSet(k) PROVE CInv'
  BY <1>3 DEF RawSet, AnswersAreTimely, String
<1>4. ASSUME NEW c \in CacheClient, NEW k \in Key, NEW ttl \in Ttls, NEW t \in UnixNow,
             MakeEnvelope(c, k, ttl, t)
      PROVE  CInv'
  <2> DEFINE e == [id |-> entries + 1, made |-> now, stored_at |-> t,
                   ttl_secs |-> IF ttl = NoTtl THEN Forever ELSE ttl]
             p == [at |-> "set", key |-> k, envelope |-> e]
  <2>1. e \in Entry
    BY CacheAssumption DEF Entry, UnixNow
  <2>2. Carries(p)
    BY <2>1 DEF Carries
  <2>3. doing' = [doing EXCEPT ![c] = p]
    BY <1>4 DEF MakeEnvelope, Becomes
  <2> HIDE DEF e, p
  <2>4. \A d \in CacheClient : Carries(doing'[d])
    BY <2>2, <2>3
  <2>5. DOMAIN doing' = CacheClient /\ entries' \in Nat
    BY <2>3, <1>4 DEF MakeEnvelope
  <2> QED
    BY <1>4, <2>4, <2>5 DEF MakeEnvelope, AnswersAreTimely
<1>5. ASSUME NEW c \in CacheClient, SetArrives(c) PROVE CInv'
  BY <1>5 DEF SetArrives, Becomes, Idle, Carries, String, AnswersAreTimely
<1>6. ASSUME NEW c \in CacheClient, NEW k \in Key, GetMisses(c, k) PROVE CInv'
  BY <1>6 DEF GetMisses, Nothing, Decodes, AnswersAreTimely
<1>7. ASSUME NEW c \in CacheClient, NEW k \in Key, GetFinds(c, k) PROVE CInv'
  BY <1>7 DEF GetFinds, Becomes, Carries, AnswersAreTimely
<1>8. ASSUME NEW c \in CacheClient, NEW t \in UnixNow, Serves(c, t) \/ Condemns(c, t)
      PROVE  CInv'
  <2> DEFINE e == doing[c].found
  <2>1. e \in String /\ doing[c].key \in Key
    BY <1>8 DEF Serves, Condemns, Carries
  <2>2. \E a \in {0, e.id} :
          /\ answers' = [answers EXCEPT ![c] = [found |-> e, at |-> now, answer |-> a]]
          /\ a = e.id <=> Valid(e, t) \/ e.id = 0
    BY <1>8 DEF Serves, Condemns
  <2>3. Decodes(e) =>
          /\ e.id # 0
          /\ ~Valid(e, t) => e.ttl_secs # Forever /\ now + Skew >= e.made + e.ttl_secs
          /\ Valid(e, t) => e.ttl_secs = Forever \/ now < e.made + e.ttl_secs + Skew
    BY <2>1, OnlyEntries, JudgedInTime DEF Valid, Entry
  <2>4. AnswersAreTimely'
    BY <2>2, <2>3 DEF AnswersAreTimely, Decodes
  <2>5. \A d \in CacheClient : Carries(doing'[d])
    BY <1>8, <2>1 DEF Serves, Condemns, Becomes, Idle, Carries
  <2> QED
    BY <1>8, <2>2, <2>4, <2>5 DEF Serves, Condemns, Becomes
<1>9. ASSUME NEW c \in CacheClient, Heals(c) PROVE CInv'
  BY <1>9 DEF Heals, Becomes, Idle, Carries, String, AnswersAreTimely
<1>10. ASSUME NEW c \in CacheClient, NEW k \in Key, Consumes(c, k) PROVE CInv'
  BY <1>10 DEF Consumes, String, AnswersAreTimely
<1>11. CASE UNCHANGED cacheVars
  BY <1>11 DEF cacheVars, AnswersAreTimely
<1> QED
  BY <1>1, <1>2, <1>3, <1>4, <1>5, <1>6, <1>7, <1>8, <1>9, <1>10, <1>11 DEF CacheNext

\* A get answers a payload only within its time to live and hides what it found
\* only after it (Envelope::expired and load of cache.rs), up to what the clocks of the
\* two hosts differ, whatever other clients store, heal, consume or overwrite between
\* the two requests of the get.
THEOREM GetsAreTimely == CacheSpec => []AnswersAreTimely
<1>1. CacheInit => CInv
  BY CacheAssumption DEF CacheInit, CInv, String, Carries, Idle, NoAnswer, Nothing,
         Decodes, AnswersAreTimely
<1>2. CInv => AnswersAreTimely
  BY DEF CInv
<1> QED
  BY <1>1, <1>2, CStep, PTL DEF CacheSpec

----------------------------------------------------------------------------
(* The script buffer *)

Waiting == IF sent = None THEN script ELSE sent[1]

Increasing(s) == \A i, j \in DOMAIN s : i < j => s[i] < s[j]
Before(s, t) == \A i \in DOMAIN s, j \in DOMAIN t : s[i] < t[j]

SInv ==
  /\ pushed \in 0..Statements
  /\ stmts \in Nat
  /\ sent = None \/ (sent = Some(Waiting) /\ script = << >>)
  /\ Waiting \in Seq(1..pushed) /\ executed \in Seq(1..pushed)
  /\ Increasing(executed) /\ Increasing(Waiting) /\ Before(executed, Waiting)
  /\ 1..pushed \subseteq ToSet(executed) \cup refused \cup ToSet(Waiting)
  /\ finished => pushed = Statements /\ script = << >> /\ sent = None

LEMMA Contents ==
  ASSUME NEW N, NEW s \in Seq(N), NEW x
  PROVE  x \in ToSet(s) <=> \E i \in 1..Len(s) : s[i] = x
<1>1. DOMAIN s = 1..Len(s)
  OBVIOUS
<1> QED
  BY <1>1 DEF ToSet

\* What concatenation keeps of the order and the contents of two sequences.
LEMMA Concatenation ==
  ASSUME NEW N \in Nat, NEW s \in Seq(1..N), NEW t \in Seq(1..N),
         Increasing(s), Increasing(t), Before(s, t)
  PROVE  /\ s \o t \in Seq(1..N) /\ Increasing(s \o t)
         /\ ToSet(s \o t) = ToSet(s) \cup ToSet(t)
<1>1. s \o t \in Seq(1..N) /\ Increasing(s \o t)
  BY DEF Increasing, Before
<1>2. \A x : x \in ToSet(s \o t) <=> \E i \in 1..(Len(s) + Len(t)) : (s \o t)[i] = x
  <2>1. Len(s \o t) = Len(s) + Len(t)
    OBVIOUS
  <2> QED
    BY <1>1, <2>1, Contents
<1>3. \A x : /\ x \in ToSet(s) <=> \E i \in 1..Len(s) : s[i] = x
             /\ x \in ToSet(t) <=> \E i \in 1..Len(t) : t[i] = x
  BY Contents
<1>4. \A i \in 1..Len(t) : (s \o t)[Len(s) + i] = t[i] /\ Len(s) + i \in 1..(Len(s) + Len(t))
  OBVIOUS
<1>5. \A i \in 1..(Len(s) + Len(t)) :
         (s \o t)[i] = IF i <= Len(s) THEN s[i] ELSE t[i - Len(s)]
  OBVIOUS
<1>6. ASSUME NEW x \in ToSet(s \o t) PROVE x \in ToSet(s) \cup ToSet(t)
  BY <1>2, <1>3, <1>5
<1>7. ASSUME NEW x \in ToSet(s) \cup ToSet(t) PROVE x \in ToSet(s \o t)
  <2>1. CASE x \in ToSet(s)
    <3>1. PICK i \in 1..Len(s) : s[i] = x
      BY <1>3, <2>1
    <3>2. i \in 1..(Len(s) + Len(t)) /\ (s \o t)[i] = x
      BY <3>1, <1>5
    <3> QED
      BY <3>2, <1>2
  <2>2. CASE x \in ToSet(t)
    <3>1. PICK i \in 1..Len(t) : t[i] = x
      BY <1>3, <2>2
    <3> QED
      BY <3>1, <1>2, <1>4
  <2> QED
    BY <2>1, <2>2
<1> QED
  BY <1>1, <1>6, <1>7

\* A beginning of a script is in order, and behind whatever the script is behind.
LEMMA Beginning ==
  ASSUME NEW N \in Nat, NEW s \in Seq(1..N), NEW t \in Seq(1..N), NEW n \in 0..Len(t),
         Increasing(t), Before(s, t)
  PROVE  /\ SubSeq(t, 1, n) \in Seq(1..N) /\ Increasing(SubSeq(t, 1, n))
         /\ Before(s, SubSeq(t, 1, n))
BY DEF Increasing, Before

LEMMA Wider == ASSUME NEW S, NEW T, S \subseteq T, NEW s \in Seq(S) PROVE s \in Seq(T)
OBVIOUS

\* A statement that is appended comes after what was there.
LEMMA Appending ==
  ASSUME NEW N \in Nat, NEW s \in Seq(1..N), NEW r \in Seq(1..N),
         Increasing(s), Before(r, s)
  PROVE  /\ Append(s, N + 1) \in Seq(1..(N + 1))
         /\ Increasing(Append(s, N + 1)) /\ Before(r, Append(s, N + 1))
         /\ ToSet(Append(s, N + 1)) = ToSet(s) \cup {N + 1}
<1> DEFINE u == Append(s, N + 1)
<1>1. s \in Seq(1..(N + 1)) /\ \A i \in 1..Len(s) : s[i] \in 1..N
  BY Wider
<1>2. u \in Seq(1..(N + 1)) /\ Len(u) = Len(s) + 1 /\ u[Len(s) + 1] = N + 1
  BY <1>1
<1>3. \A i \in 1..Len(s) : u[i] = s[i]
  BY <1>1
<1>4. DOMAIN u = 1..(Len(s) + 1) /\ DOMAIN s = 1..Len(s)
  BY <1>2
<1>5. \A i \in DOMAIN r : r[i] \in 1..N
  OBVIOUS
<1> HIDE DEF u
<1>6. Increasing(u)
  <2> SUFFICES ASSUME NEW i \in 1..(Len(s) + 1), NEW j \in 1..(Len(s) + 1), i < j
               PROVE  u[i] < u[j]
    BY <1>4 DEF Increasing
  <2>1. i \in 1..Len(s) /\ u[i] = s[i] /\ s[i] \in 1..N
    BY <1>1, <1>3
  <2>2. CASE j \in 1..Len(s)
    BY <1>3, <1>4, <2>1, <2>2 DEF Increasing
  <2>3. CASE j = Len(s) + 1
    BY <1>2, <2>1, <2>3
  <2>4. j \in 1..Len(s) \/ j = Len(s) + 1
    <3>1. Len(s) \in Nat
      OBVIOUS
    <3>2. \A n \in Nat : \A k \in 1..(n + 1) : k \in 1..n \/ k = n + 1
      OBVIOUS
    <3> QED
      BY <3>1, <3>2
  <2> QED
    BY <2>2, <2>3, <2>4
<1>7. Before(r, u)
  <2> SUFFICES ASSUME NEW i \in DOMAIN r, NEW j \in 1..(Len(s) + 1) PROVE r[i] < u[j]
    BY <1>4 DEF Before
  <2>1. CASE j \in 1..Len(s)
    BY <1>3, <1>4, <2>1 DEF Before
  <2>2. CASE j = Len(s) + 1
    BY <1>2, <1>5, <2>2
  <2> QED
    BY <2>1, <2>2
<1>8. \A x : /\ x \in ToSet(u) <=> \E i \in 1..(Len(s) + 1) : u[i] = x
             /\ x \in ToSet(s) <=> \E i \in 1..Len(s) : s[i] = x
  BY <1>2, Contents
<1>9. ToSet(u) = ToSet(s) \cup {N + 1}
  <2>1. ASSUME NEW x \in ToSet(u) PROVE x \in ToSet(s) \cup {N + 1}
    <3>1. PICK i \in 1..(Len(s) + 1) : u[i] = x
      BY <1>8, <2>1
    <3>2. Len(s) \in Nat /\ (i \in 1..Len(s) \/ i = Len(s) + 1)
      OBVIOUS
    <3> QED
      BY <3>1, <3>2, <1>2, <1>3, <1>8
  <2>2. ASSUME NEW x \in ToSet(s) PROVE x \in ToSet(u)
    <3>1. PICK i \in 1..Len(s) : s[i] = x
      BY <1>8, <2>2
    <3>2. i \in 1..(Len(s) + 1) /\ u[i] = x
      BY <3>1, <1>3
    <3> QED
      BY <3>2, <1>8
  <2>3. Len(s) + 1 \in 1..(Len(s) + 1)
    OBVIOUS
  <2>4. N + 1 \in ToSet(u)
    BY <2>3, <1>2, <1>8
  <2> QED
    BY <2>1, <2>2, <2>4
<1> QED
  BY <1>2, <1>6, <1>7, <1>9 DEF u

LEMMA Sending == ASSUME NEW l PROVE Some(l) # None /\ Some(l)[1] = l
BY DEF Some, None

LEMMA PushStep == ASSUME SInv, Push PROVE SInv'
<1> USE DEF SInv, Push
<1>1. sent = None /\ Waiting = script /\ script \in Seq(1..pushed)
  BY DEF Waiting
<1>2. Waiting' = Append(script, pushed + 1)
  <2>1. CASE stmts + 1 >= FlushAt
    BY <1>1, <2>1, Sending DEF Waiting, Flush
  <2>2. CASE ~(stmts + 1 >= FlushAt)
    BY <1>1, <2>2 DEF Waiting
  <2> QED
    BY <2>1, <2>2
<1>3. pushed' = pushed + 1 /\ pushed \in Nat /\ pushed' \in 0..Statements
  BY BufferAssumption
<1>4. /\ Waiting' \in Seq(1..pushed') /\ Increasing(Waiting') /\ Before(executed, Waiting')
      /\ ToSet(Waiting') = ToSet(script) \cup {pushed + 1}
  BY <1>1, <1>2, <1>3, Appending
<1>5. executed' \in Seq(1..pushed') /\ executed' = executed
  <2>1. 1..pushed \subseteq 1..pushed'
    BY <1>3
  <2> QED
    BY <2>1, Wider
<1>6. 1..pushed' = 1..pushed \cup {pushed + 1}
  BY <1>3
<1>7. 1..pushed' \subseteq ToSet(executed) \cup refused \cup ToSet(Waiting')
  BY <1>1, <1>4, <1>6
<1>8. finished' = FALSE
  OBVIOUS
<1>9. stmts' \in Nat /\ (sent' = None \/ (sent' = Some(Waiting') /\ script' = << >>))
  <2>1. CASE stmts + 1 >= FlushAt
    BY <1>2, <2>1, Sending DEF Waiting, Flush
  <2>2. CASE ~(stmts + 1 >= FlushAt)
    BY <1>1, <2>2
  <2> QED
    BY <2>1, <2>2
<1> QED
  BY <1>1, <1>3, <1>4, <1>5, <1>7, <1>8, <1>9

\* The script leaves for the server or ends there: n of its statements are run, and
\* what was not run is refused.
LEMMA SentStep == ASSUME SInv, Runs \/ Fails PROVE SInv'
<1> USE DEF SInv, None, Some
<1>1. sent # None /\ sent[1] = Waiting /\ script = << >>
  BY DEF Runs, Fails, Waiting
<1>2. Waiting' = << >> /\ sent' = None /\ script' = << >>
  BY <1>1 DEF Runs, Fails, Waiting
<1>3. SubSeq(Waiting, 1, Len(Waiting)) = Waiting
  OBVIOUS
<1>4. PICK n \in 0..Len(Waiting) :
        /\ executed' = executed \o SubSeq(Waiting, 1, n)
        /\ SubSeq(Waiting, 1, n) = Waiting \/ ToSet(Waiting) \subseteq refused'
  <2>1. CASE Runs
    <3>1. executed' = executed \o Waiting /\ Len(Waiting) \in 0..Len(Waiting)
      BY <1>1, <2>1 DEF Runs
    <3> QED
      BY <1>3, <3>1
  <2>2. CASE Fails
    BY <1>1, <2>2 DEF Fails
  <2> QED
    BY <2>1, <2>2
<1>5. pushed' = pushed /\ pushed \in Nat /\ stmts' = stmts /\ finished' = finished /\ refused \subseteq refused'
  BY BufferAssumption DEF Runs, Fails
<1>6. /\ executed' \in Seq(1..pushed) /\ Increasing(executed')
      /\ ToSet(executed') = ToSet(executed) \cup ToSet(SubSeq(Waiting, 1, n))
  <2> DEFINE u == SubSeq(Waiting, 1, n)
  <2>1. /\ pushed \in Nat /\ Waiting \in Seq(1..pushed) /\ executed \in Seq(1..pushed)
        /\ Increasing(executed) /\ Increasing(Waiting) /\ Before(executed, Waiting)
    BY <1>5
  <2>2. u \in Seq(1..pushed) /\ Increasing(u) /\ Before(executed, u)
    BY <2>1, Beginning
  <2> HIDE DEF u
  <2>3. /\ executed \o u \in Seq(1..pushed) /\ Increasing(executed \o u)
        /\ ToSet(executed \o u) = ToSet(executed) \cup ToSet(u)
    BY <2>1, <2>2, Concatenation
  <2> QED
    BY <1>4, <2>3 DEF u
<1>7. Increasing(Waiting)' /\ Before(executed, Waiting)'
  BY <1>2 DEF Increasing, Before
<1>8. 1..pushed \subseteq (ToSet(executed) \cup refused \cup ToSet(Waiting))'
  BY <1>4, <1>5, <1>6
<1>9. Waiting' \in Seq(1..pushed')
  BY <1>2
<1> QED
  BY <1>1, <1>2, <1>5, <1>6, <1>7, <1>8, <1>9

LEMMA BufferStep == ASSUME SInv, [BufferNext]_bufferVars PROVE SInv'
<1>1. CASE FinishTail
  <2>1. Waiting' = Waiting
    BY <1>1, Sending DEF FinishTail, Flush, Waiting
  <2> QED
    <3>1. /\ sent' = Some(Waiting') /\ script' = << >> /\ stmts' = 0 /\ finished' = FALSE
          /\ UNCHANGED <<pushed, executed, refused>>
      BY <1>1, <2>1 DEF FinishTail, Flush, Waiting
    <3> QED
      BY <2>1, <3>1 DEF SInv, Increasing, Before, ToSet
<1>2. CASE FinishEmpty
  BY <1>2 DEF FinishEmpty, SInv, Waiting, None
<1>3. CASE UNCHANGED bufferVars
  BY <1>3 DEF bufferVars, SInv, Waiting
<1> QED
  BY <1>1, <1>2, <1>3, PushStep, SentStep DEF BufferNext

\* Whatever flush fails and however far the server got with its script, statements run
\* in the order of push and at most once, and finish returns Ok only when each has run
\* or was in a script whose flush returned an error (push, flush, finish of batch.rs).
THEOREM NothingUnreported == BufferSpec => []AllRunOrReported
<1>1. BufferInit => SInv
  <2> SUFFICES ASSUME BufferInit PROVE SInv
    OBVIOUS
  <2>1. Waiting = << >> /\ executed = << >> /\ 1..pushed = {}
    BY DEF BufferInit, Waiting
  <2> QED
    BY <2>1, BufferAssumption DEF BufferInit, SInv, Increasing, Before
<1>2. SInv => AllRunOrReported
  <2> SUFFICES ASSUME SInv PROVE AllRunOrReported
    OBVIOUS
  <2>1. finished => ToSet(Waiting) = {}
    BY DEF SInv, Waiting, ToSet
  <2> QED
    BY <2>1 DEF SInv, AllRunOrReported, Increasing
<1> QED
  BY <1>1, <1>2, BufferStep, PTL DEF BufferSpec

----------------------------------------------------------------------------
(* Values *)

\* A decimal of any mantissa.
DecimalValue == [mantissa : Int, scale : Nat]

\* The values of a type, as far as reading them back depends on it: an integer is in
\* its range, an f32 is one, a char spells a character.
IsValue(t, v) ==
  /\ t \in IntType => v \in IntRange[t]
  /\ t = "f32" => Narrow(v) = v
  /\ t = "char" => v[1] = "char"
  /\ t = "decimal" => v \in DecimalValue

\* An accepted value is no error and can be taken out.
LEMMA Verdicts == ASSUME NEW v PROVE Ok(v) # Err /\ Ok(v)[2] = v
  BY DEF Ok, Err

\* Every integer type but u64 fits the 64 bits of the wire.
LEMMA Ranges ==
  ASSUME NEW t \in IntType, NEW v \in IntRange[t]
  PROVE  v \in Int /\ (t # "u64" => v \in Signed(Half64))
<1>1. CASE t \in {"i8", "i16", "i32", "i64"}
  <2>1. PICK half \in {Half8, Half16, Half32, Half64} : IntRange[t] = Signed(half)
    BY <1>1 DEF IntRange
  <2>2. half \in Nat /\ Half64 \in Nat /\ half <= Half64  BY WidthAssumption
  <2> QED  BY <2>1, <2>2 DEF Signed
<1>2. CASE t \in {"u8", "u16", "u32"}
  <2>1. PICK half \in {Half8, Half16, Half32} : IntRange[t] = Unsigned(half)
    BY <1>2 DEF IntRange
  <2>2. half \in Nat /\ Half64 \in Nat /\ 2 * half <= Half64  BY WidthAssumption
  <2> QED  BY <2>1, <2>2 DEF Signed, Unsigned
<1>3. CASE t = "u64"
  BY <1>3, WidthAssumption DEF IntRange, Unsigned
<1> QED  BY <1>1, <1>2, <1>3 DEF IntType, AsInt32, AsInt64

\* The arms of the integers: no other arm is for their types.
LEMMA IntegerArms ==
  ASSUME NEW t \in IntType
  PROVE  /\ \A v : EncodeScalar(t, v) = IF t \in AsInt32 THEN <<"int32", v>>
                                       ELSE <<"int64", Wrap64(v)>>
         /\ \A w : DecodeScalar(t, w) = DecodeInt(t, w)
<1>1. \A v : EncodeScalar(t, v) = IF t \in AsInt32 THEN <<"int32", v>>
                                 ELSE <<"int64", Wrap64(v)>>
  BY DEF EncodeScalar, IntType, AsInt32, AsInt64
<1>2. \A w : DecodeScalar(t, w) = DecodeInt(t, w)
  BY DEF DecodeScalar, IntType, AsInt32, AsInt64, FloatType
<1> QED  BY <1>1, <1>2

\* What a reader of an integer accepts.
LEMMA IntegerAccepts ==
  ASSUME NEW t \in IntType, NEW w
  PROVE  /\ Kind(w) \in {"int32", "int64"} =>
              DecodeInt(t, w) = IF w[2] \in IntRange[t] THEN Ok(w[2]) ELSE Err
         /\ Kind(w) = "decimal" =>
              DecodeInt(t, w) = IF IsPlain(w[2]) /\ w[2].unscaled \in IntRange[t]
                                THEN Ok(w[2].unscaled) ELSE Err
         /\ Kind(w) \notin {"int32", "int64", "decimal"} => DecodeInt(t, w) = Err
  BY DEF DecodeInt

\* An integer that fits the wire is read back as the value that was written, under the
\* type that wrote it or any other integer type, or the read fails: no conversion wraps
\* or truncates (to_value and from_value of the integers).
THEOREM IntegersKeepTheirValue ==
  ASSUME NEW t \in IntType, NEW u \in IntType, NEW v \in IntRange[t], v \in Signed(Half64)
  PROVE  DecodeScalar(u, EncodeScalar(t, v)) = IF v \in IntRange[u] THEN Ok(v) ELSE Err
<1> DEFINE w == EncodeScalar(t, v)
<1>1. w \in {<<"int32", v>>, <<"int64", v>>}
  BY IntegerArms DEF Wrap64
<1>2. Kind(w) \in {"int32", "int64"} /\ w[2] = v
  BY <1>1 DEF Kind
<1> QED  BY <1>2, IntegerArms, IntegerAccepts

\* A u64 beyond the wire's 64 bits is written as a negative number, which no reader of a
\* u64 takes.
LEMMA TooLarge ==
  ASSUME NEW v \in Unsigned(Half64), v \notin Signed(Half64)
  PROVE  DecodeScalar("u64", EncodeScalar("u64", v)) = Err
<1>1. "u64" \in IntType /\ "u64" \notin AsInt32  BY DEF IntType, AsInt32, AsInt64
<1>2. EncodeScalar("u64", v) = <<"int64", v - 2 * Half64>>
  BY <1>1, IntegerArms DEF Wrap64
<1>3. v - 2 * Half64 \notin IntRange["u64"]
  BY WidthAssumption DEF Unsigned, IntRange
<1> HIDE DEF IntRange
<1> QED  BY <1>1, <1>2, <1>3, IntegerArms, IntegerAccepts DEF Kind

\* A value of a scalar type that is written and read under the same type is the value
\* itself; only a u64 above i64::MAX is not, and reading it is an error (to_value and
\* from_value of every scalar).
THEOREM ScalarsComeBack ==
  ASSUME NEW t \in ScalarType, NEW v, IsValue(t, v)
  PROVE  LET r == DecodeScalar(t, EncodeScalar(t, v))
         IN IF t = "u64" /\ v \notin Signed(Half64) THEN r = Err ELSE r = Ok(v)
<1>1. CASE t \in IntType
  <2>1. v \in IntRange[t]  BY <1>1 DEF IsValue
  <2>2. CASE v \in Signed(Half64)  BY <1>1, <2>1, <2>2, IntegersKeepTheirValue
  <2>3. CASE v \notin Signed(Half64)
    <3>1. t = "u64"  BY <1>1, <2>1, <2>3, Ranges
    <3> QED  BY <3>1, <2>1, <2>3, TooLarge DEF IntRange
  <2> QED  BY <2>2, <2>3
<1>2. CASE t \in FloatType
  BY <1>2 DEF FloatType, IsValue, EncodeScalar, DecodeScalar, DecodeFloat, Kind, IntType,
      AsInt32, AsInt64
<1>3. CASE t \in {"str", "view", "char"}
  BY <1>3 DEF IsValue, EncodeScalar, DecodeScalar, DecodeString, DecodeChar, Kind, IntType,
      AsInt32, AsInt64, FloatType
<1>4. CASE t \in {"bool", "link"}
  BY <1>4 DEF EncodeScalar, DecodeScalar, DecodeLink, Kind, IntType, AsInt32, AsInt64,
      FloatType
<1>5. CASE t \in {"datetime", "date"}
  BY <1>5 DEF EncodeScalar, DecodeScalar, DecodeDateTime, DecodeDate, Kind, IntType, AsInt32,
      AsInt64, FloatType
<1>6. CASE t = "decimal"
  <2> DEFINE w == EncodeScalar("decimal", v)
  <2>1. v \in DecimalValue  BY <1>6 DEF IsValue
  <2>2. w = DecimalV(v)  BY DEF EncodeScalar, IntType, AsInt32, AsInt64
  <2>3. DecodeScalar("decimal", w) = DecodeDecimal(w)
    BY DEF DecodeScalar, IntType, AsInt32, AsInt64, FloatType
  <2>4. w[1] = "decimal" /\ w[2].scale = v.scale
    BY <2>2 DEF DecimalV
  <2>5. (IF w[2].bytes = << >> THEN w[2].unscaled ELSE w[2].bytes[1]) = v.mantissa
    BY <2>2 DEF DecimalV
  <2>6. DecodeDecimal(w) = Ok([mantissa |-> v.mantissa, scale |-> v.scale])
    BY <2>4, <2>5 DEF DecodeDecimal, Kind
  <2>7. v = [mantissa |-> v.mantissa, scale |-> v.scale]  BY <2>1 DEF DecimalValue
  <2> QED  BY <1>6, <2>3, <2>6, <2>7
<1> QED  BY <1>1, <1>2, <1>3, <1>4, <1>5, <1>6 DEF ScalarType

\* What a reader of an integer has read.
LEMMA IntegerRead ==
  ASSUME NEW t \in IntType, NEW w, IsOk(DecodeScalar(t, w))
  PROVE  DecodeScalar(t, w)[2] = IF Kind(w) = "decimal" THEN w[2].unscaled ELSE w[2]
<1>1. DecodeInt(t, w) # Err  BY IntegerArms DEF IsOk
<1>2. CASE Kind(w) \in {"int32", "int64"}  BY <1>1, <1>2, IntegerArms, IntegerAccepts,
               Verdicts
<1>3. CASE Kind(w) = "decimal"  BY <1>1, <1>3, IntegerArms, IntegerAccepts, Verdicts
<1> QED  BY <1>1, <1>2, <1>3, IntegerAccepts

\* What a reader of a decimal has read.
LEMMA DecimalRead ==
  ASSUME NEW w, IsOk(DecodeScalar("decimal", w)), Kind(w) = "decimal" => IsPlain(w[2])
  PROVE  DecodeScalar("decimal", w)[2].mantissa = IF Kind(w) = "decimal" THEN w[2].unscaled
             ELSE w[2]
<1>1. DecodeScalar("decimal", w) = DecodeDecimal(w)
  BY DEF DecodeScalar, IntType, AsInt32, AsInt64, FloatType
<1> QED  BY <1>1 DEF DecodeDecimal, IsOk, Ok, Err, IsPlain

\* Two readers of different number types that both accept a value agree on the number,
\* whatever was stored (the FromValue arms of the integers and of Decimal).
THEOREM NumbersAreReadAlike == \A w : ReadAlike(w)
<1> SUFFICES ASSUME NEW w, NEW t \in NumberType, NEW u \in NumberType,
                    IsOk(DecodeScalar(t, w)), IsOk(DecodeScalar(u, w)),
                    Kind(w) = "decimal" => IsPlain(w[2])
             PROVE  NumberOf(t, DecodeScalar(t, w)[2]) = NumberOf(u, DecodeScalar(u, w)[2])
  BY DEF ReadAlike
<1> DEFINE n == IF Kind(w) = "decimal" THEN w[2].unscaled ELSE w[2]
<1>1. ASSUME NEW s \in NumberType, IsOk(DecodeScalar(s, w))
      PROVE  NumberOf(s, DecodeScalar(s, w)[2]) = n
  <2>1. CASE s \in IntType  BY <1>1, <2>1, IntegerRead DEF NumberOf, IntType, AsInt32, AsInt64
  <2>2. CASE s = "decimal"  BY <1>1, <2>2, DecimalRead DEF NumberOf
  <2> QED  BY <2>1, <2>2 DEF NumberType
<1> QED  BY <1>1

----------------------------------------------------------------------------
(* Statements *)

\* A set of natural numbers has a least member.
LEMMA LeastNat ==
  ASSUME NEW S, S \subseteq Nat, S # {}
  PROVE  \E n \in S : \A m \in S : n <= m
<1> DEFINE Less == {p \in Nat \X Nat : p[1] < p[2]}
<1>1. OpToRel(<, Nat) = Less
  BY DEF OpToRel
<1>2. IsWellFoundedOn(Less, Nat)
  BY <1>1, NatLessThanWellFounded
<1>3. PICK n \in S : \A m \in S : ~(<<m, n>> \in Less)
  <2> HIDE DEF Less
  <2> QED
    BY <1>2, WFMin
<1>4. ASSUME NEW m \in S PROVE n <= m
  <2>1. n \in Nat /\ m \in Nat
    OBVIOUS
  <2>2. m < n => <<m, n>> \in Less
    BY <2>1
  <2> QED
    BY <1>3, <2>1, <2>2
<1> QED
  BY <1>4

\* Induction over the natural numbers, for a set.
LEMMA Induction ==
  ASSUME NEW S, 0 \in S, \A n \in Nat : n \in S => n + 1 \in S
  PROVE  Nat \subseteq S
<1> SUFFICES ASSUME Nat \ S # {} PROVE FALSE
  OBVIOUS
<1>1. PICK n \in Nat \ S : \A m \in Nat \ S : n <= m
  BY LeastNat
<1>2. n # 0 /\ n - 1 \in Nat /\ ~(n <= n - 1)
  BY <1>1
<1>3. n - 1 \in S
  BY <1>1, <1>2
<1>4. (n - 1) + 1 = n
  BY <1>1
<1> QED
  BY <1>2, <1>3, <1>4

\* A sequence, of whatever elements.
IsSeq(s) == \E S : s \in Seq(S)

\* A sequence and the same with an element appended.
LEMMA Sequences ==
  ASSUME NEW s, IsSeq(s), NEW e
  PROVE  /\ IsSeq(Append(s, e)) /\ Len(s) \in Nat /\ DOMAIN s = 1..Len(s)
         /\ Len(Append(s, e)) = Len(s) + 1 /\ DOMAIN Append(s, e) = 1..(Len(s) + 1)
         /\ \A i \in 1..Len(s) : Append(s, e)[i] = s[i]
         /\ Append(s, e)[Len(s) + 1] = e
<1>1. PICK S : s \in Seq(S)  BY DEF IsSeq
<1> DEFINE T == S \cup {e}
<1>2. s \in Seq(T) /\ e \in T  BY <1>1
<1>3. Append(s, e) \in Seq(T) BY <1>2
<1>4. Len(Append(s, e)) = Len(s) + 1 /\ Append(s, e)[Len(s) + 1] = e
      /\ \A i \in 1..Len(s) : Append(s, e)[i] = s[i]
   BY <1>2
<1>5. Len(s) \in Nat /\ DOMAIN s = 1..Len(s) BY <1>1
<1>6. DOMAIN Append(s, e) = 1..(Len(s) + 1) BY <1>3, <1>4
<1>7. IsSeq(Append(s, e)) BY <1>3 DEF IsSeq
<1> HIDE DEF T
<1> QED BY <1>4, <1>5, <1>6, <1>7

\* The functions that follow a chain of calls or fragments do what their equation says:
\* the server's row, what the calls mean, and the two builders.
LEMMA RowSteps ==
  ASSUME NEW stored, NEW frags, NEW P, Len(frags) \in Nat
  PROVE  /\ RowAfter(stored, frags, P)[0] = stored
         /\ \A i \in 1..Len(frags) : RowAfter(stored, frags, P)[i]
                = Assigned(RowAfter(stored, frags, P)[i - 1], frags[i], P)
<1> DEFINE Is(f, n) == f = [i \in 0..n |-> IF i = 0 THEN stored
               ELSE Assigned(f[i - 1], frags[i], P)]
           Good == {n \in Nat : \E f : Is(f, n)}
<1>1. 0 \in Good
  <2>1. Is([i \in 0..0 |-> stored], 0)
    OBVIOUS
  <2> QED
    BY <2>1
<1>2. ASSUME NEW n \in Nat, n \in Good PROVE n + 1 \in Good
  <2>1. PICK f : Is(f, n)
    BY <1>2
  <2> DEFINE h == [i \in 0..(n + 1) |-> IF i <= n THEN f[i]
                 ELSE Assigned(f[n], frags[n + 1], P)]
  <2>2. ASSUME NEW i \in 0..(n + 1)
        PROVE  h[i] = IF i = 0 THEN stored ELSE Assigned(h[i - 1], frags[i], P)
    <3>1. i \in 0..n => f[i] = IF i = 0 THEN stored ELSE Assigned(f[i - 1], frags[i], P)
      BY <2>1
    <3>2. i # 0 => h[i - 1] = f[i - 1]
      OBVIOUS
    <3> QED
      BY <3>1, <3>2
  <2>3. h = [i \in 0..(n + 1) |-> h[i]]
    OBVIOUS
  <2>4. Is(h, n + 1)
    <3> HIDE DEF h
    <3> QED
      BY <2>2, <2>3
  <2>5. \E g : Is(g, n + 1)
    <3> HIDE DEF Is, h
    <3> QED
      BY <2>4
  <2> HIDE DEF Is
  <2> QED
    BY <2>5
<1>3. Len(frags) \in Good
  <2> HIDE DEF Good
  <2> QED
    BY <1>1, <1>2, Induction
<1>4. RowAfter(stored, frags, P) = CHOOSE f : Is(f, Len(frags))
  BY DEF RowAfter
<1>5. Is(RowAfter(stored, frags, P), Len(frags))
  <2> HIDE DEF Is
  <2> QED
    BY <1>3, <1>4
<1>6. \A i \in 0..Len(frags) :
        RowAfter(stored, frags, P)[i] = IF i = 0 THEN stored
            ELSE Assigned(RowAfter(stored, frags, P)[i - 1], frags[i], P)
  BY <1>5
<1> QED
  BY <1>6
LEMMA PutSteps ==
  ASSUME NEW stored, NEW calls, Len(calls) \in Nat
  PROVE  /\ PutAfter(stored, calls)[0] = stored
         /\ \A i \in 1..Len(calls) : PutAfter(stored, calls)[i]
                = Puts(PutAfter(stored, calls)[i - 1], calls[i])
<1> DEFINE Is(f, n) == f = [i \in 0..n |-> IF i = 0 THEN stored ELSE Puts(f[i - 1], calls[i])]
           Good == {n \in Nat : \E f : Is(f, n)}
<1>1. 0 \in Good
  <2>1. Is([i \in 0..0 |-> stored], 0)
    OBVIOUS
  <2> QED
    BY <2>1
<1>2. ASSUME NEW n \in Nat, n \in Good PROVE n + 1 \in Good
  <2>1. PICK f : Is(f, n)
    BY <1>2
  <2> DEFINE h == [i \in 0..(n + 1) |-> IF i <= n THEN f[i] ELSE Puts(f[n], calls[n + 1])]
  <2>2. ASSUME NEW i \in 0..(n + 1)
        PROVE  h[i] = IF i = 0 THEN stored ELSE Puts(h[i - 1], calls[i])
    <3>1. i \in 0..n => f[i] = IF i = 0 THEN stored ELSE Puts(f[i - 1], calls[i])
      BY <2>1
    <3>2. i # 0 => h[i - 1] = f[i - 1]
      OBVIOUS
    <3> QED
      BY <3>1, <3>2
  <2>3. h = [i \in 0..(n + 1) |-> h[i]]
    OBVIOUS
  <2>4. Is(h, n + 1)
    <3> HIDE DEF h
    <3> QED
      BY <2>2, <2>3
  <2>5. \E g : Is(g, n + 1)
    <3> HIDE DEF Is, h
    <3> QED
      BY <2>4
  <2> HIDE DEF Is
  <2> QED
    BY <2>5
<1>3. Len(calls) \in Good
  <2> HIDE DEF Good
  <2> QED
    BY <1>1, <1>2, Induction
<1>4. PutAfter(stored, calls) = CHOOSE f : Is(f, Len(calls))
  BY DEF PutAfter
<1>5. Is(PutAfter(stored, calls), Len(calls))
  <2> HIDE DEF Is
  <2> QED
    BY <1>3, <1>4
<1>6. \A i \in 0..Len(calls) :
        PutAfter(stored, calls)[i] = IF i = 0 THEN stored
            ELSE Puts(PutAfter(stored, calls)[i - 1], calls[i])
  BY <1>5
<1> QED
  BY <1>6
LEMMA SetSteps ==
  ASSUME NEW calls, Len(calls) \in Nat
  PROVE  /\ SetAfter(calls)[0] = Clause
         /\ \A i \in 1..Len(calls) : SetAfter(calls)[i]
                = Setting(SetAfter(calls)[i - 1], calls[i])
<1> DEFINE Is(f, n) == f = [i \in 0..n |-> IF i = 0 THEN Clause
               ELSE Setting(f[i - 1], calls[i])]
           Good == {n \in Nat : \E f : Is(f, n)}
<1>1. 0 \in Good
  <2>1. Is([i \in 0..0 |-> Clause], 0)
    OBVIOUS
  <2> QED
    BY <2>1
<1>2. ASSUME NEW n \in Nat, n \in Good PROVE n + 1 \in Good
  <2>1. PICK f : Is(f, n)
    BY <1>2
  <2> DEFINE h == [i \in 0..(n + 1) |-> IF i <= n THEN f[i] ELSE Setting(f[n], calls[n + 1])]
  <2>2. ASSUME NEW i \in 0..(n + 1)
        PROVE  h[i] = IF i = 0 THEN Clause ELSE Setting(h[i - 1], calls[i])
    <3>1. i \in 0..n => f[i] = IF i = 0 THEN Clause ELSE Setting(f[i - 1], calls[i])
      BY <2>1
    <3>2. i # 0 => h[i - 1] = f[i - 1]
      OBVIOUS
    <3> QED
      BY <3>1, <3>2
  <2>3. h = [i \in 0..(n + 1) |-> h[i]]
    OBVIOUS
  <2>4. Is(h, n + 1)
    <3> HIDE DEF h
    <3> QED
      BY <2>2, <2>3
  <2>5. \E g : Is(g, n + 1)
    <3> HIDE DEF Is, h
    <3> QED
      BY <2>4
  <2> HIDE DEF Is
  <2> QED
    BY <2>5
<1>3. Len(calls) \in Good
  <2> HIDE DEF Good
  <2> QED
    BY <1>1, <1>2, Induction
<1>4. SetAfter(calls) = CHOOSE f : Is(f, Len(calls))
  BY DEF SetAfter
<1>5. Is(SetAfter(calls), Len(calls))
  <2> HIDE DEF Is
  <2> QED
    BY <1>3, <1>4
<1>6. \A i \in 0..Len(calls) :
        SetAfter(calls)[i] = IF i = 0 THEN Clause
            ELSE Setting(SetAfter(calls)[i - 1], calls[i])
  BY <1>5
<1> QED
  BY <1>6
LEMMA FilterSteps ==
  ASSUME NEW calls, Len(calls) \in Nat
  PROVE  /\ FilterAfter(calls)[0] = Clause
         /\ \A i \in 1..Len(calls) : FilterAfter(calls)[i]
                = Filtering(FilterAfter(calls)[i - 1], calls[i])
<1> DEFINE Is(f, n) == f = [i \in 0..n |-> IF i = 0 THEN Clause
               ELSE Filtering(f[i - 1], calls[i])]
           Good == {n \in Nat : \E f : Is(f, n)}
<1>1. 0 \in Good
  <2>1. Is([i \in 0..0 |-> Clause], 0)
    OBVIOUS
  <2> QED
    BY <2>1
<1>2. ASSUME NEW n \in Nat, n \in Good PROVE n + 1 \in Good
  <2>1. PICK f : Is(f, n)
    BY <1>2
  <2> DEFINE h == [i \in 0..(n + 1) |-> IF i <= n THEN f[i]
                 ELSE Filtering(f[n], calls[n + 1])]
  <2>2. ASSUME NEW i \in 0..(n + 1)
        PROVE  h[i] = IF i = 0 THEN Clause ELSE Filtering(h[i - 1], calls[i])
    <3>1. i \in 0..n => f[i] = IF i = 0 THEN Clause ELSE Filtering(f[i - 1], calls[i])
      BY <2>1
    <3>2. i # 0 => h[i - 1] = f[i - 1]
      OBVIOUS
    <3> QED
      BY <3>1, <3>2
  <2>3. h = [i \in 0..(n + 1) |-> h[i]]
    OBVIOUS
  <2>4. Is(h, n + 1)
    <3> HIDE DEF h
    <3> QED
      BY <2>2, <2>3
  <2>5. \E g : Is(g, n + 1)
    <3> HIDE DEF Is, h
    <3> QED
      BY <2>4
  <2> HIDE DEF Is
  <2> QED
    BY <2>5
<1>3. Len(calls) \in Good
  <2> HIDE DEF Good
  <2> QED
    BY <1>1, <1>2, Induction
<1>4. FilterAfter(calls) = CHOOSE f : Is(f, Len(calls))
  BY DEF FilterAfter
<1>5. Is(FilterAfter(calls), Len(calls))
  <2> HIDE DEF Is
  <2> QED
    BY <1>3, <1>4
<1>6. \A i \in 0..Len(calls) :
        FilterAfter(calls)[i] = IF i = 0 THEN Clause
            ELSE Filtering(FilterAfter(calls)[i - 1], calls[i])
  BY <1>5
<1> QED
  BY <1>6

\* The builder of a clause: fragments in order, finitely many parameters.
Builder(c) == c = [frags |-> c.frags, params |-> c.params] /\ IsSeq(c.frags)
    /\ IsFiniteSet(DOMAIN c.params)

\* A name for a parameter of a column that no parameter has.
FreshIn(c, name, col, tag) == name \notin DOMAIN c.params
    /\ \E n \in Nat : name = <<col, tag, n>>

\* param_name finds a free name: among as many numbers as there are parameters, and one
\* more, not all are taken.
LEMMA FreshName ==
  ASSUME NEW c, IsFiniteSet(DOMAIN c.params), NEW col, NEW tag
  PROVE  FreshIn(c, ParamName(c, TagName(col, tag)), col, tag)
<1> DEFINE taken == DOMAIN c.params
           numbered(n) == [TagName(col, tag) EXCEPT ![3] = n]
           free == {n \in 2 .. Cardinality(taken) + 2 : numbered(n) \notin taken}
<1>1. \A n : numbered(n) = <<col, tag, n>>
  BY DEF TagName
<1>2. Cardinality(taken) \in Nat
  BY FS_CardinalityType
<1>3. free # {}
  <2> SUFFICES ASSUME free = {} PROVE FALSE
    OBVIOUS
  <2> DEFINE S == 2 .. Cardinality(taken) + 2
             f == [n \in S |-> <<col, tag, n>>]
  <2>1. f \in [S -> taken]
    BY <1>1
  <2>2. IsFiniteSet(S) /\ Cardinality(S) = Cardinality(taken) + 1
    BY <1>2, FS_Interval
  <2>3. \E x, y \in S : x # y /\ f[x] = f[y]
    <3> HIDE DEF f, S
    <3> QED
      BY <1>2, <2>1, <2>2, FS_PigeonHole
  <2> QED
    BY <2>3
<1>4. free \subseteq Nat
  BY <1>2
<1>5. PICK m \in free : \A k \in free : m <= k
  <2> HIDE DEF free
  <2> QED
    BY <1>3, <1>4, LeastNat
<1>6. Min(free) \in free
  <2> HIDE DEF free
  <2> QED
    BY <1>5 DEF Min
<1>7. CASE TagName(col, tag) \in taken
  <2>1. ParamName(c, TagName(col, tag)) = numbered(Min(free))
    BY <1>7 DEF ParamName
  <2> HIDE DEF numbered
  <2> QED
    BY <1>1, <1>4, <1>6, <2>1 DEF FreshIn
<1>8. CASE TagName(col, tag) \notin taken
  BY <1>8 DEF ParamName, FreshIn, TagName
<1> QED
  BY <1>7, <1>8

\* A fragment is appended and a parameter is set, and nothing else.
LEMMA WithFragIs ==
  ASSUME NEW c, Builder(c), NEW frag
  PROVE  /\ WithFrag(c, frag) = [frags |-> Append(c.frags, frag), params |-> c.params]
         /\ Builder(WithFrag(c, frag))
<1>1. WithFrag(c, frag) = [frags |-> Append(c.frags, frag), params |-> c.params]
  BY DEF Builder, WithFrag
<1>2. IsSeq(Append(c.frags, frag))
  BY Sequences DEF Builder
<1> QED
  BY <1>1, <1>2 DEF Builder
LEMMA WithParamIs ==
  ASSUME NEW c, Builder(c), NEW name, NEW w
  PROVE  /\ WithParam(c, name, w) = [frags |-> c.frags, params |-> With(c.params, name, w)]
         /\ Builder(WithParam(c, name, w))
<1>1. WithParam(c, name, w) = [frags |-> c.frags, params |-> With(c.params, name, w)]
  BY DEF Builder, WithParam
<1>2. DOMAIN With(c.params, name, w) = DOMAIN c.params \cup {name}
  BY DEF With
<1>3. IsFiniteSet(DOMAIN With(c.params, name, w))
  BY <1>2, FS_AddElement DEF Builder
<1> QED
  BY <1>1, <1>3 DEF Builder

\* Reading a map an entry was inserted into.
LEMMA WithIs ==
  ASSUME NEW f, NEW x, NEW v
  PROVE  /\ DOMAIN With(f, x, v) = DOMAIN f \cup {x}
         /\ With(f, x, v)[x] = v
         /\ \A y \in DOMAIN f : y # x => With(f, x, v)[y] = f[y]
BY DEF With

\* A negated fragment.
LEMMA Negated ==
  ASSUME NEW s, IsSeq(s), NEW e, NEW f
  PROVE  [Append(s, e) EXCEPT ![Len(Append(s, e))] = f] = Append(s, f)
<1> DEFINE a == Append(s, e)
           b == Append(s, f)
           g == [a EXCEPT ![Len(a)] = f]
<1>1. PICK S : s \in Seq(S)
  BY DEF IsSeq
<1> DEFINE T == S \cup {e, f}
<1>2. s \in Seq(T) /\ e \in T /\ f \in T BY <1>1
<1>3. a \in Seq(T) /\ b \in Seq(T) BY <1>2
<1>4. Len(a) = Len(s) + 1 /\ Len(b) = Len(s) + 1 /\ Len(s) \in Nat 
   BY <1>2
<1>5. \A i \in 1..Len(s) : a[i] = s[i] /\ b[i] = s[i]
  BY <1>2
<1>6. b[Len(a)] = f
  BY <1>2, <1>4
<1> HIDE DEF a, b, T
<1>7. /\ [a EXCEPT ![Len(a)] = f] \in Seq(T)
      /\ Len([a EXCEPT ![Len(a)] = f]) = Len(a)
      /\ \A j \in 1..Len(a) : [a EXCEPT ![Len(a)] = f][j] = IF j = Len(a) THEN f ELSE a[j]
  BY <1>2, <1>3, <1>4, ExceptSeq
<1>8. [a EXCEPT ![Len(a)] = f] = b
  BY <1>3, <1>4, <1>5, <1>6, <1>7, SeqEqual
<1> QED
  BY <1>8 DEF a, b

\* Parameters that hold at least those of a builder, with their values: the merged map.
Agrees(P, params) == \A n \in DOMAIN params : P[n] = params[n]

\* Only eq and bind take a column's own name, and no filter that of its appends.
TagFor(call_, tag) == tag # "append" /\ (tag = "" => OwnParam(call_))

\* A filter call keeps every parameter there is, names its own after its column, and adds
\* at most one fragment, which under any parameters that agree says what the call says.
Filtered(c, call_, d) ==
  /\ Builder(d)
  /\ DOMAIN c.params \subseteq DOMAIN d.params
  /\ \A n \in DOMAIN c.params : d.params[n] = c.params[n]
  /\ \A n \in DOMAIN d.params \ DOMAIN c.params :
       n[1] = call_[2] /\ TagFor(call_, n[2])
  /\ \/ d.frags = c.frags /\ \A was : Says(was, call_)
     \/ \E f : /\ d.frags = Append(c.frags, f)
               /\ \A was, P : Agrees(P, d.params)
                      => (Satisfies(was, f, P) <=> Says(was, call_))

\* A fragment with one parameter says what the call says.
Means(op, call_, w) ==
  \A was, P, name : P[name] = w
      => (Holds(was, <<op, call_[2], name>>, P) <=> Says(was, call_))

\* One fragment and its parameter, under a fresh name.
LEMMA TaggedIs ==
  ASSUME NEW c, Builder(c), NEW op, NEW col, NEW tag, NEW w
  PROVE  LET d == Tagged(c, op, col, TagName(col, tag), w)
         IN  \E name : /\ FreshIn(c, name, col, tag)
                       /\ d.frags = Append(c.frags, <<op, col, name>>)
                       /\ d.params = With(c.params, name, w)
                       /\ Builder(d)
<1> DEFINE name == ParamName(c, TagName(col, tag))
           e == WithFrag(c, <<op, col, name>>)
<1>1. FreshIn(c, name, col, tag)
  BY FreshName DEF Builder
<1>2. Builder(e) /\ e = [frags |-> Append(c.frags, <<op, col, name>>), params |-> c.params]
  BY WithFragIs
<1>3. Tagged(c, op, col, TagName(col, tag), w) = WithParam(e, name, w)
  BY DEF Tagged
<1> HIDE DEF e, name
<1>4. Builder(WithParam(e, name, w))
          /\ WithParam(e, name, w) = [frags |-> e.frags, params |-> With(e.params, name, w)]
  BY <1>2, WithParamIs
<1> DEFINE d == Tagged(c, op, col, TagName(col, tag), w)
<1>5. /\ d.frags = Append(c.frags, <<op, col, name>>)
      /\ d.params = With(c.params, name, w)
      /\ Builder(d)
  <2>1. e.frags = Append(c.frags, <<op, col, name>>) /\ e.params = c.params
    BY <1>2
  <2> QED
    BY <2>1, <1>3, <1>4
<1> HIDE DEF d
<1>6. \E n : /\ FreshIn(c, n, col, tag)
             /\ d.frags = Append(c.frags, <<op, col, n>>)
             /\ d.params = With(c.params, n, w)
             /\ Builder(d)
  BY <1>1, <1>5
<1> QED
  BY <1>6 DEF d

\* Then it is enough that the fragment says what the call says.
LEMMA TaggedFiltered ==
  ASSUME NEW c, Builder(c), NEW call_, NEW op, NEW tag, NEW w, op # "NOT",
         TagFor(call_, tag), Means(op, call_, w)
  PROVE  Filtered(c, call_, Tagged(c, op, call_[2], TagName(call_[2], tag), w))
<1> DEFINE col == call_[2]
           d == Tagged(c, op, col, TagName(col, tag), w)
<1>1. PICK name : /\ FreshIn(c, name, col, tag)
                  /\ d.frags = Append(c.frags, <<op, col, name>>)
                  /\ d.params = With(c.params, name, w)
                  /\ Builder(d)
  BY TaggedIs
<1> HIDE DEF d
<1>2. /\ DOMAIN d.params = DOMAIN c.params \cup {name} /\ d.params[name] = w
      /\ \A y \in DOMAIN c.params : d.params[y] = c.params[y]
  <2>1. name \notin DOMAIN c.params
    BY <1>1 DEF FreshIn
  <2>2. d.params = With(c.params, name, w)
    BY <1>1
  <2>3. /\ DOMAIN With(c.params, name, w) = DOMAIN c.params \cup {name}
        /\ With(c.params, name, w)[name] = w
        /\ \A y \in DOMAIN c.params : y # name => With(c.params, name, w)[y] = c.params[y]
    BY DEF With
  <2> QED
    BY <2>1, <2>2, <2>3
<1>3. name[1] = col /\ name[2] = tag
  BY <1>1 DEF FreshIn
<1> DEFINE f == <<op, col, name>>
<1>4. ASSUME NEW was, NEW P, Agrees(P, d.params)
      PROVE Satisfies(was, f, P) <=> Says(was, call_)
  <2>1. P[name] = w
    BY <1>2, <1>4 DEF Agrees
  <2>2. f[1] # "NOT"
    OBVIOUS
  <2>3. Holds(was, f, P) <=> Says(was, call_)
    BY <2>1 DEF Means
  <2> QED
    BY <2>2, <2>3 DEF Satisfies
<1>5. d.frags = Append(c.frags, f)
  BY <1>1
<1> HIDE DEF f
<1>6. Filtered(c, call_, d)
  BY <1>1, <1>2, <1>3, <1>4, <1>5 DEF Filtered
<1> QED
  BY <1>6 DEF d

\* eq.
LEMMA EqStep ==
  ASSUME NEW c, Builder(c), NEW call_, call_[1] = "eq"
  PROVE  Filtered(c, call_, Filtering(c, call_))
<1>1. Filtering(c, call_) = Tagged(c, "=", call_[2], TagName(call_[2], ""), call_[3])
  BY DEF Filtering, Eq, ColName, TagName, Comparison
<1>2. ASSUME NEW was, NEW P, NEW name, P[name] = call_[3]
      PROVE  Holds(was, <<"=", call_[2], name>>, P) <=> Says(was, call_)
  BY <1>2 DEF Holds, Matches, Says, Comparison
<1> QED
  BY <1>1, <1>2, TaggedFiltered DEF Means, TagFor, OwnParam

\* ne, lt, lte, gt, gte.
LEMMA CompareStep ==
  ASSUME NEW c, Builder(c), NEW call_, call_[1] \in DOMAIN Comparison
  PROVE  Filtered(c, call_, Filtering(c, call_))
<1> DEFINE op == Comparison[call_[1]]
<1>1. call_[1] \in {"ne", "lt", "lte", "gt", "gte"} /\ op \in {"<>", "<", "<=", ">", ">="}
  BY DEF Comparison
<1>2. Filtering(c, call_) = Tagged(c, op, call_[2], TagName(call_[2], call_[1]), call_[3])
  BY <1>1 DEF Filtering, Compare
<1>3. ASSUME NEW was, NEW P, NEW name, P[name] = call_[3]
      PROVE  Holds(was, <<op, call_[2], name>>, P) <=> Says(was, call_)
  <2>1. op \in {Comparison[t] : t \in DOMAIN Comparison} \cup {"="}
    OBVIOUS
  <2>2. Says(was, call_) <=> Compared(Column(was, call_[2]), op, call_[3])
    BY <1>1 DEF Says
  <2> HIDE DEF op
  <2>3. Holds(was, <<op, call_[2], name>>, P) <=> Compared(Column(was, call_[2]), op, P[name])
    BY <1>1, <2>1 DEF Holds, Matches
  <2> QED
    BY <1>3, <2>2, <2>3
<1> HIDE DEF op
<1> QED
  BY <1>1, <1>2, <1>3, TaggedFiltered DEF Means, TagFor, OwnParam

\* in_list, not_in, contains, contains_all, contains_any.
LEMMA ListStep ==
  ASSUME NEW c, Builder(c), NEW call_,
         call_[1] \in {"in_list", "not_in", "contains", "contains_all", "contains_any"}
  PROVE  Filtered(c, call_, Filtering(c, call_))
<1> DEFINE col == call_[2]
           ws == call_[3]
<1>0. \A was : Says(was, call_) <=>
        LET a == Column(was, col) IN
        CASE call_[1] = "in_list" -> a \in ToSet(ws)
          [] call_[1] = "not_in" -> a \notin ToSet(ws)
          [] call_[1] = "contains" -> ws \in ToSet(Elements(a))
          [] call_[1] = "contains_all" -> ToSet(ws) \subseteq ToSet(Elements(a))
          [] call_[1] = "contains_any" -> ToSet(ws) \cap ToSet(Elements(a)) # {}
  BY DEF Says, Comparison
<1>1. \A list, w : Has(list, w) <=> w \in ToSet(list)
  BY DEF Has, ToSet
<1>2. Elements(<<"list", ws>>) = ws
  BY DEF Elements, Kind
<1>3. CASE call_[1] = "in_list"
  <2>1. Filtering(c, call_) = Tagged(c, "IN", col, TagName(col, "in"), <<"list", ws>>)
    BY <1>3 DEF Filtering, InList, Comparison
  <2>2. ASSUME NEW was, NEW P, NEW name, P[name] = <<"list", ws>>
        PROVE  Holds(was, <<"IN", col, name>>, P) <=> Says(was, call_)
    <3>1. Holds(was, <<"IN", col, name>>, P) <=> Has(Elements(P[name]), Column(was, col))
      BY DEF Holds, Matches, Comparison
    <3> QED
      BY <1>0, <1>1, <1>2, <1>3, <2>2, <3>1
  <2> QED
    BY <2>1, <2>2, TaggedFiltered DEF Means, TagFor, OwnParam
<1>4. CASE call_[1] = "not_in"
  <2>1. Filtering(c, call_) = Tagged(c, "NOT IN", col, TagName(col, "nin"), <<"list", ws>>)
    BY <1>4 DEF Filtering, NotIn, Comparison
  <2>2. ASSUME NEW was, NEW P, NEW name, P[name] = <<"list", ws>>
        PROVE  Holds(was, <<"NOT IN", col, name>>, P) <=> Says(was, call_)
    <3>1. Holds(was, <<"NOT IN", col, name>>, P) <=> ~Has(Elements(P[name]), Column(was, col))
      BY DEF Holds, Matches, Comparison
    <3> QED
      BY <1>0, <1>1, <1>2, <1>4, <2>2, <3>1
  <2> QED
    BY <2>1, <2>2, TaggedFiltered DEF Means, TagFor, OwnParam
<1>5. CASE call_[1] = "contains"
  <2>1. Filtering(c, call_) = Tagged(c, "CONTAINS", col, TagName(col, "has"), ws)
    BY <1>5 DEF Filtering, ContainsOne, Comparison
  <2>2. ASSUME NEW was, NEW P, NEW name, P[name] = ws
        PROVE  Holds(was, <<"CONTAINS", col, name>>, P) <=> Says(was, call_)
    <3>1. Holds(was, <<"CONTAINS", col, name>>, P)
              <=> Has(Elements(Column(was, col)), P[name])
      BY DEF Holds, Matches, Comparison
    <3> QED
      BY <1>0, <1>1, <1>5, <2>2, <3>1
  <2> QED
    BY <2>1, <2>2, TaggedFiltered DEF Means, TagFor, OwnParam
<1>6. CASE call_[1] = "contains_all"
  <2>1. Filtering(c, call_) = Tagged(c, "CONTAINSALL", col, TagName(col, "all"),
            <<"list", ws>>)
    BY <1>6 DEF Filtering, ContainsAll, Comparison
  <2>2. ASSUME NEW was, NEW P, NEW name, P[name] = <<"list", ws>>
        PROVE  Holds(was, <<"CONTAINSALL", col, name>>, P) <=> Says(was, call_)
    <3>1. Holds(was, <<"CONTAINSALL", col, name>>, P)
            <=> \A i \in DOMAIN P[name][2] : Has(Elements(Column(was, col)), P[name][2][i])
      BY DEF Holds, Matches, Comparison
    <3>2. P[name][2] = ws
      BY <2>2
    <3>3. (\A i \in DOMAIN ws : Has(Elements(Column(was, col)), ws[i]))
            <=> ToSet(ws) \subseteq ToSet(Elements(Column(was, col)))
      BY <1>1 DEF ToSet
    <3> QED
      BY <1>0, <1>6, <3>1, <3>2, <3>3
  <2> QED
    BY <2>1, <2>2, TaggedFiltered DEF Means, TagFor, OwnParam
<1>7. CASE call_[1] = "contains_any"
  <2>1. Filtering(c, call_) = Tagged(c, "CONTAINSANY", col, TagName(col, "any"),
            <<"list", ws>>)
    BY <1>7 DEF Filtering, ContainsAny, Comparison
  <2>2. ASSUME NEW was, NEW P, NEW name, P[name] = <<"list", ws>>
        PROVE  Holds(was, <<"CONTAINSANY", col, name>>, P) <=> Says(was, call_)
    <3>1. Holds(was, <<"CONTAINSANY", col, name>>, P)
            <=> \E i \in DOMAIN P[name][2] : Has(Elements(Column(was, col)), P[name][2][i])
      BY DEF Holds, Matches, Comparison
    <3>2. P[name][2] = ws
      BY <2>2
    <3>3. (\E i \in DOMAIN ws : Has(Elements(Column(was, col)), ws[i]))
            <=> ToSet(ws) \cap ToSet(Elements(Column(was, col))) # {}
      BY <1>1 DEF ToSet
    <3> QED
      BY <1>0, <1>7, <3>1, <3>2, <3>3
  <2> QED
    BY <2>1, <2>2, TaggedFiltered DEF Means, TagFor, OwnParam
<1> QED
  BY <1>3, <1>4, <1>5, <1>6, <1>7

\* bind, if its name is free.
LEMMA BindStep ==
  ASSUME NEW c, Builder(c), NEW call_, call_[1] = "bind",
             ColName(call_[2]) \notin DOMAIN c.params
  PROVE  Filtered(c, call_, Filtering(c, call_))
<1> DEFINE name == ColName(call_[2])
           d == WithParam(c, name, call_[3])
<1>1. Filtering(c, call_) = d
  BY DEF Filtering, Bind, Comparison
<1>2. \A was : Says(was, call_)
  BY DEF Says, Comparison
<1>3. name[1] = call_[2] /\ TagFor(call_, name[2])
  <2>1. name[1] = call_[2] /\ name[2] = ""
    BY DEF ColName
  <2> QED
    BY <2>1 DEF TagFor, OwnParam
<1> HIDE DEF name
<1>4. Builder(d) /\ d = [frags |-> c.frags, params |-> With(c.params, name, call_[3])]
  BY WithParamIs
<1> HIDE DEF d
<1>5. d.frags = c.frags /\ d.params = With(c.params, name, call_[3])
  BY <1>4
<1>6. /\ DOMAIN With(c.params, name, call_[3]) = DOMAIN c.params \cup {name}
      /\ \A y \in DOMAIN c.params : y # name
             => With(c.params, name, call_[3])[y] = c.params[y]
  BY DEF With
<1>7. name \notin DOMAIN c.params
  BY DEF name
<1>8. Filtered(c, call_, d)
  BY <1>2, <1>3, <1>4, <1>5, <1>6, <1>7 DEF Filtered
<1> QED
  BY <1>1, <1>8

\* is_null, is_not_null.
LEMMA NullStep ==
  ASSUME NEW c, Builder(c), NEW call_, call_[1] \in {"is_null", "is_not_null"}
  PROVE  Filtered(c, call_, Filtering(c, call_))
<1> DEFINE op == IF call_[1] = "is_null" THEN "IS NULL" ELSE "IS NOT NULL"
           f == <<op, call_[2]>>
           d == WithFrag(c, f)
<1>1. Filtering(c, call_) = d
  BY DEF Filtering, IsNull, IsNotNull, Comparison
<1>2. ASSUME NEW was, NEW P PROVE Satisfies(was, f, P) <=> Says(was, call_)
  <2> DEFINE col == call_[2]
  <2>1. Satisfies(was, <<"IS NULL", col>>, P) <=> Column(was, col) = Null
    <3>1. Satisfies(was, <<"IS NULL", col>>, P) <=> Holds(was, <<"IS NULL", col>>, P)
      BY DEF Satisfies
    <3>2. Holds(was, <<"IS NULL", col>>, P) <=> Column(was, col) = Null
      BY DEF Holds
    <3> QED
      BY <3>1, <3>2
  <2>2. Satisfies(was, <<"IS NOT NULL", col>>, P) <=> Column(was, col) # Null
    <3>1. Satisfies(was, <<"IS NOT NULL", col>>, P) <=> Holds(was, <<"IS NOT NULL", col>>, P)
      BY DEF Satisfies
    <3>2. Holds(was, <<"IS NOT NULL", col>>, P) <=> Column(was, col) # Null
      BY DEF Holds
    <3> QED
      BY <3>1, <3>2
  <2>3. CASE call_[1] = "is_null"
    <3>1. f = <<"IS NULL", col>>
      BY <2>3
    <3>2. Says(was, call_) <=> Column(was, col) = Null
      BY <2>3 DEF Says, Comparison
    <3> QED
      BY <2>1, <3>1, <3>2
  <2>4. CASE call_[1] = "is_not_null"
    <3>1. f = <<"IS NOT NULL", col>>
      BY <2>4
    <3>2. Says(was, call_) <=> Column(was, col) # Null
      BY <2>4 DEF Says, Comparison
    <3> QED
      BY <2>2, <3>1, <3>2
  <2> QED
    BY <2>3, <2>4
<1> HIDE DEF op, f
<1>3. Builder(d) /\ d = [frags |-> Append(c.frags, f), params |-> c.params]
  BY WithFragIs
<1> HIDE DEF d
<1>4. d.frags = Append(c.frags, f) /\ d.params = c.params
  BY <1>3
<1>5. Filtered(c, call_, d)
  BY <1>2, <1>3, <1>4 DEF Filtered
<1> QED
  BY <1>1, <1>5

\* between: both names are chosen before either is bound, and differ.
LEMMA BetweenStep ==
  ASSUME NEW c, Builder(c), NEW call_, call_[1] = "between"
  PROVE  Filtered(c, call_, Filtering(c, call_))
<1> DEFINE col == call_[2]
           lo == ParamName(c, TagName(col, "from"))
           hi == ParamName(c, TagName(col, "to"))
           f == <<"BETWEEN", col, lo, hi>>
           e1 == WithFrag(c, f)
           e2 == WithParam(e1, lo, call_[3])
           d == WithParam(e2, hi, call_[4])
<1>1. Filtering(c, call_) = d
  BY DEF Filtering, Between, Comparison
<1>2. FreshIn(c, lo, col, "from") /\ FreshIn(c, hi, col, "to")
  BY FreshName DEF Builder
<1>3. TagFor(call_, "from") /\ TagFor(call_, "to")
  BY DEF TagFor, OwnParam
<1>4. ASSUME NEW was, NEW P, P[lo] = call_[3], P[hi] = call_[4]
      PROVE  Satisfies(was, f, P) <=> Says(was, call_)
  <2>1. Says(was, call_) <=> /\ Compared(Column(was, col), ">=", call_[3])
                             /\ Compared(Column(was, col), "<=", call_[4])
    BY DEF Says, Comparison
  <2>2. Satisfies(was, f, P) <=> /\ Compared(Column(was, col), ">=", P[lo])
                                 /\ Compared(Column(was, col), "<=", P[hi])
    <3> HIDE DEF lo, hi
    <3> QED
      BY DEF Satisfies, Holds, Matches, Comparison
  <2> QED
    BY <1>4, <2>1, <2>2
<1> HIDE DEF lo, hi, f
<1>5. Builder(e1) /\ e1 = [frags |-> Append(c.frags, f), params |-> c.params]
  BY WithFragIs
<1> HIDE DEF e1
<1>6. Builder(e2) /\ e2 = [frags |-> e1.frags, params |-> With(e1.params, lo, call_[3])]
  BY <1>5, WithParamIs
<1> HIDE DEF e2
<1>7. Builder(d) /\ d = [frags |-> e2.frags, params |-> With(e2.params, hi, call_[4])]
  BY <1>6, WithParamIs
<1> HIDE DEF d
<1>8. d.frags = Append(c.frags, f)
  BY <1>5, <1>6, <1>7
<1>9. d.params = With(With(c.params, lo, call_[3]), hi, call_[4])
  BY <1>5, <1>6, <1>7
<1>10. lo \notin DOMAIN c.params /\ hi \notin DOMAIN c.params
  BY <1>2 DEF FreshIn
<1>11. lo[1] = col /\ lo[2] = "from" /\ hi[1] = col /\ hi[2] = "to" 
  BY <1>2 DEF FreshIn
<1>12. lo # hi
  BY <1>11
<1>13. /\ DOMAIN d.params = DOMAIN c.params \cup {lo, hi}
       /\ d.params[lo] = call_[3] /\ d.params[hi] = call_[4]
       /\ \A y \in DOMAIN c.params : d.params[y] = c.params[y]
  BY <1>9, <1>10, <1>12 DEF With
<1>14. \A was, P : Agrees(P, d.params) => (Satisfies(was, f, P) <=> Says(was, call_))
  BY <1>4, <1>13 DEF Agrees
<1>15. \A n \in DOMAIN d.params \ DOMAIN c.params : n[1] = col /\ TagFor(call_, n[2])
  BY <1>3, <1>11, <1>13
<1>16. Filtered(c, call_, d)
  BY <1>7, <1>8, <1>13, <1>14, <1>15 DEF Filtered
<1> QED
  BY <1>1, <1>16

\* The last fragment replaced.
LEMMA FragReplaced ==
  ASSUME NEW c, c = [frags |-> c.frags, params |-> c.params], NEW i
  PROVE  LET d == [c EXCEPT !.frags[i] = <<"NOT", @>>]
         IN  /\ d.params = c.params /\ d.frags = [c.frags EXCEPT ![i] = <<"NOT", c.frags[i]>>]
             /\ d = [frags |-> d.frags, params |-> d.params]
<1> DEFINE r == [frags |-> c.frags, params |-> c.params]
<1>1. [r EXCEPT !.frags[i] = <<"NOT", @>>]
        = [frags |-> [c.frags EXCEPT ![i] = <<"NOT", c.frags[i]>>], params |-> c.params]
  OBVIOUS
<1>2. c = r
  OBVIOUS
<1> QED
  BY <1>1, <1>2

\* not_contains_any: the fragment of contains_any, negated.
LEMMA NotContainsStep ==
  ASSUME NEW c, Builder(c), NEW call_, call_[1] = "not_contains_any"
  PROVE  Filtered(c, call_, Filtering(c, call_))
<1> DEFINE col == call_[2]
           ws == call_[3]
           this == ContainsAny(c, col, ws)
           w == <<"list", ws>>
           d == [this EXCEPT !.frags[Len(this.frags)] = <<"NOT", @>>]
<1>1. Filtering(c, call_) = d
  BY DEF Filtering, NotContainsAny, Comparison
<1>2. TagFor(call_, "any")
  BY DEF TagFor, OwnParam
<1>3. \A was : Says(was, call_) <=> ToSet(ws) \cap ToSet(Elements(Column(was, col))) = {}
  BY DEF Says, Comparison
<1>4. \A list, x : Has(list, x) <=> x \in ToSet(list)
  BY DEF Has, ToSet
<1>5. PICK name : /\ FreshIn(c, name, col, "any")
                  /\ this.frags = Append(c.frags, <<"CONTAINSANY", col, name>>)
                  /\ this.params = With(c.params, name, w)
                  /\ Builder(this)
  BY TaggedIs DEF ContainsAny
<1> DEFINE f == <<"CONTAINSANY", col, name>>
           g == <<"NOT", f>>
<1>6. ASSUME NEW was, NEW P, P[name] = w PROVE Satisfies(was, g, P) <=> Says(was, call_)
  <2>1. Holds(was, f, P) <=> \E i \in DOMAIN P[name][2] : Has(Elements(Column(was, col)),
            P[name][2][i])
    BY DEF Holds, Matches, Comparison
  <2>2. P[name][2] = ws
    BY <1>6
  <2>3. (\E i \in DOMAIN ws : Has(Elements(Column(was, col)), ws[i]))
            <=> ToSet(ws) \cap ToSet(Elements(Column(was, col))) # {}
    BY <1>4 DEF ToSet
  <2>4. Satisfies(was, g, P) <=> ~Holds(was, f, P)
    BY DEF Satisfies
  <2> QED
    BY <1>3, <2>1, <2>2, <2>3, <2>4
<1> HIDE DEF this
<1>7. IsSeq(c.frags)
  BY DEF Builder
<1>8. d.params = this.params
          /\ d.frags = [this.frags EXCEPT ![Len(this.frags)] = <<"NOT",
                 this.frags[Len(this.frags)]>>]
      /\ d = [frags |-> d.frags, params |-> d.params]
  <2>1. this = [frags |-> this.frags, params |-> this.params]
    BY <1>5 DEF Builder
  <2> QED
    BY <2>1, FragReplaced
<1> HIDE DEF d, f
<1>9. this.frags[Len(this.frags)] = f
  <2>1. this.frags = Append(c.frags, f)
    BY <1>5 DEF f
  <2>2. Len(Append(c.frags, f)) = Len(c.frags) + 1 /\ Append(c.frags, f)[Len(c.frags) + 1] = f
    BY <1>7, Sequences
  <2> QED
    BY <2>1, <2>2
<1>10. d.frags = Append(c.frags, g)
  <2>1. this.frags = Append(c.frags, f)
    BY <1>5 DEF f
  <2>2. [Append(c.frags, f) EXCEPT ![Len(Append(c.frags, f))] = g] = Append(c.frags, g)
    BY <1>7, Negated
  <2>3. d.frags = [Append(c.frags, f) EXCEPT ![Len(Append(c.frags, f))] = g]
    BY <1>8, <1>9, <2>1
  <2> QED
    BY <2>2, <2>3
<1> HIDE DEF g
<1>11. Builder(d)
  <2>1. IsSeq(d.frags)
    BY <1>7, <1>10, Sequences
  <2> QED
    BY <1>5, <1>8, <2>1 DEF Builder
<1>12. name \notin DOMAIN c.params
  BY <1>5 DEF FreshIn
<1>13. name[1] = col /\ name[2] = "any"
  BY <1>5 DEF FreshIn
<1>14. d.params = With(c.params, name, w)
  BY <1>5, <1>8
<1> HIDE DEF w
<1>15. /\ DOMAIN d.params = DOMAIN c.params \cup {name} /\ d.params[name] = w
       /\ \A y \in DOMAIN c.params : d.params[y] = c.params[y]
  BY <1>12, <1>14 DEF With
<1>16. \A was, P : Agrees(P, d.params) => (Satisfies(was, g, P) <=> Says(was, call_))
  BY <1>6, <1>15 DEF Agrees
<1>17. \A n \in DOMAIN d.params \ DOMAIN c.params : n[1] = col /\ TagFor(call_, n[2])
  BY <1>2, <1>13, <1>15
<1>18. Filtered(c, call_, d)
  BY <1>10, <1>11, <1>15, <1>16, <1>17 DEF Filtered
<1> QED
  BY <1>1, <1>18

\* The calls of FilterClause.
FilterMethod == {"eq", "between", "is_null", "is_not_null", "in_list", "not_in", "contains",
    "contains_all",
                 "contains_any", "not_contains_any", "bind"} \cup DOMAIN Comparison

\* Every call of the WHERE builder.
LEMMA FilterStep ==
  ASSUME NEW c, Builder(c), NEW call_, call_[1] \in FilterMethod,
         call_[1] = "bind" => ColName(call_[2]) \notin DOMAIN c.params
  PROVE  Filtered(c, call_, Filtering(c, call_))
<1> DEFINE m == call_[1]
<1>1. \/ m \in {"eq", "between", "bind", "not_contains_any"}
             \/ m \in {"is_null", "is_not_null"}
      \/ m \in {"in_list", "not_in", "contains", "contains_all", "contains_any"}
             \/ m \in DOMAIN Comparison
  BY DEF FilterMethod
<1>2. \/ m = "eq" \/ m = "between" \/ m = "bind" \/ m = "not_contains_any"
             \/ m \in {"is_null", "is_not_null"}
      \/ m \in {"in_list", "not_in", "contains", "contains_all", "contains_any"}
             \/ m \in DOMAIN Comparison
  BY <1>1
<1> QED
  BY <1>2, EqStep, CompareStep, ListStep, BindStep, NullStep, BetweenStep, NotContainsStep

\* A parameter belongs to one of the calls so far.
Named(n, calls, k) == \E j \in 1..k : n[1] = calls[j][2] /\ TagFor(calls[j], n[2])

\* The WHERE builder after k calls: its fragments say, together, what the calls say.
FilterBuilt(calls, k, c) ==
  /\ Builder(c)
  /\ \A n \in DOMAIN c.params : Named(n, calls, k)
  /\ \A was, P : Agrees(P, c.params) =>
       ((\A i \in 1..Len(c.frags) : Satisfies(was, c.frags[i], P))
           <=> \A j \in 1..k : Says(was, calls[j]))

\* One more call.
LEMMA FilterNext ==
  ASSUME NEW calls, NEW k \in Nat, NEW c,
         NEW d, FilterBuilt(calls, k, c), Filtered(c, calls[k + 1], d)
  PROVE  FilterBuilt(calls, k + 1, d)
<1>1. \A j : j \in 1..(k + 1) <=> j \in 1..k \/ j = k + 1
  OBVIOUS
<1>2. ASSUME NEW n \in DOMAIN d.params PROVE Named(n, calls, k + 1)
  <2>1. CASE n \in DOMAIN c.params
    BY <2>1, <1>1 DEF FilterBuilt, Named
  <2>2. CASE n \notin DOMAIN c.params
    BY <2>2, <1>1 DEF Filtered, Named
  <2> QED
    BY <2>1, <2>2
<1>3. ASSUME NEW was, NEW P, Agrees(P, d.params)
      PROVE  (\A i \in 1..Len(d.frags) : Satisfies(was, d.frags[i], P))
                <=> \A j \in 1..(k + 1) : Says(was, calls[j])
  <2>1. Agrees(P, c.params)
    BY <1>3 DEF Filtered, Agrees
  <2>2. (\A i \in 1..Len(c.frags) : Satisfies(was, c.frags[i], P))
            <=> \A j \in 1..k : Says(was, calls[j])
    BY <2>1 DEF FilterBuilt
  <2>3. (\A j \in 1..(k + 1) : Says(was, calls[j]))
            <=> (\A j \in 1..k : Says(was, calls[j])) /\ Says(was, calls[k + 1])
    BY <1>1
  <2>4. CASE d.frags = c.frags /\ Says(was, calls[k + 1])
    BY <2>2, <2>3, <2>4
  <2>5. CASE \E f : d.frags = Append(c.frags, f)
                 /\ (Satisfies(was, f, P) <=> Says(was, calls[k + 1]))
    <3>1. PICK f : d.frags = Append(c.frags, f)
                   /\ (Satisfies(was, f, P) <=> Says(was, calls[k + 1]))
      BY <2>5
    <3>2. IsSeq(c.frags)
      BY DEF FilterBuilt, Builder
    <3> DEFINE n == Len(c.frags)
    <3>3. n \in Nat /\ Len(d.frags) = n + 1 /\ d.frags[n + 1] = f
              /\ \A i \in 1..n : d.frags[i] = c.frags[i]
      BY <3>1, <3>2, Sequences
    <3> HIDE DEF n
    <3>4. \A i : i \in 1..(n + 1) <=> i \in 1..n \/ i = n + 1
      BY <3>3
    <3>5. (\A i \in 1..Len(d.frags) : Satisfies(was, d.frags[i], P))
             <=> (\A i \in 1..n : Satisfies(was, c.frags[i], P)) /\ Satisfies(was, f, P)
      BY <3>3, <3>4
    <3> QED
      BY <2>2, <2>3, <3>1, <3>5 DEF n
  <2>6. \/ d.frags = c.frags /\ Says(was, calls[k + 1])
        \/ \E f : d.frags = Append(c.frags, f)
               /\ (Satisfies(was, f, P) <=> Says(was, calls[k + 1]))
    BY <1>3 DEF Filtered
  <2> QED
    BY <2>4, <2>5, <2>6
<1>4. Builder(d)
  BY DEF Filtered
<1> QED
  BY <1>2, <1>3, <1>4 DEF FilterBuilt

\* A builder before its first call.
LEMMA EmptyBuilder ==
  Builder(Clause) /\ DOMAIN Clause.params = {} /\ Len(Clause.frags) = 0
<1>1. Clause.frags = << >> /\ DOMAIN Clause.params = {}
  BY DEF Clause
<1>2. Clause = [frags |-> Clause.frags, params |-> Clause.params]
  BY DEF Clause
<1>3. IsSeq(<< >>)
  BY << >> \in Seq({}) DEF IsSeq
<1> QED
  BY <1>1, <1>2, <1>3, FS_EmptySet DEF Builder

\* Calls the WHERE builder is meant for.
FilterCalls(calls) ==
  IsSeq(calls) /\ BindsFree(calls) /\ \A i \in DOMAIN calls : calls[i][1] \in FilterMethod

\* What the whole WHERE clause says.
LEMMA FilterMeans ==
  ASSUME NEW calls, FilterCalls(calls)
  PROVE  FilterBuilt(calls, Len(calls), FilterClause(calls))
<1> DEFINE n == Len(calls)
           Good == {k \in Nat : k <= n => FilterBuilt(calls, k, FilterAfter(calls)[k])}
<1>1. n \in Nat /\ DOMAIN calls = 1..n
  BY Sequences DEF FilterCalls
<1> HIDE DEF n
<1>2. FilterAfter(calls)[0] = Clause
          /\ \A i \in 1..n : FilterAfter(calls)[i]
                 = Filtering(FilterAfter(calls)[i - 1], calls[i])
  BY <1>1, FilterSteps DEF n
<1>3. FilterBuilt(calls, 0, Clause)
  BY EmptyBuilder DEF FilterBuilt
<1>4. 0 \in Good
  BY <1>2, <1>3
<1>5. ASSUME NEW k \in Nat, k \in Good PROVE k + 1 \in Good
  <2> SUFFICES ASSUME k + 1 <= n PROVE FilterBuilt(calls, k + 1, FilterAfter(calls)[k + 1])
    OBVIOUS
  <2> DEFINE c == FilterAfter(calls)[k]
             new == calls[k + 1]
  <2>1. FilterBuilt(calls, k, c)
    BY <1>1, <1>5
  <2>2. k + 1 \in 1..n /\ (k + 1) - 1 = k
    BY <1>1
  <2>3. FilterAfter(calls)[k + 1] = Filtering(c, new)
    BY <1>2, <2>2
  <2>4. new[1] \in FilterMethod
    BY <1>1, <2>2 DEF FilterCalls
  <2>5. ASSUME new[1] = "bind" PROVE ColName(new[2]) \notin DOMAIN c.params
    <3> SUFFICES ASSUME ColName(new[2]) \in DOMAIN c.params PROVE FALSE
      OBVIOUS
    <3>1. Named(ColName(new[2]), calls, k)
      BY <2>1 DEF FilterBuilt
    <3>2. PICK j \in 1..k : ColName(new[2])[1] = calls[j][2]
                   /\ TagFor(calls[j], ColName(new[2])[2])
      BY <3>1 DEF Named
    <3>3. ColName(new[2])[1] = new[2] /\ ColName(new[2])[2] = ""
      BY DEF ColName
    <3>4. OwnParam(calls[j])
      BY <3>2, <3>3 DEF TagFor
    <3>5. j < k + 1 /\ j \in DOMAIN calls /\ k + 1 \in DOMAIN calls
      BY <1>1, <2>2
    <3>6. calls[k + 1][2] # calls[j][2]
      BY <2>5, <3>4, <3>5 DEF FilterCalls, BindsFree
    <3> QED
      BY <3>2, <3>3, <3>6
  <2>6. Filtered(c, new, Filtering(c, new))
    <3>1. Builder(c)
      BY <2>1 DEF FilterBuilt
    <3> QED
      BY <2>4, <2>5, <3>1, FilterStep
  <2> QED
    BY <2>1, <2>3, <2>6, FilterNext
<1>6. n \in Good
  <2> HIDE DEF Good
  <2> QED
    BY <1>1, <1>4, <1>5, Induction
<1> QED
  BY <1>1, <1>6 DEF n, FilterClause

\* A row, as a function.
RowFn(r) == r = [x \in DOMAIN r |-> r[x]]

\* Two rows have the same value in a column, or none.
SameAt(r, s, col) == (col \in DOMAIN r <=> col \in DOMAIN s)
    /\ (col \in DOMAIN r => r[col] = s[col])

\* A row that differs from another in one column at most.
Touches(r, s, col) == RowFn(s) /\ \A x : x # col => SameAt(s, r, x)

\* The row after all the fragments.
Final(stored, frags, P) == RowAfter(stored, frags, P)[Len(frags)]

\* One more fragment is assigned last.
LEMMA FinalSteps ==
  ASSUME NEW stored, NEW frags, IsSeq(frags), NEW f, NEW P
  PROVE  Final(stored, Append(frags, f), P) = Assigned(Final(stored, frags, P), f, P)
<1> DEFINE n == Len(frags)
           more == Append(frags, f)
           g == RowAfter(stored, frags, P)
           h == RowAfter(stored, more, P)
           Good == {k \in Nat : k <= n => h[k] = g[k]}
<1>1. n \in Nat /\ Len(more) = n + 1 /\ more[n + 1] = f /\ \A i \in 1..n : more[i] = frags[i]
  BY Sequences
<1> HIDE DEF n
<1>2. g[0] = stored /\ \A i \in 1..n : g[i] = Assigned(g[i - 1], frags[i], P)
  BY <1>1, RowSteps DEF n
<1>3. h[0] = stored /\ \A i \in 1..(n + 1) : h[i] = Assigned(h[i - 1], more[i], P)
  <2> HIDE DEF more
  <2>1. Len(more) \in Nat
    BY <1>1
  <2> QED
    BY <1>1, <2>1, RowSteps
<1> HIDE DEF g, h, more
<1>4. 0 \in Good
  BY <1>2, <1>3
<1>5. ASSUME NEW k \in Nat, k \in Good PROVE k + 1 \in Good
  <2> SUFFICES ASSUME k + 1 <= n PROVE h[k + 1] = g[k + 1]
    OBVIOUS
  <2>1. k + 1 \in 1..n /\ k + 1 \in 1..(n + 1) /\ (k + 1) - 1 = k
    BY <1>1
  <2>2. h[k] = g[k]
    BY <1>1, <1>5
  <2> QED
    BY <1>1, <1>2, <1>3, <2>1, <2>2
<1>6. n \in Good
  <2> HIDE DEF Good
  <2> QED
    BY <1>1, <1>4, <1>5, Induction
<1>7. h[n] = g[n]
  BY <1>1, <1>6
<1>8. n + 1 \in 1..(n + 1) /\ (n + 1) - 1 = n
  BY <1>1
<1>9. h[n + 1] = Assigned(g[n], f, P)
  BY <1>1, <1>3, <1>7, <1>8
<1> QED
  BY <1>1, <1>9 DEF Final, g, h, more, n

\* No fragment leaves the row as it was.
LEMMA FinalStart == ASSUME NEW stored, NEW frags, Len(frags) = 0, NEW P
                    PROVE Final(stored, frags, P) = stored
<1>1. Len(frags) \in Nat
  OBVIOUS
<1> QED
  BY <1>1, RowSteps DEF Final

\* A value put into a column.
LEMMA WithTouches ==
  ASSUME NEW r, NEW col, NEW v
  PROVE  Touches(r, With(r, col, v), col) /\ col \in DOMAIN With(r, col, v)
             /\ With(r, col, v)[col] = v
BY DEF With, Touches, RowFn, SameAt

\* A column made null.
LEMMA RestrictTouches ==
  ASSUME NEW r, NEW col
  PROVE  LET s == Restrict(r, DOMAIN r \ {col}) IN Touches(r, s, col) /\ col \notin DOMAIN s
BY DEF Restrict, Touches, RowFn, SameAt

\* Parameters that agree on those of a column.
AgreesOn(P, params, col) == \A n \in DOMAIN params : n[1] = col => P[n] = params[n]

\* A column some call appends to.
Appended(calls, col) == \E j \in DOMAIN calls : calls[j][1] = "append" /\ calls[j][2] = col

\* A column that is not appended to: the fragments leave in it what the calls do.
PlainAt(stored, c, M, col) ==
  \A P : AgreesOn(P, c.params, col) => SameAt(Final(stored, c.frags, P), M, col)

\* A column that is: one fragment appends the list that the calls have filled so far.
AppendAt(stored, c, M, col) ==
  LET name == TagName(col, "append")
      E == Elements(Column(stored, col))
  IN IF name \in DOMAIN c.params
     THEN \E L : /\ IsSeq(L) /\ c.params[name] = <<"list", L>>
                 /\ col \in DOMAIN M /\ M[col] = <<"list", E \o L>>
                 /\ \A P : LET r == Final(stored, c.frags, P)
                           IN col \in DOMAIN r /\ r[col] = <<"list", E \o Elements(P[name])>>
     ELSE SameAt(M, stored, col) /\ \A P : SameAt(Final(stored, c.frags, P), stored, col)

\* The name a SET call gives its parameter.
SetName(call_, n) ==
  IF call_[1] = "append" THEN n = TagName(call_[2], "append")
  ELSE n = ColName(call_[2]) /\ call_[1] # "set_expr"

\* A parameter belongs to one of the calls so far.
SetNamed(n, calls, k) == \E j \in 1..k : n[1] = calls[j][2] /\ SetName(calls[j], n)

\* The SET builder after k calls, and the row the calls would make of it: column by
\* column they agree, once the parameters of the column are bound.
SetBuilt(stored, calls, k, c, M) ==
  /\ Builder(c) /\ RowFn(M) /\ \A P : RowFn(Final(stored, c.frags, P))
  /\ \A n \in DOMAIN c.params : SetNamed(n, calls, k)
  /\ \A col : IF Appended(calls, col) THEN AppendAt(stored, c, M, col)
         ELSE PlainAt(stored, c, M, col)

\* A SET call changes its own column alone, and no parameter of another.
SetStepped(stored, c, call_, d, M, N) ==
  /\ Builder(d)
  /\ DOMAIN c.params \subseteq DOMAIN d.params
  /\ \A n \in DOMAIN d.params \ DOMAIN c.params : n[1] = call_[2] /\ SetName(call_, n)
  /\ \A n \in DOMAIN c.params : n[1] # call_[2] => d.params[n] = c.params[n]
  /\ \A P : Touches(Final(stored, c.frags, P), Final(stored, d.frags, P), call_[2])
  /\ Touches(M, N, call_[2])

\* So it is enough to look at the call's own column.
LEMMA SetFrame ==
  ASSUME NEW stored, NEW calls, NEW k \in Nat, NEW c, NEW M, NEW d, NEW N,
         SetBuilt(stored, calls, k, c, M), SetStepped(stored, c, calls[k + 1], d, M, N),
         LET col == calls[k + 1][2]
         IN IF Appended(calls, col) THEN AppendAt(stored, d, N, col) ELSE PlainAt(stored, d, N, col)
  PROVE  SetBuilt(stored, calls, k + 1, d, N)
<1> DEFINE col == calls[k + 1][2]
<1>1. \A j : j \in 1..(k + 1) <=> j \in 1..k \/ j = k + 1
  OBVIOUS
<1>2. ASSUME NEW n \in DOMAIN d.params PROVE SetNamed(n, calls, k + 1)
  <2>1. CASE n \in DOMAIN c.params
    BY <2>1, <1>1 DEF SetBuilt, SetNamed
  <2>2. CASE n \notin DOMAIN c.params
    BY <2>2, <1>1 DEF SetStepped, SetNamed
  <2> QED
    BY <2>1, <2>2
<1>3. Builder(d) /\ RowFn(N) /\ \A P : RowFn(Final(stored, d.frags, P))
  BY DEF SetStepped, Touches
<1>4. ASSUME NEW x, x # col
      PROVE  SameAt(N, M, x) /\ \A P : SameAt(Final(stored, d.frags, P), Final(stored, c.frags, P),
                 x)
  BY <1>4 DEF SetStepped, Touches
<1>5. ASSUME NEW x, x # col, PlainAt(stored, c, M, x) PROVE PlainAt(stored, d, N, x)
  <2> SUFFICES ASSUME NEW P, AgreesOn(P, d.params, x)
               PROVE SameAt(Final(stored, d.frags, P), N, x)
    BY DEF PlainAt
  <2>1. AgreesOn(P, c.params, x)
    BY <1>5 DEF AgreesOn, SetStepped
  <2>2. SameAt(Final(stored, c.frags, P), M, x)
    BY <1>5, <2>1 DEF PlainAt
  <2> QED
    BY <1>4, <1>5, <2>2 DEF SameAt
<1>6. ASSUME NEW x, x # col, AppendAt(stored, c, M, x) PROVE AppendAt(stored, d, N, x)
  <2> DEFINE name == TagName(x, "append")
             E == Elements(Column(stored, x))
  <2>1. name[1] = x
    BY DEF TagName
  <2> HIDE DEF name, E
  <2>2. name \in DOMAIN d.params <=> name \in DOMAIN c.params
    BY <1>6, <2>1 DEF SetStepped
  <2>3. SameAt(N, M, x) /\ \A P : SameAt(Final(stored, d.frags, P), Final(stored, c.frags, P), x)
    BY <1>4, <1>6
  <2>4. CASE name \in DOMAIN c.params
    <3>1. d.params[name] = c.params[name]
      BY <1>6, <2>1, <2>4 DEF SetStepped
    <3>2. PICK L : /\ IsSeq(L) /\ c.params[name] = <<"list", L>>
                   /\ x \in DOMAIN M /\ M[x] = <<"list", E \o L>>
                   /\ \A P : LET r == Final(stored, c.frags, P)
                             IN x \in DOMAIN r /\ r[x] = <<"list", E \o Elements(P[name])>>
      BY <1>6, <2>4 DEF AppendAt, name, E
    <3>3. x \in DOMAIN N /\ N[x] = <<"list", E \o L>>
      BY <2>3, <3>2 DEF SameAt
    <3>4. ASSUME NEW P
          PROVE  LET r == Final(stored, d.frags, P)
                 IN x \in DOMAIN r /\ r[x] = <<"list", E \o Elements(P[name])>>
      BY <2>3, <3>2 DEF SameAt
    <3>5. name \in DOMAIN d.params /\ d.params[name] = <<"list", L>>
      BY <2>2, <2>4, <3>1, <3>2
    <3> QED
      BY <3>2, <3>3, <3>4, <3>5 DEF AppendAt, name, E
  <2>5. CASE name \notin DOMAIN c.params
    <3>1. SameAt(M, stored, x) /\ \A P : SameAt(Final(stored, c.frags, P), stored, x)
      BY <1>6, <2>5 DEF AppendAt, name
    <3>2. SameAt(N, stored, x) /\ \A P : SameAt(Final(stored, d.frags, P), stored, x)
      BY <2>3, <3>1 DEF SameAt
    <3> QED
      BY <2>2, <2>5, <3>2 DEF AppendAt, name
  <2> QED
    BY <2>4, <2>5
<1>7. ASSUME NEW x PROVE IF Appended(calls, x) THEN AppendAt(stored, d, N, x)
                 ELSE PlainAt(stored, d, N, x)
  <2>1. CASE x = col
    BY <2>1
  <2>2. CASE x # col
    BY <2>2, <1>5, <1>6 DEF SetBuilt
  <2> QED
    BY <2>1, <2>2
<1> QED
  BY <1>2, <1>3, <1>7 DEF SetBuilt

\* A value set.
LEMMA ParamStep ==
  ASSUME NEW stored, NEW c, Builder(c), NEW M, NEW call_,
         NEW w, SetName(call_, ColName(call_[2]))
  PROVE  LET d == SetCol(c, call_[2], w)
             N == With(M, call_[2], w)
         IN  SetStepped(stored, c, call_, d, M, N) /\ PlainAt(stored, d, N, call_[2])
<1> DEFINE col == call_[2]
           name == ColName(col)
           f == <<"param", col, name>>
           e == WithFrag(c, f)
           d == WithParam(e, name, w)
           N == With(M, col, w)
<1>1. SetCol(c, col, w) = d
  BY DEF SetCol
<1>2. name[1] = col
  BY DEF ColName
<1>3. ASSUME NEW r, NEW P PROVE Assigned(r, f, P) = With(r, col, P[name])
  BY DEF Assigned
<1> HIDE DEF f, name
<1>4. Builder(e) /\ e = [frags |-> Append(c.frags, f), params |-> c.params]
  BY WithFragIs
<1> HIDE DEF e
<1>5. Builder(d) /\ d = [frags |-> e.frags, params |-> With(e.params, name, w)]
  BY <1>4, WithParamIs
<1> HIDE DEF d
<1>6. d.frags = Append(c.frags, f) /\ d.params = With(c.params, name, w)
  BY <1>4, <1>5
<1>7. /\ DOMAIN d.params = DOMAIN c.params \cup {name} /\ d.params[name] = w
      /\ \A y \in DOMAIN c.params : y # name => d.params[y] = c.params[y]
  BY <1>6 DEF With
<1>8. ASSUME NEW P PROVE Final(stored, d.frags, P) = With(Final(stored, c.frags, P), col, P[name])
  <2>1. IsSeq(c.frags)
    BY DEF Builder
  <2> QED
    BY <1>3, <1>6, <2>1, FinalSteps
<1>9. SetStepped(stored, c, call_, d, M, N)
  <2>1. \A n \in DOMAIN d.params \ DOMAIN c.params : n[1] = col /\ SetName(call_, n)
    BY <1>2, <1>7 DEF name
  <2>2. \A n \in DOMAIN c.params : n[1] # col => d.params[n] = c.params[n]
    BY <1>2, <1>7
  <2>3. \A P : Touches(Final(stored, c.frags, P), Final(stored, d.frags, P), col)
    BY <1>8, WithTouches
  <2>4. Touches(M, N, col)
    BY WithTouches
  <2> QED
    BY <1>5, <1>7, <2>1, <2>2, <2>3, <2>4 DEF SetStepped
<1>10. PlainAt(stored, d, N, col)
  <2> SUFFICES ASSUME NEW P, AgreesOn(P, d.params, col)
               PROVE SameAt(Final(stored, d.frags, P), N, col)
    BY DEF PlainAt
  <2>1. P[name] = w
    BY <1>2, <1>7 DEF AgreesOn
  <2> QED
    BY <1>8, <2>1, WithTouches DEF SameAt
<1> QED
  BY <1>1, <1>9, <1>10

\* A null spelled.
LEMMA NullAssigned ==
  ASSUME NEW stored, NEW c, Builder(c), NEW M, NEW call_
  PROVE  LET d == WithFrag(c, <<"null", call_[2]>>)
             N == Restrict(M, DOMAIN M \ {call_[2]})
         IN  SetStepped(stored, c, call_, d, M, N) /\ PlainAt(stored, d, N, call_[2])
<1> DEFINE col == call_[2]
           f == <<"null", col>>
           d == WithFrag(c, f)
           N == Restrict(M, DOMAIN M \ {col})
<1>1. ASSUME NEW r, NEW P PROVE Assigned(r, f, P) = Restrict(r, DOMAIN r \ {col})
  BY DEF Assigned
<1> HIDE DEF f
<1>2. Builder(d) /\ d = [frags |-> Append(c.frags, f), params |-> c.params]
  BY WithFragIs
<1> HIDE DEF d
<1>3. d.frags = Append(c.frags, f) /\ d.params = c.params
  BY <1>2
<1>4. ASSUME NEW P
      PROVE  Final(stored, d.frags, P)
                 = Restrict(Final(stored, c.frags, P), DOMAIN Final(stored, c.frags, P) \ {col})
  <2>1. IsSeq(c.frags)
    BY DEF Builder
  <2> QED
    BY <1>1, <1>3, <2>1, FinalSteps
<1>5. \A P : Touches(Final(stored, c.frags, P), Final(stored, d.frags, P), col)
          /\ col \notin DOMAIN Final(stored, d.frags, P)
  BY <1>4, RestrictTouches
<1>6. Touches(M, N, col) /\ col \notin DOMAIN N
  BY RestrictTouches
<1>7. SetStepped(stored, c, call_, d, M, N)
  BY <1>2, <1>3, <1>5, <1>6 DEF SetStepped
<1>8. PlainAt(stored, d, N, col)
  BY <1>5, <1>6 DEF PlainAt, SameAt
<1> QED
  BY <1>7, <1>8 DEF d, f

\* A call that adds nothing.
LEMMA SkipStep ==
  ASSUME NEW stored, NEW calls, NEW k, NEW c, NEW M, NEW call_, SetBuilt(stored, calls, k, c, M)
  PROVE  SetStepped(stored, c, call_, c, M, M)
BY DEF SetBuilt, SetStepped, Touches, SameAt

\* A column counted up; null stays null.
Increment(r, col, x) ==
  LET a == Column(r, col) IN IF a = Null THEN r ELSE With(r, col, <<a[1], a[2] + x>>)

\* set_expr.
LEMMA ExprStep ==
  ASSUME NEW stored, NEW calls, NEW k, NEW c, NEW M, NEW call_, SetBuilt(stored, calls, k, c, M),
         NEW x,
         PlainAt(stored, c, M, call_[2])
  PROVE  LET d == WithFrag(c, <<"expr", call_[2], x>>)
             N == Increment(M, call_[2], x)
         IN  SetStepped(stored, c, call_, d, M, N) /\ PlainAt(stored, d, N, call_[2])
<1> DEFINE col == call_[2]
           f == <<"expr", col, x>>
           d == WithFrag(c, f)
           N == Increment(M, col, x)
<1>1. ASSUME NEW r, NEW P PROVE Assigned(r, f, P) = Increment(r, col, x)
  BY DEF Assigned, Increment
<1> HIDE DEF f
<1>2. Builder(d) /\ d = [frags |-> Append(c.frags, f), params |-> c.params]
  BY WithFragIs DEF SetBuilt
<1> HIDE DEF d
<1>3. d.frags = Append(c.frags, f) /\ d.params = c.params
  BY <1>2
<1>4. ASSUME NEW P PROVE Final(stored, d.frags, P) = Increment(Final(stored, c.frags, P), col, x)
  <2>1. IsSeq(c.frags)
    BY DEF SetBuilt, Builder
  <2> QED
    BY <1>1, <1>3, <2>1, FinalSteps
<1>5. ASSUME NEW r, RowFn(r) PROVE Touches(r, Increment(r, col, x), col)
  <2>1. Touches(r, r, col)
    BY <1>5 DEF Touches, SameAt
  <2> QED
    BY <2>1, WithTouches DEF Increment
<1>6. \A P : Touches(Final(stored, c.frags, P), Final(stored, d.frags, P), col)
  BY <1>4, <1>5 DEF SetBuilt
<1>7. Touches(M, N, col)
  BY <1>5 DEF SetBuilt
<1>8. SetStepped(stored, c, call_, d, M, N)
  BY <1>2, <1>3, <1>6, <1>7 DEF SetStepped
<1>9. PlainAt(stored, d, N, col)
  <2> SUFFICES ASSUME NEW P, AgreesOn(P, d.params, col)
               PROVE SameAt(Final(stored, d.frags, P), N, col)
    BY DEF PlainAt
  <2> DEFINE r == Final(stored, c.frags, P)
  <2>1. SameAt(r, M, col)
    BY <1>3 DEF PlainAt
  <2> HIDE DEF r
  <2>2. Column(r, col) = Column(M, col)
    BY <2>1 DEF Column, SameAt
  <2>3. SameAt(Increment(r, col, x), Increment(M, col, x), col)
    <3>1. CASE Column(r, col) = Null
      BY <2>1, <2>2, <3>1 DEF Increment
    <3>2. CASE Column(r, col) # Null
      <4> DEFINE v == <<Column(r, col)[1], Column(r, col)[2] + x>>
      <4>1. Increment(r, col, x) = With(r, col, v) /\ Increment(M, col, x) = With(M, col, v)
        BY <2>2, <3>2 DEF Increment
      <4> HIDE DEF v
      <4> QED
        BY <4>1, WithTouches DEF SameAt
    <3> QED
      BY <3>1, <3>2
  <2> QED
    BY <1>4, <2>3 DEF r
<1> QED
  BY <1>8, <1>9 DEF d, f

\* Joining sequences.
LEMMA Juxtaposed ==
  ASSUME NEW s, IsSeq(s), NEW t, IsSeq(t), NEW e
  PROVE  /\ Append(s \o t, e) = s \o Append(t, e)
         /\ Append(s, e) = s \o <<e>>
         /\ IsSeq(<<e>>) /\ IsSeq(Append(t, e)) /\ IsSeq(s \o t)
<1>1. PICK S : s \in Seq(S)
  BY DEF IsSeq
<1>2. PICK T : t \in Seq(T)
  BY DEF IsSeq
<1> DEFINE U == S \cup T \cup {e}
<1>3. s \in Seq(U) /\ t \in Seq(U) /\ e \in U
  BY <1>1, <1>2, SeqMonotonic
<1> HIDE DEF U
<1>4. <<e>> \in Seq(U) /\ Append(t, e) \in Seq(U) /\ s \o t \in Seq(U)
  BY <1>3
<1>5. Append(s \o t, e) = s \o Append(t, e)
  <2>1. Append(s \o t, e) = (s \o t) \o <<e>> /\ Append(t, e) = t \o <<e>>
    BY <1>3, <1>4, AppendProperties
  <2> QED
    BY <1>3, <1>4, <2>1, ConcatAssociative
<1>6. Append(s, e) = s \o <<e>>
  BY <1>3, AppendProperties
<1> QED
  BY <1>4, <1>5, <1>6 DEF IsSeq

\* append: the first call makes the fragment, the others lengthen its list.
LEMMA AppendStep ==
  ASSUME NEW stored, NEW calls, NEW k, NEW c, NEW M, NEW call_, SetBuilt(stored, calls, k, c, M),
         NEW w,
         AppendAt(stored, c, M, call_[2]), IsSeq(Elements(Column(stored, call_[2]))),
         SetName(call_, TagName(call_[2], "append"))
  PROVE  LET d == AppendTo(c, call_[2], w)
             N == With(M, call_[2], <<"list", Append(Elements(Column(M, call_[2])), w)>>)
         IN  SetStepped(stored, c, call_, d, M, N) /\ AppendAt(stored, d, N, call_[2])
<1> DEFINE col == call_[2]
           name == TagName(col, "append")
           E == Elements(Column(stored, col))
           N == With(M, col, <<"list", Append(Elements(Column(M, col)), w)>>)
<1>0. name[1] = col
  BY DEF TagName
<1>1. CASE name \in DOMAIN c.params
  <2>1. PICK L : /\ IsSeq(L) /\ c.params[name] = <<"list", L>>
                 /\ col \in DOMAIN M /\ M[col] = <<"list", E \o L>>
                 /\ \A P : LET r == Final(stored, c.frags, P)
                           IN col \in DOMAIN r /\ r[col] = <<"list", E \o Elements(P[name])>>
    BY <1>1 DEF AppendAt
  <2> DEFINE v == <<"list", Append(L, w)>>
             d == WithParam(c, name, v)
  <2>2. AppendTo(c, col, w) = d
    <3>1. Kind(c.params[name]) = "list" /\ c.params[name][2] = L
      BY <2>1 DEF Kind
    <3> QED
      BY <1>1, <3>1 DEF AppendTo
  <2> HIDE DEF v, name
  <2>3. Builder(d) /\ d = [frags |-> c.frags, params |-> With(c.params, name, v)]
    BY WithParamIs DEF SetBuilt
  <2> HIDE DEF d
  <2>4. d.frags = c.frags /\ d.params = With(c.params, name, v)
    BY <2>3
  <2>5. /\ DOMAIN d.params = DOMAIN c.params /\ d.params[name] = v
        /\ \A y \in DOMAIN c.params : y # name => d.params[y] = c.params[y]
    BY <1>1, <2>4 DEF With
  <2>6. Column(M, col) = <<"list", E \o L>>
    BY <2>1 DEF Column
  <2>7. Elements(Column(M, col)) = E \o L
    BY <2>6 DEF Elements, Kind
  <2>8. Append(E \o L, w) = E \o Append(L, w) /\ IsSeq(Append(L, w))
    <3>1. IsSeq(E) /\ IsSeq(L)
      BY <2>1
    <3> HIDE DEF E
    <3>2. Append(E \o L, w) = E \o Append(L, w)
      BY <3>1, Juxtaposed
    <3>3. IsSeq(Append(L, w))
      BY <3>1, Sequences
    <3> QED
      BY <3>2, <3>3
  <2>9. col \in DOMAIN N /\ N[col] = <<"list", E \o Append(L, w)>>
    <3> DEFINE x == <<"list", Append(Elements(Column(M, col)), w)>>
    <3>1. x = <<"list", E \o Append(L, w)>>
      BY <2>7, <2>8
    <3> HIDE DEF x
    <3>2. col \in DOMAIN With(M, col, x) /\ With(M, col, x)[col] = x
      BY WithTouches
    <3>3. N = With(M, col, x)
      BY DEF x
    <3> QED
      BY <3>1, <3>2, <3>3
  <2>10. SetStepped(stored, c, call_, d, M, N)
    <3>1. Touches(M, N, col)
      BY WithTouches
    <3>2. \A P : Touches(Final(stored, c.frags, P), Final(stored, d.frags, P), col)
      BY <2>4 DEF SetBuilt, Touches, SameAt
    <3>3. \A n \in DOMAIN c.params : n[1] # col => d.params[n] = c.params[n]
      BY <1>0, <2>5 DEF name
    <3> HIDE DEF N
    <3> QED
      BY <2>3, <2>5, <3>1, <3>2, <3>3 DEF SetStepped
  <2>11. AppendAt(stored, d, N, col)
    <3>1. name \in DOMAIN d.params /\ d.params[name] = <<"list", Append(L, w)>>
      BY <1>1, <2>5 DEF v
    <3>2. \A P : LET r == Final(stored, d.frags, P)
                 IN col \in DOMAIN r /\ r[col] = <<"list", E \o Elements(P[name])>>
      BY <2>1, <2>4
    <3> HIDE DEF N, E
    <3> QED
      BY <2>8, <2>9, <3>1, <3>2 DEF AppendAt, name, E
  <2> QED
    BY <2>2, <2>10, <2>11
<1>2. CASE name \notin DOMAIN c.params
  <2>1. SameAt(M, stored, col) /\ \A P : SameAt(Final(stored, c.frags, P), stored, col)
    BY <1>2 DEF AppendAt
  <2> DEFINE f == <<"append", col, name>>
             v == <<"list", <<w>>>>
             e == WithFrag(c, f)
             d == WithParam(e, name, v)
  <2>2. AppendTo(c, col, w) = d
    BY <1>2 DEF AppendTo
  <2>3. ASSUME NEW r, NEW P
        PROVE  Assigned(r, f, P) = With(r, col,
                   <<"list", Elements(Column(r, col)) \o Elements(P[name])>>)
    BY DEF Assigned
  <2> HIDE DEF v, name, f
  <2>4. Builder(e) /\ e = [frags |-> Append(c.frags, f), params |-> c.params]
    BY WithFragIs DEF SetBuilt
  <2> HIDE DEF e
  <2>5. Builder(d) /\ d = [frags |-> e.frags, params |-> With(e.params, name, v)]
    BY <2>4, WithParamIs
  <2> HIDE DEF d
  <2>6. d.frags = Append(c.frags, f) /\ d.params = With(c.params, name, v)
    BY <2>4, <2>5
  <2>7. /\ DOMAIN d.params = DOMAIN c.params \cup {name} /\ d.params[name] = v
        /\ \A y \in DOMAIN c.params : y # name => d.params[y] = c.params[y]
    BY <2>6 DEF With
  <2>8. \A r : SameAt(r, stored, col) => Elements(Column(r, col)) = E
    BY DEF SameAt, Column
  <2>9. ASSUME NEW P
        PROVE  Final(stored, d.frags, P)
                   = With(Final(stored, c.frags, P), col, <<"list", E \o Elements(P[name])>>)
    <3>1. IsSeq(c.frags)
      BY DEF SetBuilt, Builder
    <3>2. Elements(Column(Final(stored, c.frags, P), col)) = E
      BY <2>1, <2>8
    <3> DEFINE r == Final(stored, c.frags, P)
    <3>3. Assigned(r, f, P) = With(r, col, <<"list", E \o Elements(P[name])>>)
      BY <2>3, <3>2
    <3>4. Final(stored, Append(c.frags, f), P) = Assigned(r, f, P)
      BY <3>1, FinalSteps
    <3> HIDE DEF E
    <3> QED
      BY <2>6, <3>3, <3>4
  <2>10. Append(E, w) = E \o <<w>> /\ IsSeq(<<w>>)
    <3>1. IsSeq(E)
      OBVIOUS
    <3> HIDE DEF E
    <3> QED
      BY <3>1, Juxtaposed
  <2>11. Elements(Column(M, col)) = E
    BY <2>1, <2>8
  <2>12. col \in DOMAIN N /\ N[col] = <<"list", E \o <<w>>>>
    <3> DEFINE x == <<"list", Append(Elements(Column(M, col)), w)>>
    <3>1. x = <<"list", E \o <<w>>>>
      BY <2>10, <2>11
    <3> HIDE DEF x
    <3>2. col \in DOMAIN With(M, col, x) /\ With(M, col, x)[col] = x
      BY WithTouches
    <3>3. N = With(M, col, x)
      BY DEF x
    <3> QED
      BY <3>1, <3>2, <3>3
  <2>13. SetStepped(stored, c, call_, d, M, N)
    <3>1. Touches(M, N, col)
      BY WithTouches
    <3>2. ASSUME NEW P PROVE Touches(Final(stored, c.frags, P), Final(stored, d.frags, P), col)
      <4> DEFINE r == Final(stored, c.frags, P)
                 x == <<"list", E \o Elements(P[name])>>
      <4>1. Final(stored, d.frags, P) = With(r, col, x)
        BY <2>9
      <4> HIDE DEF r, x
      <4>2. Touches(r, With(r, col, x), col)
        BY WithTouches
      <4> QED
        BY <4>1, <4>2 DEF r
    <3>3. \A n \in DOMAIN c.params : n[1] # col => d.params[n] = c.params[n]
      BY <1>0, <2>7 DEF name
    <3>4. \A n \in DOMAIN d.params \ DOMAIN c.params : n[1] = col /\ SetName(call_, n)
      BY <1>0, <2>7 DEF name
    <3> HIDE DEF N
    <3> QED
      BY <2>5, <2>7, <3>1, <3>2, <3>3, <3>4 DEF SetStepped
  <2>14. AppendAt(stored, d, N, col)
    <3>1. name \in DOMAIN d.params /\ d.params[name] = <<"list", <<w>>>>
      BY <2>7 DEF v
    <3>2. ASSUME NEW P
          PROVE  LET r == Final(stored, d.frags, P)
                 IN col \in DOMAIN r /\ r[col] = <<"list", E \o Elements(P[name])>>
      <4> DEFINE r == Final(stored, c.frags, P)
                 x == <<"list", E \o Elements(P[name])>>
      <4>1. Final(stored, d.frags, P) = With(r, col, x)
        BY <2>9
      <4> HIDE DEF r, x
      <4>2. col \in DOMAIN With(r, col, x) /\ With(r, col, x)[col] = x
        BY WithTouches
      <4> QED
        BY <4>1, <4>2 DEF x
    <3> HIDE DEF N, E
    <3> QED
      BY <2>10, <2>12, <3>1, <3>2 DEF AppendAt, name, E
  <2> QED
    BY <2>2, <2>13, <2>14
<1> QED
  BY <1>1, <1>2

\* The calls of SetClause.
SetMethod == {"set", "set_opt", "set_when", "set_or_null", "set_expr", "append"}

\* What the SET calls but append come to.
LEMMA CallKinds ==
  ASSUME NEW c, NEW M, NEW call_, call_[1] \in SetMethod \ {"append"}
  PROVE  LET d == Setting(c, call_)
             N == Puts(M, call_)
             col == call_[2]
         IN  \/ SetName(call_, ColName(col)) /\ \E w : d = SetCol(c, col, w)
                    /\ N = With(M, col, w)
             \/ d = WithFrag(c, <<"null", col>>) /\ N = Restrict(M, DOMAIN M \ {col})
             \/ d = c /\ N = M
             \/ \E x : d = WithFrag(c, <<"expr", col, x>>) /\ N = Increment(M, col, x)
<1> DEFINE d == Setting(c, call_)
           N == Puts(M, call_)
           col == call_[2]
<1>1. CASE call_[1] = "set"
  <2>1. d = SetCol(c, col, call_[3]) /\ N = With(M, col, call_[3])
    BY <1>1 DEF Setting, Puts
  <2>2. SetName(call_, ColName(col))
    BY <1>1 DEF SetName
  <2> QED
    BY <2>1, <2>2
<1>2. CASE call_[1] \in {"set_opt", "set_or_null"} /\ call_[3] # None
  <2>1. d = SetCol(c, col, call_[3][1]) /\ N = With(M, col, call_[3][1])
    BY <1>2 DEF Setting, Puts, SetOpt, SetOrNull
  <2>2. SetName(call_, ColName(col))
    BY <1>2 DEF SetName
  <2> QED
    BY <2>1, <2>2
<1>3. CASE call_[1] = "set_opt" /\ call_[3] = None
  BY <1>3 DEF Setting, Puts, SetOpt
<1>4. CASE call_[1] = "set_or_null" /\ call_[3] = None
  BY <1>4 DEF Setting, Puts, SetOrNull
<1>5. CASE call_[1] = "set_when"
  <2>1. CASE call_[4]
    <3>1. d = SetCol(c, col, call_[3]) /\ N = With(M, col, call_[3])
      BY <1>5, <2>1 DEF Setting, Puts, SetWhen
    <3>2. SetName(call_, ColName(col))
      BY <1>5 DEF SetName
    <3> QED
      BY <3>1, <3>2
  <2>2. CASE ~call_[4]
    BY <1>5, <2>2 DEF Setting, Puts, SetWhen
  <2> QED
    BY <2>1, <2>2
<1>6. CASE call_[1] = "set_expr"
  <2>1. d = WithFrag(c, <<"expr", col, call_[3]>>) /\ N = Increment(M, col, call_[3])
    BY <1>6 DEF Setting, Puts, SetExpr, Increment
  <2> QED
    BY <2>1
<1> QED
  BY <1>1, <1>2, <1>3, <1>4, <1>5, <1>6 DEF SetMethod

\* Calls the SET builder is meant for, on a row whose lists are lists.
SetCalls(stored, calls) ==
  /\ IsSeq(calls) /\ AppendsAlone(calls) /\ RowFn(stored)
  /\ \A i \in DOMAIN calls : calls[i][1] \in SetMethod
  /\ \A col : Appended(calls, col) => IsSeq(Elements(Column(stored, col)))

\* Every call of the SET builder.
LEMMA SetStep ==
  ASSUME NEW stored, NEW calls, SetCalls(stored, calls), NEW k \in Nat, k + 1 \in DOMAIN calls,
         NEW c, NEW M, SetBuilt(stored, calls, k, c, M)
  PROVE  SetBuilt(stored, calls, k + 1, Setting(c, calls[k + 1]), Puts(M, calls[k + 1]))
<1> DEFINE call_ == calls[k + 1]
           col == call_[2]
           d == Setting(c, call_)
           N == Puts(M, call_)
<1>1. call_[1] \in SetMethod
  BY DEF SetCalls
<1>2. Builder(c)
  BY DEF SetBuilt
<1>3. CASE call_[1] = "append"
  <2>1. Appended(calls, col)
    BY <1>3 DEF Appended
  <2>2. AppendAt(stored, c, M, col) /\ IsSeq(Elements(Column(stored, col)))
    BY <2>1 DEF SetBuilt, SetCalls
  <2>3. SetName(call_, TagName(col, "append"))
    BY <1>3 DEF SetName
  <2>4. d = AppendTo(c, col, call_[3])
            /\ N = With(M, col, <<"list", Append(Elements(Column(M, col)), call_[3])>>)
    BY <1>3 DEF Setting, Puts
  <2>5. SetStepped(stored, c, call_, d, M, N) /\ AppendAt(stored, d, N, col)
    <3> DEFINE w == call_[3]
    <3>1. d = AppendTo(c, col, w)
              /\ N = With(M, col, <<"list", Append(Elements(Column(M, col)), w)>>)
      BY <2>4
    <3> DEFINE e == AppendTo(c, col, w)
               O == With(M, col, <<"list", Append(Elements(Column(M, col)), w)>>)
    <3> HIDE DEF w, d, N, call_
    <3>2. SetStepped(stored, c, call_, e, M, O) /\ AppendAt(stored, e, O, call_[2])
      BY <2>2, <2>3, AppendStep
    <3> QED
      BY <3>1, <3>2
  <2> HIDE DEF d, N
  <2>6. SetBuilt(stored, calls, k + 1, d, N)
    BY <2>1, <2>5, SetFrame
  <2> QED
    BY <2>6 DEF d, N
<1>4. CASE call_[1] # "append"
  <2>1. ~Appended(calls, col)
    BY <1>4 DEF Appended, SetCalls, AppendsAlone
  <2>2. PlainAt(stored, c, M, col)
    BY <2>1 DEF SetBuilt
  <2>3. SetStepped(stored, c, call_, d, M, N) /\ PlainAt(stored, d, N, col)
    <3>1. \/ SetName(call_, ColName(col)) /\ \E w : d = SetCol(c, col, w)
                 /\ N = With(M, col, w)
          \/ d = WithFrag(c, <<"null", col>>) /\ N = Restrict(M, DOMAIN M \ {col})
          \/ d = c /\ N = M
          \/ \E x : d = WithFrag(c, <<"expr", col, x>>) /\ N = Increment(M, col, x)
      <4>1. call_[1] \in SetMethod \ {"append"}
        BY <1>1, <1>4
      <4> HIDE DEF call_
      <4> QED
        BY <4>1, CallKinds
    <3> HIDE DEF d, N, call_
    <3>2. CASE SetName(call_, ColName(col)) /\ \E w : d = SetCol(c, col, w)
                   /\ N = With(M, col, w)
      BY <1>2, <3>2, ParamStep
    <3>3. CASE d = WithFrag(c, <<"null", col>>) /\ N = Restrict(M, DOMAIN M \ {col})
      BY <1>2, <3>3, NullAssigned
    <3>4. CASE d = c /\ N = M
      BY <2>2, <3>4, SkipStep
    <3>5. CASE \E x : d = WithFrag(c, <<"expr", col, x>>) /\ N = Increment(M, col, x)
      BY <2>2, <3>5, ExprStep
    <3> QED
      BY <3>1, <3>2, <3>3, <3>4, <3>5
  <2> HIDE DEF d, N
  <2>4. SetBuilt(stored, calls, k + 1, d, N)
    BY <2>1, <2>3, SetFrame
  <2> QED
    BY <2>4 DEF d, N
<1> QED
  BY <1>3, <1>4

\* What the whole SET clause does.
LEMMA SetMeans ==
  ASSUME NEW stored, NEW calls, SetCalls(stored, calls)
  PROVE  SetBuilt(stored, calls, Len(calls), SetClause(calls), PutAfter(stored, calls)[Len(calls)])
<1> DEFINE n == Len(calls)
           c(k) == SetAfter(calls)[k]
           M(k) == PutAfter(stored, calls)[k]
           Good == {k \in Nat : k <= n => SetBuilt(stored, calls, k, c(k), M(k))}
<1>1. n \in Nat /\ DOMAIN calls = 1..n
  BY Sequences DEF SetCalls
<1> HIDE DEF n
<1>2. c(0) = Clause /\ \A i \in 1..n : c(i) = Setting(c(i - 1), calls[i])
  BY <1>1, SetSteps DEF n
<1>3. M(0) = stored /\ \A i \in 1..n : M(i) = Puts(M(i - 1), calls[i])
  BY <1>1, PutSteps DEF n
<1> HIDE DEF c, M
<1>4. SetBuilt(stored, calls, 0, Clause, stored)
  <2>1. \A P : Final(stored, Clause.frags, P) = stored
    BY EmptyBuilder, FinalStart
  <2>2. RowFn(stored)
    BY DEF SetCalls
  <2>3. \A x : SameAt(stored, stored, x)
    BY DEF SameAt
  <2>4. \A x : AppendAt(stored, Clause, stored, x) /\ PlainAt(stored, Clause, stored, x)
    BY <2>1, <2>3, EmptyBuilder DEF AppendAt, PlainAt
  <2> QED
    BY <2>1, <2>2, <2>4, EmptyBuilder DEF SetBuilt
<1>5. 0 \in Good
  BY <1>2, <1>3, <1>4
<1>6. ASSUME NEW k \in Nat, k \in Good PROVE k + 1 \in Good
  <2> SUFFICES ASSUME k + 1 <= n PROVE SetBuilt(stored, calls, k + 1, c(k + 1), M(k + 1))
    OBVIOUS
  <2>1. SetBuilt(stored, calls, k, c(k), M(k))
    BY <1>1, <1>6
  <2>2. k + 1 \in 1..n /\ (k + 1) - 1 = k
    BY <1>1
  <2>3. c(k + 1) = Setting(c(k), calls[k + 1]) /\ M(k + 1) = Puts(M(k), calls[k + 1])
    BY <1>2, <1>3, <2>2
  <2> QED
    BY <1>1, <2>1, <2>2, <2>3, SetStep
<1>7. n \in Good
  <2> HIDE DEF Good
  <2> QED
    BY <1>1, <1>5, <1>6, Induction
<1> QED
  BY <1>1, <1>7 DEF n, c, M, SetClause

\* A statement of both builders.
Statement(stored, s) ==
  SetCalls(stored, s[1]) /\ FilterCalls(s[2]) /\ SetsApart(s[1], s[2])

\* The core of the theorem: with the parameters of both clauses merged, no fragment is
\* filled with the value of another, so the statement does what its calls say.
LEMMA ExecuteMeans ==
  ASSUME NEW stored, NEW s, Statement(stored, s)
  PROVE  Execute(stored, Built(s)) = Meant(stored, s)
<1> DEFINE sc == SetClause(s[1])
           fc == FilterClause(s[2])
           P == Over(fc.params, sc.params)
           M == PutAfter(stored, s[1])[Len(s[1])]
           R == Final(stored, sc.frags, P)
<1>1. SetBuilt(stored, s[1], Len(s[1]), sc, M)
  BY SetMeans DEF Statement
<1>2. FilterBuilt(s[2], Len(s[2]), fc)
  BY FilterMeans DEF Statement
<1>3. DOMAIN s[1] = 1..Len(s[1]) /\ DOMAIN s[2] = 1..Len(s[2])
  BY Sequences DEF Statement, SetCalls, FilterCalls
<1>4. Built(s) = [set |-> sc.frags, where |-> fc.frags, params |-> P]
  BY DEF Built, Update
<1> HIDE DEF sc, fc, M
<1>5. Agrees(P, fc.params)
  BY DEF Agrees, Over
<1>6. Agrees(P, sc.params)
  <2> SUFFICES ASSUME NEW n \in DOMAIN sc.params, n \in DOMAIN fc.params PROVE FALSE
    BY DEF Agrees, Over
  <2>1. PICK i \in 1..Len(s[1]) : n[1] = s[1][i][2] /\ SetName(s[1][i], n)
    BY <1>1 DEF SetBuilt, SetNamed
  <2>2. PICK j \in 1..Len(s[2]) : n[1] = s[2][j][2] /\ TagFor(s[2][j], n[2])
    BY <1>2 DEF FilterBuilt, Named
  <2>3. n[2] # "append" /\ (n[2] = "" => OwnParam(s[2][j]))
    BY <2>2 DEF TagFor
  <2>4. CASE s[1][i][1] = "append"
    <3>1. n = TagName(s[1][i][2], "append")
      BY <2>1, <2>4 DEF SetName
    <3> QED
      BY <2>3, <3>1 DEF TagName
  <2>5. CASE s[1][i][1] # "append"
    <3>1. n = ColName(s[1][i][2]) /\ s[1][i][1] # "set_expr"
      BY <2>1, <2>5 DEF SetName
    <3>2. n[2] = ""
      BY <3>1 DEF ColName
    <3>3. OwnParam(s[2][j])
      BY <2>3, <3>2
    <3>4. s[1][i][1] \notin {"append", "set_expr"}
      BY <2>5, <3>1
    <3>5. s[1][i][2] # s[2][j][2]
      BY <1>3, <3>3, <3>4 DEF Statement, SetsApart
    <3> QED
      BY <2>1, <2>2, <3>5
  <2> QED
    BY <2>4, <2>5
<1> HIDE DEF P
<1>7. Selected(stored, Built(s)) <=> \A i \in DOMAIN s[2] : Says(stored, s[2][i])
  <2>1. IsSeq(fc.frags)
    BY <1>2 DEF FilterBuilt, Builder
  <2>2. DOMAIN fc.frags = 1..Len(fc.frags)
    BY <2>1, Sequences
  <2>3. (\A i \in 1..Len(fc.frags) : Satisfies(stored, fc.frags[i], P))
            <=> \A j \in 1..Len(s[2]) : Says(stored, s[2][j])
    BY <1>2, <1>5 DEF FilterBuilt
  <2> QED
    BY <1>3, <1>4, <2>2, <2>3 DEF Selected
<1>8. ASSUME NEW x PROVE SameAt(R, M, x)
  <2>1. CASE Appended(s[1], x)
    <3> DEFINE name == TagName(x, "append")
               E == Elements(Column(stored, x))
    <3>1. AppendAt(stored, sc, M, x)
      BY <1>1, <2>1 DEF SetBuilt
    <3> HIDE DEF name, E
    <3>2. CASE name \in DOMAIN sc.params
      <4>1. PICK L : /\ IsSeq(L) /\ sc.params[name] = <<"list", L>>
                     /\ x \in DOMAIN M /\ M[x] = <<"list", E \o L>>
                     /\ \A Q : LET r == Final(stored, sc.frags, Q)
                               IN x \in DOMAIN r /\ r[x] = <<"list", E \o Elements(Q[name])>>
        BY <3>1, <3>2 DEF AppendAt, name, E
      <4>2. P[name] = <<"list", L>>
        BY <1>6, <3>2, <4>1 DEF Agrees
      <4>3. Elements(P[name]) = L
        BY <4>2 DEF Elements, Kind
      <4>4. x \in DOMAIN R /\ R[x] = <<"list", E \o L>>
        BY <4>1, <4>3
      <4> QED
        BY <4>1, <4>4 DEF SameAt
    <3>3. CASE name \notin DOMAIN sc.params
      <4>1. SameAt(M, stored, x) /\ SameAt(R, stored, x)
        BY <3>1, <3>3 DEF AppendAt, name
      <4> QED
        BY <4>1 DEF SameAt
    <3> QED
      BY <3>2, <3>3
  <2>2. CASE ~Appended(s[1], x)
    <3>1. PlainAt(stored, sc, M, x)
      BY <1>1, <2>2 DEF SetBuilt
    <3>2. AgreesOn(P, sc.params, x)
      BY <1>6 DEF Agrees, AgreesOn
    <3> QED
      BY <3>1, <3>2 DEF PlainAt
  <2> QED
    BY <2>1, <2>2
<1>9. R = M
  <2>1. RowFn(R) /\ RowFn(M)
    BY <1>1 DEF SetBuilt
  <2> HIDE DEF R
  <2>2. DOMAIN R = DOMAIN M /\ \A x \in DOMAIN R : R[x] = M[x]
    BY <1>8 DEF SameAt
  <2> QED
    BY <2>1, <2>2 DEF RowFn
<1>10. RowAfter(stored, Built(s).set, Built(s).params)[Len(Built(s).set)] = R
  BY <1>4 DEF Final
<1> QED
  BY <1>7, <1>9, <1>10 DEF Execute, Meant, M

\* What claims to be a list is a sequence.
Lists(w) == Kind(w) = "list" => IsSeq(w[2])

\* The value a SET call may put is a wire value as far as this needs it.
SetValue(call_) ==
  /\ call_[1] \in {"set", "set_when"} => Lists(call_[3])
  /\ call_[1] \in {"set_opt", "set_or_null"} /\ call_[3] # None => Lists(call_[3][1])

\* The calls of a statement, from the builders' methods.
Calls(s) ==
  /\ IsSeq(s[1]) /\ \A i \in DOMAIN s[1] : s[1][i][1] \in SetMethod /\ SetValue(s[1][i])
  /\ IsSeq(s[2]) /\ \A i \in DOMAIN s[2] : s[2][i][1] \in FilterMethod

\* A set of statements that keep apart what the builders leave to their caller.
Usable(m) == Apart(m) /\ \A s \in m : Calls(s)

\* A column some statement of the set appends to.
AppendedBy(m, col) == \E s \in m : Appended(s[1], col)

\* A row these statements may be run on: the columns they append to hold lists, other
\* values or nothing.
RowOf(m, stored) == RowFn(stored) /\ \A col : AppendedBy(m, col) => Lists(Column(stored, col))

\* Such a row is good enough for each of them.
LEMMA StatementOf ==
  ASSUME NEW m, Usable(m), NEW s \in m, NEW stored, RowOf(m, stored)
  PROVE  Statement(stored, s)
<1>1. \A col : Appended(s[1], col) => IsSeq(Elements(Column(stored, col)))
  <2> SUFFICES ASSUME NEW col, Appended(s[1], col) PROVE IsSeq(Elements(Column(stored, col)))
    OBVIOUS
  <2>1. Lists(Column(stored, col))
    BY DEF RowOf, AppendedBy
  <2>2. IsSeq(<< >>)
    BY EmptyBuilder DEF Builder, Clause
  <2> QED
    BY <2>1, <2>2 DEF Elements, Lists
<1>2. SetCalls(stored, s[1])
  <2>1. IsSeq(s[1]) /\ AppendsAlone(s[1]) /\ RowFn(stored)
    BY DEF Usable, Calls, Apart, RowOf
  <2>2. \A i \in DOMAIN s[1] : s[1][i][1] \in SetMethod
    BY DEF Usable, Calls
  <2> QED
    BY <1>1, <2>1, <2>2 DEF SetCalls
<1>3. FilterCalls(s[2])
  <2>1. IsSeq(s[2]) /\ BindsFree(s[2])
    BY DEF Usable, Calls, Apart
  <2>2. \A i \in DOMAIN s[2] : s[2][i][1] \in FilterMethod
    BY DEF Usable, Calls
  <2> QED
    BY <2>1, <2>2 DEF FilterCalls
<1>4. SetsApart(s[1], s[2])
  BY DEF Usable, Apart
<1> QED
  BY <1>2, <1>3, <1>4 DEF Statement

\* What the SET calls come to, with the values they put.
LEMMA PutKinds ==
  ASSUME NEW M, NEW call_, call_[1] \in SetMethod, SetValue(call_)
  PROVE  LET N == Puts(M, call_)
             col == call_[2]
         IN  \/ call_[1] = "append" /\ N
                    = With(M, col, <<"list", Append(Elements(Column(M, col)), call_[3])>>)
             \/ \E w : Lists(w) /\ N = With(M, col, w)
             \/ N = Restrict(M, DOMAIN M \ {col})
             \/ N = M
             \/ call_[1] = "set_expr" /\ \E x : N = Increment(M, col, x)
<1> DEFINE N == Puts(M, call_)
           col == call_[2]
<1>1. CASE call_[1] = "set"
  BY <1>1 DEF Puts, SetValue
<1>2. CASE call_[1] \in {"set_opt", "set_or_null"} /\ call_[3] # None
  <2>1. N = With(M, col, call_[3][1])
    BY <1>2 DEF Puts
  <2>2. Lists(call_[3][1])
    BY <1>2 DEF SetValue
  <2> QED
    BY <2>1, <2>2
<1>3. CASE call_[1] = "set_opt" /\ call_[3] = None
  BY <1>3 DEF Puts
<1>4. CASE call_[1] = "set_or_null" /\ call_[3] = None
  BY <1>4 DEF Puts
<1>5. CASE call_[1] = "set_when"
  <2>1. CASE call_[4]
    <3>1. N = With(M, col, call_[3])
      BY <1>5, <2>1 DEF Puts
    <3>2. Lists(call_[3])
      BY <1>5 DEF SetValue
    <3> QED
      BY <3>1, <3>2
  <2>2. CASE ~call_[4]
    BY <1>5, <2>2 DEF Puts
  <2> QED
    BY <2>1, <2>2
<1>6. CASE call_[1] = "set_expr"
  <2>1. N = Increment(M, col, call_[3])
    BY <1>6 DEF Puts, Increment
  <2> QED
    BY <1>6, <2>1
<1>7. CASE call_[1] = "append"
  BY <1>7 DEF Puts
<1> QED
  BY <1>1, <1>2, <1>3, <1>4, <1>5, <1>6, <1>7 DEF SetMethod

\* A SET call of one of them keeps such a row.
LEMMA PutKeeps ==
  ASSUME NEW m, Usable(m), NEW s \in m, NEW i \in DOMAIN s[1], NEW M, RowOf(m, M)
  PROVE  RowOf(m, Puts(M, s[1][i]))
<1> DEFINE call_ == s[1][i]
           col == call_[2]
           N == Puts(M, call_)
<1>1. call_[1] \in SetMethod /\ SetValue(call_)
  BY DEF Usable, Calls
<1>2. call_[1] = "append" => AppendedBy(m, col)
  BY DEF AppendedBy, Appended
<1>3. call_[1] = "set_expr" => ~AppendedBy(m, col)
  BY DEF AppendedBy, Appended, Usable, Apart, CountsApart
<1>4. \/ call_[1] = "append" /\ N
             = With(M, col, <<"list", Append(Elements(Column(M, col)), call_[3])>>)
      \/ \E w : Lists(w) /\ N = With(M, col, w)
      \/ N = Restrict(M, DOMAIN M \ {col})
      \/ N = M
      \/ call_[1] = "set_expr" /\ \E x : N = Increment(M, col, x)
  <2> HIDE DEF call_
  <2> QED
    BY <1>1, PutKinds
<1> HIDE DEF call_, N
<1>5. ASSUME NEW w, Lists(w) PROVE RowOf(m, With(M, col, w))
  <2>1. \A x : Column(With(M, col, w), x) = IF x = col THEN w ELSE Column(M, x)
    BY DEF Column, With
  <2>2. RowFn(With(M, col, w))
    BY WithTouches DEF Touches
  <2> QED
    BY <1>5, <2>1, <2>2 DEF RowOf
<1>6. CASE call_[1] = "append" /\ N
               = With(M, col, <<"list", Append(Elements(Column(M, col)), call_[3])>>)
  <2>1. Lists(Column(M, col))
    BY <1>2, <1>6 DEF RowOf
  <2>2. IsSeq(Elements(Column(M, col)))
    <3>1. IsSeq(<< >>)
      BY EmptyBuilder DEF Builder, Clause
    <3> QED
      BY <2>1, <3>1 DEF Elements, Lists
  <2>3. IsSeq(Append(Elements(Column(M, col)), call_[3]))
    BY <2>2, Sequences
  <2> DEFINE w == <<"list", Append(Elements(Column(M, col)), call_[3])>>
  <2>4. Lists(w)
    BY <2>3 DEF Lists
  <2>5. N = With(M, col, w)
    BY <1>6
  <2> HIDE DEF w
  <2>6. RowOf(m, N)
    BY <1>5, <2>4, <2>5
  <2> QED
    BY <2>6 DEF N, call_
<1>7. CASE N = Restrict(M, DOMAIN M \ {col})
  <2>1. RowFn(N) /\ \A x : Column(N, x) = IF x = col THEN Null ELSE Column(M, x)
    BY <1>7 DEF Restrict, Column, RowFn
  <2>2. Lists(Null)
    BY DEF Lists, Null, Kind
  <2>3. RowOf(m, N)
    BY <2>1, <2>2 DEF RowOf
  <2> QED
    BY <2>3 DEF N, call_
<1>8. CASE call_[1] = "set_expr" /\ \E x : N = Increment(M, col, x)
  <2>1. ~AppendedBy(m, col)
    BY <1>3, <1>8
  <2>2. PICK x : N = Increment(M, col, x)
    BY <1>8
  <2> DEFINE w == <<Column(M, col)[1], Column(M, col)[2] + x>>
  <2>3. N = M \/ N = With(M, col, w)
    BY <2>2 DEF Increment
  <2> HIDE DEF w
  <2>4. RowFn(N) /\ \A y : y # col => Column(N, y) = Column(M, y)
    <3>1. CASE N = M
      BY <3>1 DEF RowOf
    <3>2. CASE N = With(M, col, w)
      <4>1. RowFn(With(M, col, w))
        BY WithTouches DEF Touches
      <4>2. \A y : y # col => Column(With(M, col, w), y) = Column(M, y)
        BY DEF Column, With
      <4> QED
        BY <3>2, <4>1, <4>2
    <3> QED
      BY <2>3, <3>1, <3>2
  <2>5. RowOf(m, N)
    BY <2>1, <2>4 DEF RowOf
  <2> QED
    BY <2>5 DEF N, call_
<1>9. CASE \E w : Lists(w) /\ N = With(M, col, w)
  BY <1>5, <1>9 DEF N, call_
<1>10. CASE N = M
  BY <1>10 DEF N, call_
<1> QED
  BY <1>4, <1>6, <1>7, <1>8, <1>9, <1>10

\* A list without duplicates and an element it does not have.
LEMMA AppendNew ==
  ASSUME NEW E, IsSeq(E), NEW v
  PROVE  /\ ToSet(Append(E, v)) = ToSet(E) \cup {v}
         /\ IsInjective(E) /\ v \notin ToSet(E) => IsInjective(Append(E, v))
<1> DEFINE A == Append(E, v)
           n == Len(E)
<1>1. n \in Nat /\ DOMAIN E = 1..n /\ DOMAIN A = 1..(n + 1)
  BY Sequences
<1>2. (\A i \in 1..n : A[i] = E[i]) /\ A[n + 1] = v
  BY Sequences
<1> HIDE DEF A, n
<1>3. ToSet(A) = ToSet(E) \cup {v}
  <2>1. \A i : i \in 1..(n + 1) <=> i \in 1..n \/ i = n + 1
    BY <1>1
  <2> QED
    BY <1>1, <1>2, <2>1 DEF ToSet
<1>4. ASSUME IsInjective(E), v \notin ToSet(E) PROVE IsInjective(A)
  <2> SUFFICES ASSUME NEW a \in 1..(n + 1), NEW b \in 1..(n + 1), A[a] = A[b] PROVE a = b
    BY <1>1 DEF IsInjective
  <2>1. (a \in 1..n \/ a = n + 1) /\ (b \in 1..n \/ b = n + 1)
    BY <1>1
  <2>2. \A i \in 1..n : E[i] # v
    BY <1>1, <1>4 DEF ToSet
  <2> QED
    BY <1>1, <1>2, <1>4, <2>1, <2>2 DEF IsInjective
<1> QED
  BY <1>3, <1>4 DEF A

\* No list of the row has an element twice.
Once(stored) == \A col \in DOMAIN stored : Kind(stored[col]) = "list" => IsInjective(stored[col][2])

\* The elements of a column.
In(stored, col) == ToSet(Elements(Column(stored, col)))

\* Appending what a column does not have.
LEMMA AppendedOnce ==
  ASSUME NEW M, NEW col, NEW v, RowFn(M), Once(M), Lists(Column(M, col)), v \notin In(M, col)
  PROVE  LET N == With(M, col, <<"list", Append(Elements(Column(M, col)), v)>>)
         IN  /\ Once(N) /\ In(N, col) = In(M, col) \cup {v}
             /\ \A x : x # col => In(N, x) = In(M, x)
<1> DEFINE E == Elements(Column(M, col))
           A == Append(E, v)
           w == <<"list", A>>
           N == With(M, col, w)
<1>1. IsSeq(E) /\ IsInjective(E)
  <2>1. IsSeq(<< >>)
    BY EmptyBuilder DEF Builder, Clause
  <2>2. IsInjective(<< >>)
    BY DEF IsInjective
  <2>3. CASE Kind(Column(M, col)) = "list"
    <3>1. E = Column(M, col)[2]
      BY <2>3 DEF Elements
    <3>2. col \in DOMAIN M /\ Column(M, col) = M[col]
      BY <2>3 DEF Column, Null, Kind
    <3> QED
      BY <2>3, <3>1, <3>2 DEF Lists, Once
  <2>4. CASE Kind(Column(M, col)) # "list"
    BY <2>1, <2>2, <2>4 DEF Elements
  <2> QED
    BY <2>3, <2>4
<1>2. v \notin ToSet(E)
  BY DEF In
<1>3. ToSet(A) = ToSet(E) \cup {v} /\ IsInjective(A)
  <2> HIDE DEF E
  <2> QED
    BY <1>1, <1>2, AppendNew
<1>4. Kind(w) = "list" /\ w[2] = A
  BY DEF Kind
<1> HIDE DEF w, A, E
<1>5. DOMAIN N = DOMAIN M \cup {col} /\ N[col] = w /\ \A x \in DOMAIN M : x # col
          => N[x] = M[x]
  BY DEF With
<1> HIDE DEF N
<1>6. Once(N)
  BY <1>3, <1>4, <1>5 DEF Once
<1>7. Column(N, col) = w /\ \A x : x # col => Column(N, x) = Column(M, x)
  BY <1>5 DEF Column
<1>8. In(N, col) = ToSet(A) /\ In(M, col) = ToSet(E)
  BY <1>4, <1>7 DEF In, Elements, E
<1>9. \A x : x # col => In(N, x) = In(M, x)
  BY <1>7 DEF In
<1> QED
  BY <1>3, <1>6, <1>8, <1>9 DEF N, w, A, E

\* All the SET calls keep such a row.
LEMMA PutsKeep ==
  ASSUME NEW m, Usable(m), NEW s \in m, NEW stored, RowOf(m, stored)
  PROVE  \A k \in 0..Len(s[1]) : RowOf(m, PutAfter(stored, s[1])[k])
<1> DEFINE n == Len(s[1])
           M(k) == PutAfter(stored, s[1])[k]
           Good == {k \in Nat : k <= n => RowOf(m, M(k))}
<1>1. n \in Nat /\ DOMAIN s[1] = 1..n
  BY Sequences DEF Usable, Calls
<1> HIDE DEF n
<1>2. M(0) = stored /\ \A i \in 1..n : M(i) = Puts(M(i - 1), s[1][i])
  BY <1>1, PutSteps DEF n
<1> HIDE DEF M
<1>3. 0 \in Good
  BY <1>2
<1>4. ASSUME NEW k \in Nat, k \in Good PROVE k + 1 \in Good
  <2> SUFFICES ASSUME k + 1 <= n PROVE RowOf(m, M(k + 1))
    OBVIOUS
  <2>1. RowOf(m, M(k)) /\ k + 1 \in DOMAIN s[1]
    BY <1>1, <1>4
  <2>2. M(k + 1) = Puts(M(k), s[1][k + 1])
    <3>1. k + 1 \in 1..n /\ (k + 1) - 1 = k
      BY <1>1
    <3> QED
      BY <1>2, <3>1
  <2>3. RowOf(m, Puts(M(k), s[1][k + 1]))
    BY <2>1, PutKeeps
  <2> QED
    BY <2>2, <2>3
<1>5. Nat \subseteq Good
  <2> HIDE DEF Good
  <2> QED
    BY <1>3, <1>4, Induction
<1> QED
  BY <1>1, <1>5 DEF M, n

\* The appends of a guarded statement keep lists without duplicates: what they append was
\* not there when the WHERE was tested, and they append nothing twice.
LEMMA OnceKept ==
  ASSUME NEW m, Usable(m), NEW s \in m, Guarded(s), NEW stored, RowOf(m, stored), Once(stored),
         \A j \in DOMAIN s[2] : Says(stored, s[2][j])
  PROVE  Once(PutAfter(stored, s[1])[Len(s[1])])
<1> DEFINE n == Len(s[1])
           M(k) == PutAfter(stored, s[1])[k]
           Added(k, col) == {s[1][i][3] : i \in {i \in 1..k : s[1][i][2] = col}}
           Fine(k) == Once(M(k))
               /\ \A col : In(M(k), col) \subseteq In(stored, col) \cup Added(k, col)
           Good == {k \in Nat : k <= n => Fine(k)}
<1>1. n \in Nat /\ DOMAIN s[1] = 1..n
  BY Sequences DEF Usable, Calls
<1> HIDE DEF n
<1>2. M(0) = stored /\ \A i \in 1..n : M(i) = Puts(M(i - 1), s[1][i])
  BY <1>1, PutSteps DEF n
<1>3. \A k \in 0..n : RowOf(m, M(k))
  BY <1>1, PutsKeep DEF n
<1> HIDE DEF M
<1>4. 0 \in Good
  BY <1>2
<1>5. ASSUME NEW k \in Nat, k \in Good PROVE k + 1 \in Good
  <2> SUFFICES ASSUME k + 1 <= n PROVE Fine(k + 1)
    OBVIOUS
  <2> DEFINE i == k + 1
             call_ == s[1][i]
             col == call_[2]
             v == call_[3]
  <2>1. i \in 1..n /\ i - 1 = k /\ k \in 0..n /\ i \in DOMAIN s[1] /\ 1..i = 1..k \cup {i}
            /\ i \notin 1..k
    BY <1>1
  <2>2. Fine(k) /\ RowOf(m, M(k))
    BY <1>3, <1>5, <2>1
  <2>3. call_[1] = "append"
    BY <2>1 DEF Guarded
  <2>4. M(i) = With(M(k), col, <<"list", Append(Elements(Column(M(k), col)), v)>>)
    <3>1. M(i) = Puts(M(k), call_)
      BY <1>2, <2>1
    <3> QED
      BY <2>3, <3>1 DEF Puts
  <2>5. v \notin In(stored, col)
    <3>1. PICK j \in DOMAIN s[2] : s[2][j][1] = "not_contains_any" /\ s[2][j][2] = col
                   /\ v \in ToSet(s[2][j][3])
      BY <2>1 DEF Guarded
    <3>2. Says(stored, s[2][j])
      OBVIOUS
    <3>3. ToSet(s[2][j][3]) \cap In(stored, col) = {}
      <4> DEFINE f == s[2][j]
      <4>1. f[1] = "not_contains_any" /\ f[2] = col /\ Says(stored, f)
        BY <3>1, <3>2
      <4> HIDE DEF f
      <4>2. ToSet(f[3]) \cap ToSet(Elements(Column(stored, f[2]))) = {}
        BY <4>1 DEF Says, Comparison
      <4> QED
        BY <4>1, <4>2 DEF f, In
    <3> QED
      BY <3>1, <3>3
  <2>6. v \notin Added(k, col)
    <3>1. \A j \in DOMAIN s[1] : s[1][i][2] = s[1][j][2] /\ s[1][i][3] = s[1][j][3] => i = j
      BY <2>1 DEF Guarded
    <3>2. ASSUME NEW j \in 1..k, s[1][j][2] = col PROVE s[1][j][3] # v
      <4>1. j \in DOMAIN s[1] /\ j # i
        BY <1>1, <2>1
      <4> QED
        BY <3>1, <3>2, <4>1
    <3> QED
      BY <3>2
  <2>7. v \notin In(M(k), col)
    BY <2>2, <2>5, <2>6
  <2>8. Lists(Column(M(k), col)) /\ RowFn(M(k))
    <3>1. AppendedBy(m, col)
      BY <2>1, <2>3 DEF AppendedBy, Appended
    <3> QED
      BY <2>2, <3>1 DEF RowOf
  <2>9. /\ Once(M(i)) /\ In(M(i), col) = In(M(k), col) \cup {v}
        /\ \A x : x # col => In(M(i), x) = In(M(k), x)
    <3>1. Once(M(k))
      BY <2>2
    <3> HIDE DEF col, v
    <3> QED
      BY <2>4, <2>7, <2>8, <3>1, AppendedOnce
  <2>10. Added(i, col) = Added(k, col) \cup {v} /\ \A x : Added(k, x) \subseteq Added(i, x)
    BY <2>1
  <2> HIDE DEF Added, i, col, v
  <2>11. \A x : In(M(i), x) \subseteq In(stored, x) \cup Added(i, x)
    BY <2>2, <2>9, <2>10
  <2> QED
    BY <2>9, <2>11 DEF i
<1>6. n \in Good
  <2> HIDE DEF Good
  <2> QED
    BY <1>1, <1>4, <1>5, Induction
<1> QED
  BY <1>1, <1>6 DEF M, n

\* A statement carried out keeps both.
LEMMA ExecuteKeeps ==
  ASSUME NEW m, Usable(m), NEW s \in m, NEW stored, RowOf(m, stored)
  PROVE  /\ RowOf(m, Execute(stored, Built(s)))
         /\ Guarded(s) /\ Once(stored) => Once(Execute(stored, Built(s)))
<1>1. Execute(stored, Built(s)) = Meant(stored, s)
  BY StatementOf, ExecuteMeans
<1>2. RowOf(m, PutAfter(stored, s[1])[Len(s[1])])
  <2>1. Len(s[1]) \in 0..Len(s[1])
    BY Sequences DEF Usable, Calls
  <2> QED
    BY <2>1, PutsKeep
<1>3. CASE \A i \in DOMAIN s[2] : Says(stored, s[2][i])
  <2>1. Meant(stored, s) = PutAfter(stored, s[1])[Len(s[1])]
    BY <1>3 DEF Meant
  <2>2. Guarded(s) /\ Once(stored) => Once(PutAfter(stored, s[1])[Len(s[1])])
    BY <1>3, OnceKept
  <2> QED
    BY <1>1, <1>2, <2>1, <2>2
<1>4. CASE ~ \A i \in DOMAIN s[2] : Says(stored, s[2][i])
  <2>1. Meant(stored, s) = stored
    BY <1>4 DEF Meant
  <2> QED
    BY <1>1, <2>1
<1> QED
  BY <1>3, <1>4

\* The invariant: every request and every call waiting is a statement of the menu, and the
\* row is one they may be run on.
MInv ==
  /\ menu \in Menus /\ RowOf(menu, cols)
  /\ updates \subseteq Updater \X menu
  /\ waiting \in [Updater -> {None} \cup {Some(w) : w \in [statement : menu,
         failed : BOOLEAN]}]
  /\ Once(Start) /\ (\A s \in menu : Guarded(s)) => Once(cols)

\* Every step keeps it.
LEMMA MStep ==
  ASSUME \A m \in Menus : Usable(m), MInv, [UpdateNext]_updateVars
  PROVE  MInv'
<1>1. menu' = menu
  BY DEF UpdateNext, updateVars, RepeatUpdate, LeaveUpdate, ExecuteWithValues, UpdateReply,
      UpdateReplyLost, UpdateTimesOut, UpdateArrivesLate, Loss
<1>2. cols' = cols \/ \E r \in updates : cols' = Execute(cols, Built(r[2]))
  BY DEF UpdateNext, updateVars, RepeatUpdate, LeaveUpdate, ExecuteWithValues, UpdateReply,
      UpdateReplyLost, UpdateTimesOut, UpdateArrivesLate
<1>3. RowOf(menu, cols') /\ (Once(Start) /\ (\A s \in menu : Guarded(s)) => Once(cols'))
  <2>1. CASE cols' = cols
    BY <2>1 DEF MInv
  <2>2. CASE \E r \in updates : cols' = Execute(cols, Built(r[2]))
    <3>1. PICK s \in menu : cols' = Execute(cols, Built(s))
      BY <2>2 DEF MInv
    <3>2. Usable(menu) /\ RowOf(menu, cols)
      BY DEF MInv
    <3> QED
      BY <3>1, <3>2, ExecuteKeeps DEF MInv
  <2> QED
    BY <1>2, <2>1, <2>2
<1> DEFINE Calling == {None} \cup {Some(w) : w \in [statement : menu, failed : BOOLEAN]}
<1>4. updates \subseteq Updater \X menu /\ waiting \in [Updater -> Calling]
  BY DEF MInv
<1>5. ASSUME NEW s \in menu, NEW b \in BOOLEAN
      PROVE Some([statement |-> s, failed |-> b]) \in Calling
  OBVIOUS
<1>6. ASSUME NEW c \in Updater, waiting[c] # None
      PROVE  /\ waiting[c] = Some(waiting[c][1])
                    /\ waiting[c][1] \in [statement : menu, failed : BOOLEAN]
             /\ \A b \in BOOLEAN : Some([waiting[c][1] EXCEPT !.failed = b]) \in Calling
  <2>1. PICK w \in [statement : menu, failed : BOOLEAN] : waiting[c] = Some(w)
    BY <1>4, <1>6
  <2>2. waiting[c][1] = w
    BY <2>1 DEF Some
  <2> QED
    BY <2>1, <2>2
<1>7. ASSUME NEW c \in Updater, waiting[c] # None, NEW b \in BOOLEAN
      PROVE  [waiting EXCEPT ![c] = Some([@[1] EXCEPT !.failed = b])] \in [Updater -> Calling]
  <2>1. Some([waiting[c][1] EXCEPT !.failed = b]) \in Calling
    BY <1>6, <1>7
  <2> HIDE DEF Calling
  <2> QED
    BY <1>4, <2>1
<1>8. updates' \subseteq Updater \X menu /\ waiting' \in [Updater -> Calling]
  <2>1. CASE UNCHANGED updateVars
    BY <1>4, <2>1 DEF updateVars
  <2>2. ASSUME NEW c \in Updater, NEW s \in menu, ExecuteWithValues(c, s)
        PROVE  updates' \subseteq Updater \X menu /\ waiting' \in [Updater -> Calling]
    <3>1. Some([statement |-> s, failed |-> FALSE]) \in Calling
      BY <1>5
    <3> HIDE DEF Calling
    <3> QED
      BY <1>4, <2>2, <3>1 DEF ExecuteWithValues
  <2>3. ASSUME NEW c \in Updater, RepeatUpdate(c)
        PROVE  updates' \subseteq Updater \X menu /\ waiting' \in [Updater -> Calling]
    <3>1. waiting[c] # None
      BY <2>3 DEF RepeatUpdate, UpdateFailed
    <3>2. waiting' \in [Updater -> Calling]
      BY <1>7, <2>3, <3>1 DEF RepeatUpdate
    <3>3. waiting[c][1].statement \in menu
      BY <1>6, <3>1
    <3>4. updates' = updates \cup {<<c, waiting[c][1].statement>>}
      BY <2>3 DEF RepeatUpdate
    <3>5. updates' \subseteq Updater \X menu
      BY <1>4, <3>3, <3>4
    <3> QED
      BY <3>2, <3>5
  <2>4. ASSUME NEW c \in Updater, LeaveUpdate(c)
        PROVE  updates' \subseteq Updater \X menu /\ waiting' \in [Updater -> Calling]
    BY <1>4, <2>4 DEF LeaveUpdate
  <2>5. ASSUME NEW r \in updates, UpdateReply(r)
        PROVE  updates' \subseteq Updater \X menu /\ waiting' \in [Updater -> Calling]
    BY <1>4, <2>5 DEF UpdateReply
  <2>6. ASSUME NEW r \in updates, Awaited(r), FailUpdate(r[1])
        PROVE waiting' \in [Updater -> Calling]
    <3>1. r[1] \in Updater /\ waiting[r[1]] # None
      BY <1>4, <2>6 DEF Awaited, Some, None
    <3> QED
      BY <1>7, <2>6, <3>1 DEF FailUpdate
  <2>7. ASSUME NEW r \in updates, UpdateReplyLost(r) \/ UpdateTimesOut(r)
        PROVE  updates' \subseteq Updater \X menu /\ waiting' \in [Updater -> Calling]
    BY <1>4, <2>6, <2>7 DEF UpdateReplyLost, UpdateTimesOut
  <2>8. ASSUME NEW r \in updates, UpdateArrivesLate(r)
        PROVE  updates' \subseteq Updater \X menu /\ waiting' \in [Updater -> Calling]
    BY <1>4, <2>8 DEF UpdateArrivesLate
  <2> QED
    BY <2>1, <2>2, <2>3, <2>4, <2>5, <2>7, <2>8 DEF UpdateNext
<1> QED
  BY <1>1, <1>3, <1>8 DEF MInv

\* Whatever statements clients build, as long as they keep apart what the builders leave to
\* them, each does to the row what its calls say one by one, however often and late it
\* reaches the server: the names param_name finds, and the merge of the two parameter
\* maps, never fill a fragment with another's value (SetClause, FilterClause).
THEOREM StatementsMeanTheirCalls ==
  ASSUME \A m \in Menus : Usable(m) /\ RowOf(m, Start)
  PROVE  UpdateSpec => []StatementMeansItsCalls
<1>1. UpdateInit => MInv
  BY DEF UpdateInit, MInv
<1>2. MInv /\ [UpdateNext]_updateVars => MInv'
  BY MStep
<1>3. MInv => StatementMeansItsCalls
  <2> SUFFICES ASSUME MInv, NEW r \in updates
               PROVE  Execute(cols, Built(r[2])) = Meant(cols, r[2])
    BY DEF StatementMeansItsCalls
  <2>1. Usable(menu) /\ RowOf(menu, cols) /\ r[2] \in menu
    BY DEF MInv
  <2> QED
    BY <2>1, StatementOf, ExecuteMeans
<1> QED
  BY <1>1, <1>2, <1>3, PTL DEF UpdateSpec

\* An append guarded by not_contains_any of its own element leaves no duplicate in a list
\* that had none, for any clients, repeats, losses and delays (SetClause::append,
\* FilterClause::not_contains_any).
THEOREM GuardedAppendsOnce ==
  ASSUME \A m \in Menus : Usable(m) /\ RowOf(m, Start), Once(Start)
  PROVE  UpdateSpec => []AppendOnce
<1>1. UpdateInit => MInv
  BY DEF UpdateInit, MInv
<1>2. MInv /\ [UpdateNext]_updateVars => MInv'
  BY MStep
<1>3. MInv => AppendOnce
  BY DEF MInv, AppendOnce, Once
<1> QED
  BY <1>1, <1>2, <1>3, PTL DEF UpdateSpec

----------------------------------------------------------------------------
(* Records *)

\* A nonempty set of indices has a largest one.
LEMMA LastIndex ==
  ASSUME NEW n \in Nat, NEW S, S \subseteq 1..n, S # {}
  PROVE  Max(S) \in S
<1> DEFINE Below == {n - i : i \in S}
<1>1. Below \subseteq Nat /\ Below # {}
  <2>1. \A i \in S : n - i \in Nat  OBVIOUS
  <2> QED BY <2>1
<1>2. PICK m \in Below : \A k \in Below : m <= k
  <2> HIDE DEF Below
  <2> QED BY <1>1, LeastNat
<1>3. PICK i \in S : m = n - i
  BY <1>2
<1>4. \A j \in S : i >= j
  <2> SUFFICES ASSUME NEW j \in S PROVE i >= j  OBVIOUS
  <2>1. n - i <= n - j /\ i \in Int /\ j \in Int
    BY <1>2, <1>3
  <2> QED BY <2>1
<1> QED  BY <1>3, <1>4 DEF Max

\* Lists that do not contradict each other are merged into all they say.
Consistent(n, lists) ==
  /\ DOMAIN lists = 1..n
  /\ \A i, j \in 1..n : \A k \in DOMAIN lists[i] \cap DOMAIN lists[j] :
        lists[i][k] = lists[j][k]

LEMMA MergeNames ==
  ASSUME NEW lists, NEW n, DOMAIN lists = 1..n
  PROVE  DOMAIN Joined(lists) = UNION {DOMAIN lists[i] : i \in 1..n}
  BY DEF Joined

LEMMA MergeSays ==
  ASSUME NEW n \in Nat, NEW lists, Consistent(n, lists),
         NEW i \in 1..n, NEW k \in DOMAIN lists[i]
  PROVE  k \in DOMAIN Joined(lists) /\ Joined(lists)[k] = lists[i][k]
<1> DEFINE having == {j \in DOMAIN lists : k \in DOMAIN lists[j]}
<1>1. DOMAIN lists = 1..n /\ having \subseteq 1..n /\ having # {}
  BY DEF Consistent
<1>2. Max(having) \in having
  <2> HIDE DEF having
  <2> QED BY <1>1, LastIndex
<1>3. lists[Max(having)][k] = lists[i][k]
  BY <1>2 DEF Consistent
<1>4. Joined(lists)[k] = lists[Max(having)][k]
  BY <1>1 DEF Joined
<1>5. k \in DOMAIN Joined(lists)
  <2>1. DOMAIN Joined(lists) = UNION {DOMAIN lists[j] : j \in 1..n}  BY <1>1, MergeNames
  <2> QED BY <2>1
<1> QED BY <1>3, <1>4, <1>5

\* The fields of a record type with distinct identifiers, and where they stand.
LEMMA FieldsOf ==
  ASSUME NEW ty, Distinct(ty)
  PROVE  /\ Len(ty.fields) \in Nat /\ DOMAIN ty.fields = 1..Len(ty.fields)
         /\ Fields(ty) = {ty.fields[i] : i \in 1..Len(ty.fields)}
         /\ \A f \in Fields(ty) : f.id \in Ids(ty) /\ FieldOf(ty, f.id) = f
         /\ \A id \in Ids(ty) : FieldOf(ty, id) \in Fields(ty) /\ FieldOf(ty, id).id = id
         /\ ty.t = "struct"
<1>1. ty.fields \in Seq(Fields(ty))  BY DEF Distinct
<1>2. Len(ty.fields) \in Nat /\ DOMAIN ty.fields = 1..Len(ty.fields)
  BY <1>1
<1>3. Fields(ty) = {ty.fields[i] : i \in 1..Len(ty.fields)}
  BY <1>2 DEF Fields, ToSet
<1>4. ASSUME NEW f \in Fields(ty) PROVE f.id \in Ids(ty) /\ FieldOf(ty, f.id) = f
  <2>1. \A g \in Fields(ty) : g.id = f.id => g = f  BY <1>4 DEF Distinct
  <2> QED BY <2>1, <1>4 DEF FieldOf, Ids
<1>5. ASSUME NEW id \in Ids(ty)
      PROVE FieldOf(ty, id) \in Fields(ty) /\ FieldOf(ty, id).id = id
  BY <1>5 DEF FieldOf, Ids
<1> QED BY <1>2, <1>3, <1>4, <1>5 DEF Distinct

\* One column of a field that is written, and none of one that is not.
LEMMA OneColumn ==
  ASSUME NEW f, NEW x
  PROVE  /\ \A k : k \in DOMAIN ColumnOf(f, x) <=> Pushed(f, x) /\ k = EncodeName(f)
         /\ Pushed(f, x) => ColumnOf(f, x)[EncodeName(f)] = EncodePart(f.ty, Held(f, x))
  BY DEF ColumnOf, NoProps, Single

\* Fields written to names of their own: a column each.
ApartNames(ty) == \A f, g \in Fields(ty) : f # g => Names(f) \cap Names(g) = {}

\* A field that is written has the name of its column.
LEMMA PushedName ==
  ASSUME NEW f, NEW x, Pushed(f, x)
  PROVE  EncodeName(f) \in Names(f)
  BY DEF Pushed, Names

LEMMA ColumnsSay ==
  ASSUME NEW ty, NEW v, Distinct(ty), ApartNames(ty)
  PROVE  /\ DOMAIN Columns(ty.fields, v) = {EncodeName(f) : f \in {f \in Fields(ty) : Pushed(f, v[f.id])}}
         /\ \A f \in Fields(ty) : Pushed(f, v[f.id]) =>
              Columns(ty.fields, v)[EncodeName(f)] = EncodePart(f.ty, Held(f, v[f.id]))
<1> DEFINE n == Len(ty.fields)
           F(i) == ty.fields[i]
           lists == [i \in DOMAIN ty.fields |-> ColumnOf(F(i), v[F(i).id])]
<1>1. n \in Nat /\ DOMAIN ty.fields = 1..n /\ Fields(ty) = {F(i) : i \in 1..n}
  BY FieldsOf
<1>2. DOMAIN lists = 1..n /\ \A i \in 1..n : lists[i] = ColumnOf(F(i), v[F(i).id])
  BY <1>1
<1>3. Columns(ty.fields, v) = Joined(lists)  BY DEF Columns
<1> HIDE DEF lists, n
<1>4. ASSUME NEW i \in 1..n, NEW j \in 1..n, NEW k \in DOMAIN lists[i] \cap DOMAIN lists[j]
      PROVE  lists[i][k] = lists[j][k]
  <2>1. /\ Pushed(F(i), v[F(i).id]) /\ k = EncodeName(F(i))
        /\ Pushed(F(j), v[F(j).id]) /\ k = EncodeName(F(j))
    <3>1. k \in DOMAIN lists[i] /\ k \in DOMAIN lists[j]  BY <1>4
    <3>2. lists[i] = ColumnOf(F(i), v[F(i).id]) /\ lists[j] = ColumnOf(F(j), v[F(j).id])
      BY <1>2
    <3> HIDE DEF F
    <3> QED BY <3>1, <3>2, OneColumn
  <2>2. k \in Names(F(i)) /\ k \in Names(F(j))
    BY <2>1, PushedName
  <2>3. F(i) = F(j)
    BY <2>2, <1>1 DEF ApartNames
  <2> QED BY <2>3, <1>2
<1>5. Consistent(n, lists) /\ DOMAIN Joined(lists) = UNION {DOMAIN lists[i] : i \in 1..n}
  BY <1>2, <1>4, MergeNames DEF Consistent
<1>6. \A i \in 1..n : \A k : k \in DOMAIN lists[i] <=> Pushed(F(i), v[F(i).id]) /\ k = EncodeName(F(i))
  BY <1>2, OneColumn
<1>7. DOMAIN Joined(lists) = {EncodeName(f) : f \in {f \in Fields(ty) : Pushed(f, v[f.id])}}
  BY <1>1, <1>5, <1>6
<1>8. ASSUME NEW f \in Fields(ty), Pushed(f, v[f.id])
      PROVE  Joined(lists)[EncodeName(f)] = EncodePart(f.ty, Held(f, v[f.id]))
  <2>1. PICK i \in 1..n : f = F(i)  BY <1>1, <1>8
  <2>2. EncodeName(f) \in DOMAIN lists[i]  BY <2>1, <1>6, <1>8
  <2> QED BY <2>1, <2>2, <1>1, <1>2, <1>5, <1>8, OneColumn, MergeSays
<1> QED BY <1>3, <1>7, <1>8

\* A leaf is a field of the record, or one of a flattened field.
LEMMA LeafKinds ==
  ASSUME NEW d, NEW p \in Leaves(d)
  PROVE  \/ \E f \in Fields(d) : ~f.flatten /\ p = <<f>>
         \/ \E f \in Fields(d) : f.flatten /\ \E g \in Fields(f.ty) : p = <<f, g>>
  BY DEF Leaves

LEMMA LeavesAre ==
  ASSUME NEW d, NEW f \in Fields(d)
  PROVE  /\ ~f.flatten => <<f>> \in Leaves(d)
         /\ f.flatten => \A g \in Fields(f.ty) : <<f, g>> \in Leaves(d)
  BY DEF Leaves

LEMMA LeafValues ==
  /\ \A v, f : LeafOf(<<f>>) = f /\ At(v, <<f>>) = v[f.id] /\ <<f>>[1] = f
  /\ \A v, f, g : LeafOf(<<f, g>>) = g /\ At(v, <<f, g>>) = v[f.id][g.id] /\ <<f, g>>[1] = f
  BY DEF LeafOf, At

\* The two kinds of fields of a regular record.
LEMMA RegularFields ==
  ASSUME NEW d, NEW rids, Regular(d, rids), NEW f \in Fields(d)
  PROVE  /\ Distinct(d)
         /\ f.flatten => /\ Distinct(f.ty) /\ ApartNames(f.ty)
                         /\ ~f.skipEncode /\ ~f.skipDecode /\ ~f.opt /\ f.rename # "@rid"
                         /\ \A g \in Fields(f.ty) : RegularField(g) /\ Names(g) \cap Synthetic = {}
         /\ ~f.flatten => /\ RegularField(f)
                          /\ RidField(f) => ReadsRids(f, rids)
                          /\ ~RidField(f) => f.rename # "@rid" /\ Names(f) \cap Synthetic = {}
<1>1. ASSUME f.flatten, NEW g \in Fields(f.ty), NEW h \in Fields(f.ty), g # h
      PROVE  Names(g) \cap Names(h) = {}
  <2>1. <<f, g>> \in Leaves(d) /\ <<f, h>> \in Leaves(d)  BY <1>1, LeavesAre
  <2>4. LeafOf(<<f, g>>) = g /\ LeafOf(<<f, h>>) = h  BY LeafValues
  <2>2. <<f, g>> # <<f, h>>  BY <1>1
  <2>3. Names(LeafOf(<<f, g>>)) \cap Names(LeafOf(<<f, h>>)) = {}
    BY <2>1, <2>2 DEF Regular
  <2> QED BY <2>3, <2>4
<1>2. f.flatten => ApartNames(f.ty)  BY <1>1 DEF ApartNames
<1> QED BY <1>2 DEF Regular

\* No two leaves share a name.
LEMMA LeavesApart ==
  ASSUME NEW d, NEW rids, Regular(d, rids), NEW p \in Leaves(d), NEW q \in Leaves(d), NEW k,
         k \in Names(LeafOf(p)), k \in Names(LeafOf(q))
  PROVE  p = q
  BY DEF Regular

LEMMA RegularLeaf ==
  ASSUME NEW d, NEW rids, Regular(d, rids), NEW p \in Leaves(d)
  PROVE  /\ RegularField(LeafOf(p))
         /\ RidField(LeafOf(p)) => ReadsRids(LeafOf(p), rids)
         /\ ~RidField(LeafOf(p)) => Names(LeafOf(p)) \cap Synthetic = {}
<1>1. ASSUME NEW f \in Fields(d), ~f.flatten, p = <<f>>
      PROVE  /\ RegularField(LeafOf(p))
             /\ RidField(LeafOf(p)) => ReadsRids(LeafOf(p), rids)
             /\ ~RidField(LeafOf(p)) => Names(LeafOf(p)) \cap Synthetic = {}
  <2>1. LeafOf(p) = f  BY <1>1, LeafValues
  <2> QED BY <1>1, <2>1, RegularFields
<1>2. ASSUME NEW f \in Fields(d), f.flatten, NEW g \in Fields(f.ty), p = <<f, g>>
      PROVE  /\ RegularField(LeafOf(p))
             /\ ~RidField(LeafOf(p)) /\ Names(LeafOf(p)) \cap Synthetic = {}
  <2>1. LeafOf(p) = g  BY <1>2, LeafValues
  <2>2. RegularField(g) /\ Names(g) \cap Synthetic = {}  BY <1>2, RegularFields
  <2>3. ~RidField(g)
    <3>1. RidField(g) => "@rid" \in Names(g)
      BY DEF RidField, Names, DecodeName, NoName
    <3> QED BY <2>2, <3>1 DEF Synthetic
  <2> QED BY <2>1, <2>2, <2>3
<1> QED BY <1>1, <1>2, LeafKinds

\* What one field pushes: its column, or those of its own fields.
PushedLeaf(v, p) == Pushed(LeafOf(p), At(v, p))
LeafName(p) == EncodeName(LeafOf(p))
LeafWire(v, p) == EncodePart(LeafOf(p).ty, Held(LeafOf(p), At(v, p)))

LEMMA FieldSays ==
  ASSUME NEW d, NEW rids, Regular(d, rids), NEW v, NEW f \in Fields(d)
  PROVE  /\ \A k : k \in DOMAIN PropsOf(f, v[f.id]) <=>
                   \E p \in Leaves(d) : p[1] = f /\ PushedLeaf(v, p) /\ k = LeafName(p)
         /\ \A p \in Leaves(d) : p[1] = f /\ PushedLeaf(v, p) =>
              PropsOf(f, v[f.id])[LeafName(p)] = LeafWire(v, p)
<1>1. CASE ~f.flatten
  <2>1. PropsOf(f, v[f.id]) = ColumnOf(f, v[f.id])  BY <1>1 DEF PropsOf
  <2>2. <<f>> \in Leaves(d)  BY <1>1, LeavesAre
  <2>3. \A p \in Leaves(d) : p[1] = f => p = <<f>>
    BY <1>1, LeafKinds, LeafValues
  <2>4. /\ PushedLeaf(v, <<f>>) <=> Pushed(f, v[f.id])
        /\ LeafName(<<f>>) = EncodeName(f)
        /\ LeafWire(v, <<f>>) = EncodePart(f.ty, Held(f, v[f.id]))
        /\ <<f>>[1] = f
    <3>1. LeafOf(<<f>>) = f /\ At(v, <<f>>) = v[f.id] /\ <<f>>[1] = f  BY LeafValues
    <3> QED BY <3>1 DEF PushedLeaf, LeafName, LeafWire
  <2>5. ASSUME NEW k
        PROVE  k \in DOMAIN PropsOf(f, v[f.id]) <=>
               \E p \in Leaves(d) : p[1] = f /\ PushedLeaf(v, p) /\ k = LeafName(p)
    BY <2>1, <2>2, <2>3, <2>4, OneColumn
  <2>6. ASSUME NEW p \in Leaves(d), p[1] = f, PushedLeaf(v, p)
        PROVE  PropsOf(f, v[f.id])[LeafName(p)] = LeafWire(v, p)
    BY <2>1, <2>3, <2>4, <2>6, OneColumn
  <2> QED BY <2>5, <2>6
<1>2. CASE f.flatten
  <2>1. /\ Distinct(f.ty) /\ ApartNames(f.ty) /\ ~f.skipEncode /\ ~f.opt
    BY <1>2, RegularFields
  <2>2. PropsOf(f, v[f.id]) = Columns(f.ty.fields, v[f.id])
    BY <1>2, <2>1 DEF PropsOf, Pushed, Held, FlatProps, Distinct
  <2>3. \A g \in Fields(f.ty) : <<f, g>> \in Leaves(d)  BY <1>2, LeavesAre
  <2>4. \A p \in Leaves(d) : p[1] = f => \E g \in Fields(f.ty) : p = <<f, g>>
    BY <1>2, LeafKinds, LeafValues
  <2>5. \A g : /\ PushedLeaf(v, <<f, g>>) <=> Pushed(g, v[f.id][g.id])
               /\ LeafName(<<f, g>>) = EncodeName(g)
               /\ LeafWire(v, <<f, g>>) = EncodePart(g.ty, Held(g, v[f.id][g.id]))
               /\ <<f, g>>[1] = f
    <3> SUFFICES ASSUME NEW g
                 PROVE  /\ PushedLeaf(v, <<f, g>>) <=> Pushed(g, v[f.id][g.id])
                        /\ LeafName(<<f, g>>) = EncodeName(g)
                        /\ LeafWire(v, <<f, g>>) = EncodePart(g.ty, Held(g, v[f.id][g.id]))
                        /\ <<f, g>>[1] = f
      OBVIOUS
    <3>1. LeafOf(<<f, g>>) = g /\ At(v, <<f, g>>) = v[f.id][g.id] /\ <<f, g>>[1] = f
      BY LeafValues
    <3> QED BY <3>1 DEF PushedLeaf, LeafName, LeafWire
  <2>6. /\ DOMAIN Columns(f.ty.fields, v[f.id])
             = {EncodeName(g) : g \in {g \in Fields(f.ty) : Pushed(g, v[f.id][g.id])}}
        /\ \A g \in Fields(f.ty) : Pushed(g, v[f.id][g.id]) =>
             Columns(f.ty.fields, v[f.id])[EncodeName(g)] = EncodePart(g.ty, Held(g, v[f.id][g.id]))
    BY <2>1, ColumnsSay
  <2>7. ASSUME NEW k
        PROVE  k \in DOMAIN PropsOf(f, v[f.id]) <=>
               \E p \in Leaves(d) : p[1] = f /\ PushedLeaf(v, p) /\ k = LeafName(p)
    <3>1. k \in DOMAIN PropsOf(f, v[f.id]) <=>
            \E g \in Fields(f.ty) : Pushed(g, v[f.id][g.id]) /\ k = EncodeName(g)
      BY <2>2, <2>6
    <3> QED BY <3>1, <2>3, <2>4, <2>5
  <2>8. ASSUME NEW p \in Leaves(d), p[1] = f, PushedLeaf(v, p)
        PROVE  PropsOf(f, v[f.id])[LeafName(p)] = LeafWire(v, p)
    BY <2>2, <2>4, <2>5, <2>6, <2>8
  <2> QED BY <2>7, <2>8
<1> QED BY <1>1, <1>2

\* A record is written as the columns of its leaves.
LEMMA PropsSay ==
  ASSUME NEW d, NEW rids, Regular(d, rids), NEW v
  PROVE  /\ \A k : k \in DOMAIN Props(d, v) <=>
                   \E p \in Leaves(d) : PushedLeaf(v, p) /\ k = LeafName(p)
         /\ \A p \in Leaves(d) : PushedLeaf(v, p) => Props(d, v)[LeafName(p)] = LeafWire(v, p)
<1> DEFINE n == Len(d.fields)
           F(i) == d.fields[i]
           lists == [i \in DOMAIN d.fields |-> PropsOf(F(i), v[F(i).id])]
           Of(i, p) == p \in Leaves(d) /\ p[1] = F(i) /\ PushedLeaf(v, p)
<1>1. /\ n \in Nat /\ DOMAIN d.fields = 1..n /\ Fields(d) = {F(i) : i \in 1..n} /\ d.t = "struct"
  BY FieldsOf DEF Regular
<1>2. DOMAIN lists = 1..n /\ \A i \in 1..n : lists[i] = PropsOf(F(i), v[F(i).id])
  BY <1>1
<1>3. Props(d, v) = Joined(lists)  BY <1>1 DEF Props
<1> HIDE DEF lists, n
<1>4. ASSUME NEW i \in 1..n
      PROVE  /\ \A k : k \in DOMAIN lists[i] <=> \E p : Of(i, p) /\ k = LeafName(p)
             /\ \A p : Of(i, p) => lists[i][LeafName(p)] = LeafWire(v, p)
  <2>1. F(i) \in Fields(d) /\ lists[i] = PropsOf(F(i), v[F(i).id])  BY <1>1, <1>2
  <2> HIDE DEF F
  <2> QED BY <2>1, FieldSays
<1>5. \A p, q : PushedLeaf(v, p) /\ PushedLeaf(v, q) /\ p \in Leaves(d) /\ q \in Leaves(d)
                /\ LeafName(p) = LeafName(q) => p = q
  BY PushedName, LeavesApart DEF PushedLeaf, LeafName
<1>6. ASSUME NEW i \in 1..n, NEW j \in 1..n, NEW k \in DOMAIN lists[i] \cap DOMAIN lists[j]
      PROVE  lists[i][k] = lists[j][k]
  <2>1. PICK p : Of(i, p) /\ k = LeafName(p)  BY <1>4, <1>6
  <2>2. PICK q : Of(j, q) /\ k = LeafName(q)  BY <1>4, <1>6
  <2>3. p = q  BY <1>5, <2>1, <2>2
  <2> QED BY <2>1, <2>2, <2>3, <1>4
<1>7. Consistent(n, lists) /\ DOMAIN Joined(lists) = UNION {DOMAIN lists[i] : i \in 1..n}
  BY <1>2, <1>6, MergeNames DEF Consistent
<1>8. \A p \in Leaves(d) : \E i \in 1..n : p[1] = F(i)
  <2>1. \A p \in Leaves(d) : p[1] \in Fields(d)  BY LeafKinds, LeafValues
  <2> QED BY <2>1, <1>1
<1>9. ASSUME NEW k
      PROVE  k \in DOMAIN Joined(lists) <=> \E p \in Leaves(d) : PushedLeaf(v, p) /\ k = LeafName(p)
  <2>1. k \in DOMAIN Joined(lists) <=> \E i \in 1..n : k \in DOMAIN lists[i]  BY <1>7
  <2> QED BY <2>1, <1>4, <1>8
<1>10. ASSUME NEW p \in Leaves(d), PushedLeaf(v, p)
       PROVE  Joined(lists)[LeafName(p)] = LeafWire(v, p)
  <2>1. PICK i \in 1..n : p[1] = F(i)  BY <1>8
  <2>2. LeafName(p) \in DOMAIN lists[i] /\ lists[i][LeafName(p)] = LeafWire(v, p)
    BY <1>4, <1>10, <2>1
  <2> QED BY <2>2, <1>1, <1>7, MergeSays
<1> QED BY <1>3, <1>9, <1>10

\* What a row of rid n knows of itself, and what a field that is a column reads of it.
Meta(n) == [m \in Synthetic |-> IF m = "@rid" THEN Some(<<"string", <<"rid", n>>>>)
                               ELSE Some(<<"string", <<"text", Class>>>>)]
Reads(f, wires, n) == PlainField(f, wires, {}, Meta(n))

Shown(d, wires, n) ==
  [id \in Ids(d) |->
     LET f == FieldOf(d, id)
     IN IF f.flatten THEN [g \in Ids(f.ty) |-> Reads(FieldOf(f.ty, g), wires, n)[2]]
        ELSE Reads(f, wires, n)[2]]

LEMMA NameRead ==
  ASSUME NEW f, ~f.skipDecode
  PROVE  DecodeName(f) \in Names(f)
  BY DEF Names

\* A column that is not the row's own is read whatever hides the others.
LEMMA PlainRead ==
  ASSUME NEW f, NEW wires, NEW taken, NEW meta, f.skipDecode \/ DecodeName(f) \notin Synthetic \cup taken
  PROVE  PlainField(f, wires, taken, meta) =
           IF f.skipDecode THEN Ok(FieldDefault(f))
           ELSE IF DecodeName(f) \in DOMAIN wires THEN Present(f, wires[DecodeName(f)])
           ELSE Missing(f)
  BY DEF PlainField, Visible

\* A flattened record reads the columns that its parent leaves it as if they were its own.
LEMMA HiddenRead ==
  ASSUME NEW d, NEW rids, Regular(d, rids), NEW f \in Fields(d), f.flatten, NEW g \in Fields(f.ty),
         NEW wires, NEW n
  PROVE  PlainField(g, wires, {} \cup Wires(d), NoMeta) = Reads(g, wires, n)
<1>1. CASE g.skipDecode
  BY <1>1, PlainRead DEF Reads
<1>2. CASE ~g.skipDecode
  <2>1. DecodeName(g) \in Names(g)  BY <1>2, NameRead
  <2>2. DecodeName(g) \notin Synthetic  BY <2>1, RegularFields
  <2>3. ASSUME NEW h \in Fields(d), ~h.skipDecode, ~h.flatten, DecodeName(h) = DecodeName(g)
        PROVE  FALSE
    <3>1. <<h>> \in Leaves(d) /\ <<f, g>> \in Leaves(d)  BY <2>3, LeavesAre
    <3>2. LeafOf(<<h>>) = h /\ LeafOf(<<f, g>>) = g  BY LeafValues
    <3>3. <<h>> = <<f, g>>
      <4> DEFINE p == <<h>>
                 q == <<f, g>>
      <4>1. DecodeName(g) \in Names(LeafOf(p)) /\ DecodeName(g) \in Names(LeafOf(q))
        BY <2>1, <2>3, <3>2, NameRead
      <4> HIDE DEF p, q
      <4> QED BY <3>1, <4>1, LeavesApart DEF p, q
    <3> QED BY <3>3
  <2>4. DecodeName(g) \notin Wires(d)  BY <2>3 DEF Wires
  <2> QED BY <2>2, <2>4, PlainRead DEF Reads
<1> QED BY <1>1, <1>2

LEMMA AllAreOk ==
  ASSUME NEW rs, \A i \in DOMAIN rs : IsOk(rs[i])
  PROVE  AllOk(rs) = Ok([i \in DOMAIN rs |-> rs[i][2]])
  BY DEF AllOk

\* A record all of whose fields are read, field by field.
LEMMA AllAreRead ==
  ASSUME NEW d, Distinct(d), NEW read, \A f \in Fields(d) : IsOk(read[f])
  PROVE  Assembled(d, read) = Ok([id \in Ids(d) |-> read[FieldOf(d, id)][2]])
  BY DEF Assembled

\* A record all of whose leaves are read is read as what they show.
LEMMA RecordRead ==
  ASSUME NEW d, NEW rids, Regular(d, rids), NEW wires, NEW n,
         \A p \in Leaves(d) : \E x : Reads(LeafOf(p), wires, n) = Ok(x)
  PROVE  FromMap(d, wires, {}, Meta(n)) = Ok(Shown(d, wires, n))
<1> DEFINE rs == [f \in Fields(d) |-> StructField(d, f, wires, {}, Meta(n))]
           S == Shown(d, wires, n)
<1>1. Distinct(d) /\ d.t = "struct" /\ \A id \in Ids(d) : FieldOf(d, id) \in Fields(d)
  BY FieldsOf DEF Regular
<1>2. FromMap(d, wires, {}, Meta(n)) = Assembled(d, rs)  BY <1>1 DEF FromMap
<1>3. ASSUME NEW id \in Ids(d)
      PROVE  StructField(d, FieldOf(d, id), wires, {}, Meta(n)) = Ok(S[id])
  <2> DEFINE f == FieldOf(d, id)
  <2>0. f \in Fields(d)  BY <1>1
  <2>1. CASE ~f.flatten
    <3>1. StructField(d, f, wires, {}, Meta(n)) = Reads(f, wires, n)
      BY <2>1 DEF StructField, Reads
    <3>2. <<f>> \in Leaves(d) /\ LeafOf(<<f>>) = f  BY <2>0, <2>1, LeavesAre, LeafValues
    <3>3. \E x : Reads(f, wires, n) = Ok(x)  BY <3>2
    <3>4. Reads(f, wires, n) = Ok(Reads(f, wires, n)[2])  BY <3>3, Verdicts
    <3>5. S[id] = Reads(f, wires, n)[2]  BY <2>1 DEF Shown
    <3> QED BY <3>1, <3>4, <3>5
  <2>2. CASE f.flatten
    <3> DEFINE sub == [g \in Fields(f.ty) |-> PlainField(g, wires, {} \cup Wires(d), NoMeta)]
    <3>1. Distinct(f.ty) /\ f.ty.t = "struct" /\ ~f.skipDecode /\ ~f.opt
      BY <2>0, <2>2, RegularFields, FieldsOf
    <3>2. StructField(d, f, wires, {}, Meta(n)) = Assembled(f.ty, sub)
      BY <2>2, <3>1 DEF StructField, FlattenedField, FlatFrom
    <3>3. ASSUME NEW g \in Fields(f.ty)
          PROVE  sub[g] = Reads(g, wires, n) /\ IsOk(sub[g])
      <4>1. <<f, g>> \in Leaves(d) /\ LeafOf(<<f, g>>) = g
        BY <2>0, <2>2, LeavesAre, LeafValues
      <4>2. \E x : Reads(g, wires, n) = Ok(x)  BY <4>1
      <4> QED BY <2>0, <2>2, <4>2, HiddenRead, Verdicts DEF IsOk
    <3>4. Assembled(f.ty, sub) = Ok([i \in Ids(f.ty) |-> sub[FieldOf(f.ty, i)][2]])
      BY <3>1, <3>3, AllAreRead
    <3>5. S[id] = [i \in Ids(f.ty) |-> sub[FieldOf(f.ty, i)][2]]
      BY <2>2, <3>1, <3>3, FieldsOf DEF Shown
    <3> QED BY <3>2, <3>4, <3>5
  <2> QED BY <2>1, <2>2
<1>4. \A id \in Ids(d) : rs[FieldOf(d, id)][2] = S[id]
  BY <1>1, <1>3, Verdicts
<1>5. Assembled(d, rs) = Ok([id \in Ids(d) |-> rs[FieldOf(d, id)][2]])
  <2>1. ASSUME NEW f \in Fields(d) PROVE IsOk(rs[f])
    <3>1. f.id \in Ids(d) /\ FieldOf(d, f.id) = f  BY <1>1, FieldsOf
    <3> QED BY <1>3, <3>1, Verdicts DEF IsOk
  <2> QED BY <1>1, <2>1, AllAreRead
<1>6. S = [id \in Ids(d) |-> S[id]]  BY DEF Shown
<1>7. [id \in Ids(d) |-> rs[FieldOf(d, id)][2]] = [id \in Ids(d) |-> S[id]]  BY <1>4
<1> QED BY <1>2, <1>5, <1>6, <1>7

LEMMA ShownAt ==
  ASSUME NEW d, NEW rids, Regular(d, rids), NEW wires, NEW n, NEW p \in Leaves(d)
  PROVE  At(Shown(d, wires, n), p) = Reads(LeafOf(p), wires, n)[2]
<1>1. ASSUME NEW f \in Fields(d), ~f.flatten, p = <<f>>
      PROVE  At(Shown(d, wires, n), p) = Reads(LeafOf(p), wires, n)[2]
  <2>1. f.id \in Ids(d) /\ FieldOf(d, f.id) = f  BY RegularFields, FieldsOf
  <2>2. Shown(d, wires, n)[f.id] = Reads(f, wires, n)[2]
    BY <1>1, <2>1 DEF Shown
  <2> QED BY <1>1, <2>2, LeafValues
<1>2. ASSUME NEW f \in Fields(d), f.flatten, NEW g \in Fields(f.ty), p = <<f, g>>
      PROVE  At(Shown(d, wires, n), p) = Reads(LeafOf(p), wires, n)[2]
  <2>1. f.id \in Ids(d) /\ FieldOf(d, f.id) = f  BY RegularFields, FieldsOf
  <2>2. g.id \in Ids(f.ty) /\ FieldOf(f.ty, g.id) = g  BY <1>2, RegularFields, FieldsOf
  <2>3. Shown(d, wires, n)[f.id][g.id] = Reads(g, wires, n)[2]
    BY <1>2, <2>1, <2>2 DEF Shown
  <2> QED BY <1>2, <2>3, LeafValues
<1> QED BY <1>1, <1>2, LeafKinds

\* The names that the abstract rows and the records share mean the same.
LEMMA SharedTerms ==
  /\ \A d : Rows!Ids(d) = Ids(d)
  /\ \A d, id : Rows!FieldOf(d, id) = FieldOf(d, id)
  /\ \A f : Rows!FieldDefault(f) = FieldDefault(f)
  /\ Rows!None = None /\ \A x : Rows!Some(x) = Some(x)
  /\ \A ty : Rows!DefaultOf(ty) = DefaultOf(ty)
  /\ \A f : Rows!EncodeName(f) = EncodeName(f)
<1>1. \A d : Rows!Fields(d) = Fields(d)  BY DEF Rows!Fields, Fields, Rows!ToSet, ToSet
<1>2. \A d : Rows!Ids(d) = Ids(d)  BY <1>1 DEF Rows!Ids, Ids
<1>3. \A d, id : Rows!FieldOf(d, id) = FieldOf(d, id)
  BY <1>1 DEF Rows!FieldOf, FieldOf
<1>4. Rows!None = None /\ \A x : Rows!Some(x) = Some(x)
  BY DEF Rows!None, Rows!Some, None, Some
<1>5. \A ty : Rows!DefaultOf(ty) = DefaultOf(ty)
  BY <1>2, <1>3, <1>4 DEF Rows!DefaultOf, DefaultOf, Rows!IntType, IntType, Rows!AsInt32, AsInt32,
     Rows!AsInt64, AsInt64, Rows!FloatType, FloatType
<1>6. \A f : Rows!FieldDefault(f) = FieldDefault(f)
  BY <1>4, <1>5 DEF Rows!FieldDefault, FieldDefault
<1>7. \A f : Rows!EncodeName(f) = EncodeName(f)
  BY DEF Rows!EncodeName, EncodeName, Rows!DecodeName, DecodeName, Rows!NoName, NoName
<1> QED BY <1>2, <1>3, <1>4, <1>5, <1>6, <1>7

\* The columns "more" says of a record, put over those that a row has.
Merged(d, v, K, wires, after) ==
  /\ DOMAIN after = DOMAIN wires \cup K
  /\ \A k \in K : after[k] = Props(d, v)[k]
  /\ \A k \in DOMAIN wires \ K : after[k] = wires[k]

LEMMA LaterMerges ==
  ASSUME NEW d, NEW v, NEW K, NEW wires
  PROVE  Merged(d, v, K, wires, Later(wires, Restrict(Props(d, v), K)))
  BY DEF Merged, Later, Restrict

\* A field of the row itself shows its rid, and the columns do not touch it.
LEMMA RidRead ==
  ASSUME NEW f, NEW wires, NEW n, RidField(f), "@rid" \notin DOMAIN wires, ReadsRids(f, Nat),
         n \in Nat
  PROVE  Reads(f, wires, n) = Ok(Some(n))
<1>1. DecodeName(f) = "@rid" /\ ~f.skipDecode /\ f.opt
  BY DEF RidField, DecodeName, NoName
<1>2. Meta(n)["@rid"] = Some(<<"string", <<"rid", n>>>>) /\ Some(<<"string", <<"rid", n>>>>) # None
  BY DEF Meta, Synthetic, Some, None
<1>3. Reads(f, wires, n) = SyntheticField(f, "@rid", wires, Meta(n))
  BY <1>1 DEF Reads, PlainField, Synthetic
<1>4. DecodePart(f.ty, <<"string", <<"rid", n>>>>) = Ok(n)  BY DEF ReadsRids
<1>5. SyntheticField(f, "@rid", wires, Meta(n)) = Wrapped(DecodePart(f.ty, <<"string", <<"rid", n>>>>))
  BY <1>1, <1>2 DEF SyntheticField, Some
<1> QED BY <1>3, <1>4, <1>5, Verdicts DEF Wrapped, IsOk

\* Only what the columns of the leaf say is read of it.
LEMMA LeafRead ==
  ASSUME NEW d, NEW rids, Regular(d, rids), NEW p \in Leaves(d), NEW wires, NEW n,
         ~RidField(LeafOf(p))
  PROVE  LET f == LeafOf(p)
         IN Reads(f, wires, n) = IF f.skipDecode THEN Ok(FieldDefault(f))
                                ELSE IF DecodeName(f) \in DOMAIN wires THEN Present(f, wires[DecodeName(f)])
                                ELSE Missing(f)
<1> DEFINE f == LeafOf(p)
<1>1. f.skipDecode \/ DecodeName(f) \notin Synthetic \cup {}
  BY NameRead, RegularLeaf
<1> HIDE DEF f
<1>2. Reads(f, wires, n) = IF f.skipDecode THEN Ok(FieldDefault(f))
                          ELSE IF DecodeName(f) \in DOMAIN wires THEN Present(f, wires[DecodeName(f)])
                          ELSE Missing(f)
  BY <1>1, PlainRead DEF Reads
<1> QED BY <1>2 DEF f

\* Where a leaf is written and read, the column is its own.
LEMMA LeafWritten ==
  ASSUME NEW d, NEW rids, Regular(d, rids), NEW v, NEW p \in Leaves(d),
         ~LeafOf(p).skipDecode, DecodeName(LeafOf(p)) \in DOMAIN Props(d, v)
  PROVE  PushedLeaf(v, p) /\ DecodeName(LeafOf(p)) = LeafName(p)
<1> DEFINE k == DecodeName(LeafOf(p))
<1>1. PICK q \in Leaves(d) : PushedLeaf(v, q) /\ k = LeafName(q)  BY PropsSay
<1>2. k \in Names(LeafOf(q))  BY <1>1, PushedName DEF PushedLeaf, LeafName
<1>3. k \in Names(LeafOf(p))  BY NameRead
<1>4. p = q  BY <1>2, <1>3, LeavesApart
<1> QED BY <1>1, <1>4

LEMMA PushedReads ==
  ASSUME NEW d, NEW rids, Regular(d, rids), NEW v, NEW p \in Leaves(d), PushedLeaf(v, p),
         ~LeafOf(p).skipDecode
  PROVE  /\ DecodeName(LeafOf(p)) = LeafName(p) /\ LeafName(p) \in DOMAIN Props(d, v)
         /\ Props(d, v)[LeafName(p)] = LeafWire(v, p) /\ ~RidField(LeafOf(p))
<1>1. ~LeafOf(p).skipEncode  BY DEF PushedLeaf, Pushed
<1>2. DecodeName(LeafOf(p)) = LeafName(p) /\ ~RidField(LeafOf(p))
  BY <1>1, RegularLeaf DEF RegularField, LeafName, RidField
<1>3. LeafName(p) \in DOMAIN Props(d, v) /\ Props(d, v)[LeafName(p)] = LeafWire(v, p)
  BY PropsSay
<1> QED BY <1>2, <1>3

LEMMA PropsNotSynthetic ==
  ASSUME NEW d, NEW rids, Regular(d, rids), NEW v
  PROVE  Synthetic \cap DOMAIN Props(d, v) = {}
<1> SUFFICES ASSUME NEW k \in DOMAIN Props(d, v) PROVE k \notin Synthetic
  OBVIOUS
<1>1. PICK p \in Leaves(d) : PushedLeaf(v, p) /\ k = LeafName(p)  BY PropsSay
<1>2. ~RidField(LeafOf(p))  BY <1>1 DEF PushedLeaf, Pushed, RidField
<1>3. k \in Names(LeafOf(p))  BY <1>1, PushedName DEF PushedLeaf, LeafName
<1> QED BY <1>2, <1>3, RegularLeaf

\* A leaf after some of what is written of a record was put over the columns of a row:
\* it is what was written of it, or what it was.
LEMMA LeafAfter ==
  ASSUME NEW d, Regular(d, Nat), NEW v, NEW p \in Leaves(d), ComesBack(LeafOf(p), At(v, p)),
         NEW K, K \subseteq DOMAIN Props(d, v), NEW wires, Synthetic \cap DOMAIN wires = {},
         NEW after, Merged(d, v, K, wires, after), NEW n \in Nat
  PROVE  /\ Synthetic \cap DOMAIN after = {}
         /\ ~LeafOf(p).skipDecode /\ PushedLeaf(v, p) /\ LeafName(p) \in K =>
              Reads(LeafOf(p), after, n) = Ok(At(v, p))
         /\ LeafOf(p).skipDecode \/ ~PushedLeaf(v, p) \/ LeafName(p) \notin K =>
              Reads(LeafOf(p), after, n) = Reads(LeafOf(p), wires, n)
<1> DEFINE f == LeafOf(p)
<1>1. Synthetic \cap DOMAIN after = {}  BY PropsNotSynthetic DEF Merged
<1>2. ASSUME ~f.skipDecode, PushedLeaf(v, p), LeafName(p) \in K
      PROVE  Reads(f, after, n) = Ok(At(v, p))
  <2>1. /\ DecodeName(f) = LeafName(p) /\ ~RidField(f)
        /\ Props(d, v)[LeafName(p)] = LeafWire(v, p)
    BY <1>2, PushedReads
  <2>2. LeafName(p) \in DOMAIN after /\ after[LeafName(p)] = LeafWire(v, p)
    BY <1>2, <2>1 DEF Merged
  <2>3. Reads(f, after, n) = Present(f, LeafWire(v, p))
    BY <1>2, <2>1, <2>2, LeafRead
  <2> QED BY <2>3, <1>2 DEF ComesBack, PushedLeaf, LeafWire
<1>3. ASSUME f.skipDecode \/ ~PushedLeaf(v, p) \/ LeafName(p) \notin K
      PROVE  Reads(f, after, n) = Reads(f, wires, n)
  <2>1. CASE RidField(f)
    <3>1. ReadsRids(f, Nat) /\ "@rid" \notin DOMAIN wires /\ "@rid" \notin DOMAIN after
      BY <2>1, <1>1, RegularLeaf DEF Synthetic
    <3> QED BY <2>1, <3>1, RidRead
  <2>2. CASE ~RidField(f) /\ f.skipDecode
    BY <2>2, LeafRead
  <2>3. CASE ~RidField(f) /\ ~f.skipDecode
    <3>1. DecodeName(f) \notin K
      BY <1>3, <2>3, LeafWritten
    <3>2. /\ DecodeName(f) \in DOMAIN after <=> DecodeName(f) \in DOMAIN wires
          /\ DecodeName(f) \in DOMAIN wires => after[DecodeName(f)] = wires[DecodeName(f)]
      BY <3>1 DEF Merged
    <3> QED BY <2>3, <3>2, LeafRead
  <2> QED BY <2>1, <2>2, <2>3
<1> QED BY <1>1, <1>2, <1>3

\* The row shows a value of every field, which comes back when it is written again.
Shows(f, wires, n, x) == Reads(f, wires, n) = Ok(x) /\ ComesBack(f, x)
ColsOk(d, wires, n) ==
  /\ Synthetic \cap DOMAIN wires = {}
  /\ \A p \in Leaves(d) : \E x : Shows(LeafOf(p), wires, n, x)

KnownOk(d, u) == \A p \in Leaves(d) : ComesBack(LeafOf(p), At(u, p))

KnownAt(known, p) == IF known = None THEN None ELSE Some(At(known[1], p))

LEMMA KeptIs ==
  ASSUME NEW f, RegularField(f), NEW was, NEW x, NEW y, NEW again
  PROVE  Rows!Kept(f, was, x, y, again)
           = IF f.skipDecode THEN FieldDefault(f)
             ELSE IF (was = Some(x) /\ EncodeName(f) \notin again) \/ ~Pushed(f, x) THEN y ELSE x
  BY SharedTerms DEF Rows!Kept, Rows!Says, Pushed, RegularField

LEMMA Options == ASSUME NEW x, NEW y
                 PROVE  None # Some(x) /\ Some(x)[1] = x /\ (Some(x) = Some(y) => x = y)
  BY DEF None, Some

\* Fields that are not read show their default, which comes back.
LEMMA DefaultComesBack ==
  ASSUME NEW f, RegularField(f), f.opt \/ f.default \/ f.skipDecode
  PROVE  ComesBack(f, FieldDefault(f))
  BY DEF RegularField

\* A leaf that may be left alone: it shows what it is to keep.
LEMMA LeafKept ==
  ASSUME NEW d, Regular(d, Nat), NEW v, NEW p \in Leaves(d), ComesBack(LeafOf(p), At(v, p)),
         NEW K, K \subseteq DOMAIN Props(d, v), NEW wires, Synthetic \cap DOMAIN wires = {},
         NEW after, Merged(d, v, K, wires, after), NEW n \in Nat,
         NEW y, Shows(LeafOf(p), wires, n, y), NEW was, NEW again,
         PushedLeaf(v, p) /\ ~LeafOf(p).skipDecode =>
           IF LeafName(p) \in K THEN was # Some(At(v, p)) \/ LeafName(p) \in again
           ELSE (was = Some(At(v, p)) /\ LeafName(p) \notin again) \/ At(v, p) = y
  PROVE  Shows(LeafOf(p), after, n, Rows!Kept(LeafOf(p), was, At(v, p), y, again))
<1> DEFINE f == LeafOf(p)
           x == At(v, p)
<1>1. Rows!Kept(f, was, x, y, again)
        = IF f.skipDecode THEN FieldDefault(f)
          ELSE IF (was = Some(x) /\ LeafName(p) \notin again) \/ ~Pushed(f, x) THEN y ELSE x
  BY KeptIs, RegularLeaf DEF LeafName
<1>2. PushedLeaf(v, p) <=> Pushed(f, x)  BY DEF PushedLeaf
<1>3. CASE f.skipDecode
  <2>1. ~RidField(f)  BY <1>3 DEF RidField
  <2>2. Reads(f, after, n) = Ok(FieldDefault(f))  BY <1>3, <2>1, LeafRead
  <2>3. ComesBack(f, FieldDefault(f))  BY <1>3, RegularLeaf, DefaultComesBack
  <2> QED BY <1>1, <1>3, <2>2, <2>3 DEF Shows
<1>4. CASE ~f.skipDecode /\ PushedLeaf(v, p) /\ LeafName(p) \in K
  <2>1. Reads(f, after, n) = Ok(x)  BY <1>4, LeafAfter
  <2>2. Rows!Kept(f, was, x, y, again) = x  BY <1>1, <1>2, <1>4
  <2> QED BY <2>1, <2>2 DEF Shows
<1>5. CASE ~f.skipDecode /\ ~(PushedLeaf(v, p) /\ LeafName(p) \in K)
  <2>1. Reads(f, after, n) = Reads(f, wires, n)  BY <1>5, LeafAfter
  <2>2. Rows!Kept(f, was, x, y, again) = y  BY <1>1, <1>2, <1>5
  <2> QED BY <2>1, <2>2 DEF Shows
<1> QED BY <1>3, <1>4, <1>5

\* The columns of the new snapshot that the old one has not, or has otherwise.
Changes(d, u, v) ==
  {k \in DOMAIN Props(d, v) : k \notin DOMAIN Props(d, u) \/ Props(d, u)[k] # Props(d, v)[k]}

LEMMA DiffIs ==
  ASSUME NEW d, NEW u, NEW v, NEW again
  PROVE  PropsDiff(d, u, v, again)
           = Restrict(Props(d, v), Changes(d, u, v) \cup (again \cap DOMAIN Props(d, v)))
<1> DEFINE wires == Props(d, v)
           K == {k \in DOMAIN wires : k \notin DOMAIN Props(d, u) \/ Props(d, u)[k] # wires[k]
                                      \/ k \in again}
<1>1. K = Changes(d, u, v) \cup (again \cap DOMAIN wires)  BY DEF Changes
<1>2. PropsDiff(d, u, v, again) = Restrict(wires, K)  BY DEF PropsDiff
<1> HIDE DEF K
<1> QED BY <1>1, <1>2

\* Wires that come back tell values apart.
LEMMA WiresTellApart ==
  ASSUME NEW f, NEW x, NEW y, Pushed(f, x), Pushed(f, y), ComesBack(f, x), ComesBack(f, y),
         EncodePart(f.ty, Held(f, x)) = EncodePart(f.ty, Held(f, y))
  PROVE  x = y
<1>1. Ok(x) = Ok(y)  BY DEF ComesBack
<1> QED BY <1>1, Verdicts

\* The column of a leaf is among the changes when the leaf is written and another value.
LEMMA ChangedLeaf ==
  ASSUME NEW d, NEW rids, Regular(d, rids), NEW u, NEW v, NEW p \in Leaves(d), PushedLeaf(v, p),
         ComesBack(LeafOf(p), At(u, p)), ComesBack(LeafOf(p), At(v, p))
  PROVE  LeafName(p) \in Changes(d, u, v) <=> At(u, p) # At(v, p)
<1> DEFINE k == LeafName(p)
<1>1. k \in DOMAIN Props(d, v) /\ Props(d, v)[k] = LeafWire(v, p)  BY PropsSay
<1>2. k \in DOMAIN Props(d, u) <=> PushedLeaf(u, p)
  <2>1. ASSUME NEW q \in Leaves(d), PushedLeaf(u, q), k = LeafName(q) PROVE q = p
    <3>1. k \in Names(LeafOf(q)) /\ k \in Names(LeafOf(p))
      BY <2>1, PushedName DEF PushedLeaf, LeafName
    <3> QED BY <3>1, LeavesApart
  <2> QED BY <2>1, PropsSay
<1>3. PushedLeaf(u, p) => Props(d, u)[k] = LeafWire(u, p)  BY PropsSay
<1>4. At(u, p) = At(v, p) => PushedLeaf(u, p) /\ LeafWire(u, p) = LeafWire(v, p)
  BY DEF PushedLeaf, LeafWire
<1>5. PushedLeaf(u, p) /\ LeafWire(u, p) = LeafWire(v, p) => At(u, p) = At(v, p)
  BY WiresTellApart DEF PushedLeaf, LeafWire
<1> HIDE DEF k
<1> QED BY <1>1, <1>2, <1>3, <1>4, <1>5 DEF Changes, k

\* What a leaf of a row has that says nothing of it.
BlankLeaf(f, n) == IF RidField(f) THEN Some(n) ELSE FieldDefault(f)

\* A new row shows what was written of a leaf, or what it starts with.
LEMMA LeafBorn ==
  ASSUME NEW d, Regular(d, Nat), NEW v, NEW p \in Leaves(d), ComesBack(LeafOf(p), At(v, p)),
         NEW n \in Nat
  PROVE  Shows(LeafOf(p), Props(d, v), n,
               Rows!Kept(LeafOf(p), None, At(v, p), BlankLeaf(LeafOf(p), n), {}))
<1> DEFINE f == LeafOf(p)
           x == At(v, p)
           y == BlankLeaf(f, n)
<1>1. Rows!Kept(f, None, x, y, {}) = IF f.skipDecode THEN FieldDefault(f)
                                     ELSE IF ~Pushed(f, x) THEN y ELSE x
  BY KeptIs, RegularLeaf, Options
<1>2. PushedLeaf(v, p) <=> Pushed(f, x)  BY DEF PushedLeaf
<1>3. CASE RidField(f)
  <2>1. ~f.skipDecode /\ ~Pushed(f, x) /\ y = Some(n)  BY <1>3 DEF RidField, Pushed, BlankLeaf
  <2>2. "@rid" \notin DOMAIN Props(d, v)  BY PropsNotSynthetic DEF Synthetic
  <2>3. Reads(f, Props(d, v), n) = Ok(Some(n))  BY <1>3, <2>2, RidRead, RegularLeaf
  <2>4. ComesBack(f, y)  BY <1>3 DEF RidField, Pushed, ComesBack
  <2> QED BY <1>1, <2>1, <2>3, <2>4 DEF Shows
<1>4. CASE f.skipDecode
  <2>1. ~RidField(f)  BY <1>4 DEF RidField
  <2>2. Reads(f, Props(d, v), n) = Ok(FieldDefault(f))  BY <1>4, <2>1, LeafRead
  <2>3. ComesBack(f, FieldDefault(f))  BY <1>4, RegularLeaf, DefaultComesBack
  <2> QED BY <1>1, <1>4, <2>2, <2>3 DEF Shows
<1>5. CASE ~f.skipDecode /\ PushedLeaf(v, p)
  <2>1. /\ DecodeName(f) \in DOMAIN Props(d, v) /\ ~RidField(f)
        /\ Props(d, v)[DecodeName(f)] = LeafWire(v, p)
    BY <1>5, PushedReads
  <2>2. Reads(f, Props(d, v), n) = Present(f, LeafWire(v, p))
    BY <1>5, <2>1, LeafRead
  <2>3. Present(f, LeafWire(v, p)) = Ok(x)  BY <1>2, <1>5 DEF ComesBack, LeafWire
  <2> QED BY <1>1, <1>2, <1>5, <2>2, <2>3 DEF Shows
<1>6. CASE ~RidField(f) /\ ~f.skipDecode /\ ~PushedLeaf(v, p)
  <2>1. DecodeName(f) \notin DOMAIN Props(d, v)  BY <1>6, LeafWritten
  <2>2. f.opt \/ f.default
    <3>1. RegularField(f) /\ ~f.flatten  BY RegularLeaf DEF RegularField
    <3> QED BY <1>2, <1>6, <3>1 DEF Pushed, RegularField
  <2>3. Missing(f) = Ok(FieldDefault(f))  BY <2>2 DEF Missing
  <2>4. Reads(f, Props(d, v), n) = Ok(FieldDefault(f))  BY <1>6, <2>1, <2>3, LeafRead
  <2>5. ComesBack(f, FieldDefault(f))  BY <2>2, RegularLeaf, DefaultComesBack
  <2>6. y = FieldDefault(f)  BY <1>6 DEF BlankLeaf
  <2> QED BY <1>1, <1>2, <1>6, <2>4, <2>5, <2>6 DEF Shows
<1> QED BY <1>3, <1>4, <1>5, <1>6

\* What the leaves show determines the record: if each shows what it is to keep, the
\* record is the stored one with the new one written over it.
LEMMA OverByLeaf ==
  ASSUME NEW d, NEW rids, Regular(d, rids), NEW wires, NEW n, NEW known, NEW v, NEW stored,
         NEW again,
         \A p \in Leaves(d) : Reads(LeafOf(p), wires, n)
            = Ok(Rows!Kept(LeafOf(p), KnownAt(known, p), At(v, p), At(stored, p), again))
  PROVE  FromMap(d, wires, {}, Meta(n)) = Ok(Rows!Over(d, known, v, stored, again))
<1> DEFINE W(id) == Rows!Known(known, id)
           S == Shown(d, wires, n)
           O(id) == LET f == FieldOf(d, id)
                    IN IF ~f.flatten \/ f.skipDecode THEN Rows!Kept(f, W(id), v[id], stored[id], again)
                       ELSE IF f.ty.t = "enum" THEN Rows!Switched(f.ty, W(id), v[id], stored[id], again)
                       ELSE Rows!Edited(f.ty, W(id), v[id], stored[id], again)
<1>1. Rows!Over(d, known, v, stored, again) = [id \in Ids(d) |-> O(id)]
  BY SharedTerms DEF Rows!Over
<1>2. FromMap(d, wires, {}, Meta(n)) = Ok(S)
  BY RecordRead
<1>3. ASSUME NEW id \in Ids(d) PROVE S[id] = O(id)
  <2> DEFINE f == FieldOf(d, id)
  <2>1. f \in Fields(d) /\ f.id = id  BY RegularFields, FieldsOf DEF Regular
  <2>2. CASE ~f.flatten
    <3>1. <<f>> \in Leaves(d) /\ LeafOf(<<f>>) = f /\ At(v, <<f>>) = v[id] /\ At(stored, <<f>>) = stored[id]
      BY <2>1, <2>2, LeavesAre, LeafValues
    <3>2. KnownAt(known, <<f>>) = W(id)
      BY <2>1, LeafValues, SharedTerms DEF KnownAt, Rows!Known
    <3>3. Reads(f, wires, n) = Ok(Rows!Kept(f, W(id), v[id], stored[id], again))
      BY <3>1, <3>2
    <3>4. S[id] = Reads(f, wires, n)[2]  BY <2>2 DEF Shown
    <3> QED BY <2>2, <3>3, <3>4, Verdicts
  <2>3. CASE f.flatten
    <3> DEFINE T == f.ty
               E(i) == Rows!Kept(FieldOf(T, i), Rows!Known(W(id), i), v[id][i], stored[id][i], again)
    <3>1. Distinct(T) /\ T.t # "enum" /\ ~f.skipDecode
      BY <2>1, <2>3, RegularFields DEF Distinct
    <3>2. O(id) = [i \in Ids(T) |-> E(i)]
      BY <2>3, <3>1, SharedTerms DEF Rows!Edited
    <3>3. ASSUME NEW i \in Ids(T) PROVE Reads(FieldOf(T, i), wires, n) = Ok(E(i))
      <4> DEFINE g == FieldOf(T, i)
      <4>1. g \in Fields(T) /\ g.id = i  BY <3>1, FieldsOf
      <4>2. /\ <<f, g>> \in Leaves(d) /\ LeafOf(<<f, g>>) = g
            /\ At(v, <<f, g>>) = v[id][i] /\ At(stored, <<f, g>>) = stored[id][i]
        <5>1. <<f, g>> \in Leaves(d)  BY <2>1, <2>3, <4>1, LeavesAre
        <5>2. LeafOf(<<f, g>>) = g /\ \A w : At(w, <<f, g>>) = w[f.id][g.id]
          BY LeafValues
        <5> QED BY <2>1, <4>1, <5>1, <5>2
      <4>3. KnownAt(known, <<f, g>>) = Rows!Known(W(id), i)
        <5>1. At(known[1], <<f, g>>) = known[1][id][i]  BY <2>1, <4>1, LeafValues
        <5> QED BY <5>1, SharedTerms, Options DEF KnownAt, Rows!Known
      <4> QED BY <4>2, <4>3
    <3>4. S[id] = [i \in Ids(T) |-> Reads(FieldOf(T, i), wires, n)[2]]
      BY <2>3 DEF Shown
    <3>5. \A i \in Ids(T) : Reads(FieldOf(T, i), wires, n)[2] = E(i)
      BY <3>3, Verdicts
    <3> HIDE DEF E, O, S
    <3> QED BY <3>2, <3>4, <3>5
  <2> QED BY <2>2, <2>3
<1>4. S = [id \in Ids(d) |-> S[id]]  BY DEF Shown
<1> HIDE DEF S, O
<1>5. [id \in Ids(d) |-> S[id]] = [id \in Ids(d) |-> O(id)]  BY <1>3
<1> QED BY <1>1, <1>2, <1>4, <1>5

\* A row, decoded.
Row(n, wires) == [rid |-> n, type |-> Class, cols |-> wires]

LEMMA DecodedIs ==
  ASSUME NEW d, NEW n, NEW wires
  PROVE  DecodeRecord(d, Row(n, wires)) = FromMap(d, wires, {}, Meta(n))
<1>1. Row(n, wires).rid = n /\ Row(n, wires).type = Class /\ Row(n, wires).cols = wires
  BY DEF Row
<1>2. Meta(n) = [m \in Synthetic |-> IF m = "@rid" THEN Some(<<"string", <<"rid", n>>>>)
                                    ELSE Some(<<"string", <<"text", Class>>>>)]
  BY DEF Meta
<1> QED BY <1>1, <1>2 DEF DecodeRecord

LEMMA RowDecodes ==
  ASSUME NEW d, NEW rids, Regular(d, rids), NEW n, NEW wires, ColsOk(d, wires, n)
  PROVE  /\ DecodeRecord(d, Row(n, wires)) = Ok(Shown(d, wires, n))
         /\ KnownOk(d, Shown(d, wires, n))
         /\ \A p \in Leaves(d) : Shows(LeafOf(p), wires, n, At(Shown(d, wires, n), p))
<1>1. ASSUME NEW p \in Leaves(d)
      PROVE  Shows(LeafOf(p), wires, n, At(Shown(d, wires, n), p))
  <2>1. PICK x : Shows(LeafOf(p), wires, n, x)  BY DEF ColsOk
  <2>2. Reads(LeafOf(p), wires, n) = Ok(x)  BY <2>1 DEF Shows
  <2>3. At(Shown(d, wires, n), p) = x  BY <2>2, ShownAt, Verdicts
  <2> QED BY <2>1, <2>3
<1>2. \A p \in Leaves(d) : \E x : Reads(LeafOf(p), wires, n) = Ok(x)
  BY <1>1 DEF Shows
<1>3. FromMap(d, wires, {}, Meta(n)) = Ok(Shown(d, wires, n))  BY <1>2, RecordRead
<1> QED BY <1>1, <1>3, DecodedIs DEF KnownOk, Shows

\* Each leaf of the row after a write shows what it is to keep of the row before.
Keeps(d, wires, n, known, v, stored, again) ==
  \A p \in Leaves(d) :
     Shows(LeafOf(p), wires, n,
           Rows!Kept(LeafOf(p), KnownAt(known, p), At(v, p), At(stored, p), again))

LEMMA KeepsMeans ==
  ASSUME NEW d, NEW rids, Regular(d, rids), NEW wires, NEW n, NEW known, NEW v, NEW stored,
         NEW again, Synthetic \cap DOMAIN wires = {}, Keeps(d, wires, n, known, v, stored, again)
  PROVE  /\ ColsOk(d, wires, n)
         /\ DecodeRecord(d, Row(n, wires)) = Ok(Rows!Over(d, known, v, stored, again))
<1>1. ColsOk(d, wires, n)  BY DEF Keeps, ColsOk
<1>2. \A p \in Leaves(d) : Reads(LeafOf(p), wires, n)
         = Ok(Rows!Kept(LeafOf(p), KnownAt(known, p), At(v, p), At(stored, p), again))
  BY DEF Keeps, Shows
<1>3. FromMap(d, wires, {}, Meta(n)) = Ok(Rows!Over(d, known, v, stored, again))
  BY <1>2, OverByLeaf
<1> QED BY <1>1, <1>3, DecodedIs

\* update_record_partial: what changed since the snapshot.
LEMMA SaveMeans ==
  ASSUME NEW d, Regular(d, Nat), NEW n \in Nat, NEW wires, ColsOk(d, wires, n),
         NEW u, KnownOk(d, u), NEW v, KnownOk(d, v), NEW again,
         NEW after, after = Later(wires, PropsDiff(d, u, v, again))
  PROVE  /\ ColsOk(d, after, n)
         /\ DecodeRecord(d, Row(n, after))
              = Ok(Rows!Over(d, Some(u), v, DecodeRecord(d, Row(n, wires))[2], again))
<1> DEFINE stored == Shown(d, wires, n)
           K == Changes(d, u, v) \cup (again \cap DOMAIN Props(d, v))
<1>1. Merged(d, v, K, wires, after)  BY DiffIs, LaterMerges
<1>2. K \subseteq DOMAIN Props(d, v)  BY DEF Changes
<1>3. Synthetic \cap DOMAIN wires = {}  BY DEF ColsOk
<1>4. /\ DecodeRecord(d, Row(n, wires)) = Ok(stored)
      /\ \A p \in Leaves(d) : Shows(LeafOf(p), wires, n, At(stored, p))
  BY RowDecodes
<1> HIDE DEF stored, K
<1>5. Synthetic \cap DOMAIN after = {}
  BY <1>1, <1>2, <1>3, PropsNotSynthetic DEF Merged
<1>6. ASSUME NEW p \in Leaves(d)
      PROVE  Shows(LeafOf(p), after, n,
                   Rows!Kept(LeafOf(p), KnownAt(Some(u), p), At(v, p), At(stored, p), again))
  <2>1. KnownAt(Some(u), p) = Some(At(u, p))  BY Options DEF KnownAt
  <2>2. ComesBack(LeafOf(p), At(u, p)) /\ ComesBack(LeafOf(p), At(v, p))  BY DEF KnownOk
  <2>3. PushedLeaf(v, p) => (LeafName(p) \in K <=> At(u, p) # At(v, p) \/ LeafName(p) \in again)
    <3>1. PushedLeaf(v, p) => LeafName(p) \in DOMAIN Props(d, v)  BY PropsSay
    <3>2. PushedLeaf(v, p) => (LeafName(p) \in Changes(d, u, v) <=> At(u, p) # At(v, p))
      BY <2>2, ChangedLeaf
    <3> QED BY <3>1, <3>2 DEF K
  <2>4. Some(At(u, p)) = Some(At(v, p)) <=> At(u, p) = At(v, p)  BY Options
  <2> QED BY <1>1, <1>2, <1>3, <1>4, <2>1, <2>2, <2>3, <2>4, LeafKept
<1>7. Keeps(d, after, n, Some(u), v, stored, again)  BY <1>6 DEF Keeps
<1>8. /\ ColsOk(d, after, n)
      /\ DecodeRecord(d, Row(n, after)) = Ok(Rows!Over(d, Some(u), v, stored, again))
  BY <1>5, <1>7, KeepsMeans
<1> QED BY <1>4, <1>8, Verdicts

\* bulk_upsert_dtos on a row with the key of the record: the other columns.
LEMMA UpsertMeans ==
  ASSUME NEW d, Regular(d, Nat), NEW n \in Nat, NEW wires, ColsOk(d, wires, n),
         NEW v, KnownOk(d, v), NEW keys,
         \A k \in keys : k \in DOMAIN wires /\ wires[k] = Props(d, v)[k],
         NEW after, after = Later(wires, Restrict(Props(d, v), DOMAIN Props(d, v) \ keys))
  PROVE  /\ ColsOk(d, after, n)
         /\ DecodeRecord(d, Row(n, after))
              = Ok(Rows!Over(d, None, v, DecodeRecord(d, Row(n, wires))[2], {}))
<1> DEFINE K == DOMAIN Props(d, v) \ keys
           stored == Shown(d, wires, n)
<1>1. Merged(d, v, K, wires, after)  BY LaterMerges
<1>2. K \subseteq DOMAIN Props(d, v)  OBVIOUS
<1>3. Synthetic \cap DOMAIN wires = {}  BY DEF ColsOk
<1>4. /\ DecodeRecord(d, Row(n, wires)) = Ok(stored)
      /\ \A p \in Leaves(d) : Shows(LeafOf(p), wires, n, At(stored, p))
  BY RowDecodes
<1> HIDE DEF stored
<1>5. Synthetic \cap DOMAIN after = {}
  BY <1>1, <1>3, PropsNotSynthetic DEF Merged
<1>6. ASSUME NEW p \in Leaves(d)
      PROVE  Shows(LeafOf(p), after, n,
                   Rows!Kept(LeafOf(p), KnownAt(None, p), At(v, p), At(stored, p), {}))
  <2>1. KnownAt(None, p) = None  BY DEF KnownAt
  <2>2. ComesBack(LeafOf(p), At(v, p))  BY DEF KnownOk
  <2>3. ASSUME PushedLeaf(v, p), ~LeafOf(p).skipDecode, LeafName(p) \notin K
        PROVE  At(v, p) = At(stored, p)
    <3>1. /\ DecodeName(LeafOf(p)) = LeafName(p) /\ LeafName(p) \in DOMAIN Props(d, v)
          /\ Props(d, v)[LeafName(p)] = LeafWire(v, p) /\ ~RidField(LeafOf(p))
      BY <2>3, PushedReads
    <3>2. LeafName(p) \in DOMAIN wires /\ wires[LeafName(p)] = LeafWire(v, p)
      BY <2>3, <3>1
    <3>3. Reads(LeafOf(p), wires, n) = Present(LeafOf(p), LeafWire(v, p))
      BY <2>3, <3>1, <3>2, LeafRead
    <3>4. Reads(LeafOf(p), wires, n) = Ok(At(v, p))
      BY <2>2, <2>3, <3>3 DEF ComesBack, PushedLeaf, LeafWire
    <3>5. Reads(LeafOf(p), wires, n) = Ok(At(stored, p))  BY <1>4 DEF Shows
    <3> QED BY <3>4, <3>5, Verdicts
  <2>4. None # Some(At(v, p))  BY Options
  <2> HIDE DEF K
  <2> QED BY <1>1, <1>2, <1>3, <1>4, <2>1, <2>2, <2>3, <2>4, LeafKept
<1>7. Keeps(d, after, n, None, v, stored, {})  BY <1>6 DEF Keeps
<1>8. ColsOk(d, after, n) /\ DecodeRecord(d, Row(n, after)) = Ok(Rows!Over(d, None, v, stored, {}))
  BY <1>5, <1>7, KeepsMeans
<1> QED BY <1>4, <1>8, Verdicts

\* A new row.
LEMMA BirthMeans ==
  ASSUME Regular(dto, Nat), next \in Nat, NEW v, KnownOk(dto, v)
  PROVE  /\ ColsOk(dto, Props(dto, v), next)
         /\ DecodeRecord(dto, Row(next, Props(dto, v))) = Ok(Rows!Over(dto, None, v, Rows!Blank(v), {}))
<1>1. ASSUME NEW p \in Leaves(dto) PROVE At(Rows!Blank(v), p) = BlankLeaf(LeafOf(p), next)
  <2> DEFINE B == Rows!Blank(v)
  <2>1. ASSUME NEW f \in Fields(dto), ~f.flatten, p = <<f>>
        PROVE  At(B, p) = BlankLeaf(LeafOf(p), next)
    <3>1. f.id \in Ids(dto) /\ FieldOf(dto, f.id) = f  BY RegularFields, FieldsOf
    <3>2. B[f.id] = IF f.rename = "@rid" THEN Some(next) ELSE FieldDefault(f)
      BY <2>1, <3>1, SharedTerms DEF Rows!Blank
    <3>3. RidField(f) <=> f.rename = "@rid"  BY <2>1, RegularFields DEF RidField
    <3> QED BY <2>1, <3>2, <3>3, LeafValues DEF BlankLeaf
  <2>2. ASSUME NEW f \in Fields(dto), f.flatten, NEW g \in Fields(f.ty), p = <<f, g>>
        PROVE  At(B, p) = BlankLeaf(LeafOf(p), next)
    <3>1. f.id \in Ids(dto) /\ FieldOf(dto, f.id) = f  BY RegularFields, FieldsOf
    <3>2. Distinct(f.ty) /\ f.ty.t # "enum" /\ f.rename # "@rid"
      BY <2>2, RegularFields DEF Distinct
    <3>3. g.id \in Ids(f.ty) /\ FieldOf(f.ty, g.id) = g  BY <2>2, <3>2, FieldsOf
    <3>4. B[f.id] = [i \in Ids(f.ty) |-> FieldDefault(FieldOf(f.ty, i))]
      BY <2>2, <3>1, <3>2, SharedTerms DEF Rows!Blank
    <3>5. B[f.id][g.id] = FieldDefault(g)  BY <3>3, <3>4
    <3>6. ~RidField(g)
      <4>1. Names(g) \cap Synthetic = {}  BY <2>2, RegularFields
      <4>2. RidField(g) => "@rid" \in Names(g)  BY DEF RidField, Names, DecodeName, NoName
      <4> QED BY <4>1, <4>2 DEF Synthetic
    <3> QED BY <2>2, <3>5, <3>6, LeafValues DEF BlankLeaf
  <2> QED BY <2>1, <2>2, LeafKinds
<1>2. ASSUME NEW p \in Leaves(dto)
      PROVE  Shows(LeafOf(p), Props(dto, v), next,
                   Rows!Kept(LeafOf(p), KnownAt(None, p), At(v, p), At(Rows!Blank(v), p), {}))
  <2>1. ComesBack(LeafOf(p), At(v, p))  BY DEF KnownOk
  <2>2. KnownAt(None, p) = None  BY DEF KnownAt
  <2> QED BY <1>1, <2>1, <2>2, LeafBorn
<1>3. Keeps(dto, Props(dto, v), next, None, v, Rows!Blank(v), {})  BY <1>2 DEF Keeps
<1> QED BY <1>3, KeepsMeans, PropsNotSynthetic

\* What clients hold, and what is on its way, comes from the row and from the scenario.
KeysHeld(s, wires) ==
  \A v \in s.values : \A k \in KeyColumns(s.dto) :
     k \in DOMAIN wires /\ k \in DOMAIN Props(s.dto, v) /\ wires[k] = Props(s.dto, v)[k]

SoundRow(s, n, wires) == n \in Nat /\ ColsOk(s.dto, wires, n) /\ KeysHeld(s, wires)
RowOk(s, stored) == stored = None \/ \E n, wires : stored = Some(Row(n, wires)) /\ SoundRow(s, n, wires)

HeldOk(s, h) == h = None \/ \E n, u : h = Some([rid |-> n, value |-> u]) /\ KnownOk(s.dto, u)

Creates(s, r) ==
  /\ r.op \in {"upsert", "insert", "create"}
  /\ r.known = None /\ r.value \in s.values /\ r.cols = Props(s.dto, r.value)
Saves(s, r) ==
  /\ r.op = "save" /\ r.value \in s.values
  /\ \E u : r.known = Some(u) /\ KnownOk(s.dto, u) /\ r.cols = PropsDiff(s.dto, u, r.value, r.again)
Sound(s, r) == r.client \in Client /\ (Creates(s, r) \/ Saves(s, r) \/ r.op = "delete")

CallOk(s, w) == w = None \/ \E r, b : w = Some([request |-> r, failed |-> b]) /\ Sound(s, r)

WInv ==
  /\ scenario \in Scenarios
  /\ next \in Nat
  /\ RowOk(scenario, row)
  /\ DOMAIN held = Client /\ \A c \in Client : HeldOk(scenario, held[c])
  /\ DOMAIN call = Client /\ \A c \in Client : CallOk(scenario, call[c])
  /\ \A r \in requests : Sound(scenario, r)

\* The record types show what is written of their values.
AllFaithful == \A s \in Scenarios : Faithful(s, Nat)

LEMMA ScenarioFacts ==
  ASSUME AllFaithful, NEW s \in Scenarios
  PROVE  /\ Regular(s.dto, Nat)
         /\ \A v \in s.values : KnownOk(s.dto, v) /\ KeysHeld(s, Props(s.dto, v))
<1>1. Faithful(s, Nat)  BY DEF AllFaithful
<1>2. Regular(s.dto, Nat) /\ \A v \in s.values : KnownOk(s.dto, v)
  BY <1>1 DEF Faithful, KnownOk
<1>3. ASSUME NEW v \in s.values PROVE KeysHeld(s, Props(s.dto, v))
  <2> SUFFICES ASSUME NEW w \in s.values, NEW k \in KeyColumns(s.dto)
               PROVE  /\ k \in DOMAIN Props(s.dto, v) /\ k \in DOMAIN Props(s.dto, w)
                      /\ Props(s.dto, v)[k] = Props(s.dto, w)[k]
    BY DEF KeysHeld
  <2> DEFINE keys == KeyColumns(s.dto)
  <2>1. /\ keys \subseteq DOMAIN Props(s.dto, v) /\ keys \subseteq DOMAIN Props(s.dto, w)
        /\ Restrict(Props(s.dto, v), keys) = Restrict(Props(s.dto, w), keys)
    BY ScenarioAssumption
  <2>2. Restrict(Props(s.dto, v), keys)[k] = Props(s.dto, v)[k]  BY DEF Restrict
  <2>3. Restrict(Props(s.dto, w), keys)[k] = Props(s.dto, w)[k]  BY DEF Restrict
  <2> QED BY <2>1, <2>2, <2>3
<1> QED BY <1>2, <1>3

\* The row as the abstract specification has it.
TypedOf(d, stored) ==
  IF stored = None THEN None
  ELSE LET r == DecodeRecord(d, stored[1])
       IN Some([rid |-> stored[1].rid, value |-> IF IsOk(r) THEN r[2] ELSE Err])

LEMMA TypedRowIs == TypedRow = TypedOf(dto, row)
  BY DEF TypedRow, TypedOf, Decoded

LEMMA TypedOfRow ==
  ASSUME NEW d, NEW n, NEW wires, NEW v, DecodeRecord(d, Row(n, wires)) = Ok(v)
  PROVE  TypedOf(d, Some(Row(n, wires))) = Some([rid |-> n, value |-> v])
<1>1. Some(Row(n, wires)) # None /\ Some(Row(n, wires))[1] = Row(n, wires) /\ Row(n, wires).rid = n
  BY Options DEF Row
<1>2. IsOk(Ok(v)) /\ Ok(v)[2] = v  BY Verdicts DEF IsOk
<1> QED BY <1>1, <1>2 DEF TypedOf

LEMMA RowMerged ==
  ASSUME NEW n, NEW wires, NEW more
  PROVE  [Row(n, wires) EXCEPT !.cols = Later(@, more)] = Row(n, Later(wires, more))
  BY DEF Row

\* A request that was carried out did to the row what the write it stands for does.
LEMMA ServeMeans ==
  ASSUME AllFaithful, scenario \in Scenarios, next \in Nat, RowOk(scenario, row),
         NEW r, Sound(scenario, r), Serve(r)
  PROVE  /\ RowOk(scenario, row') /\ next' \in Nat
         /\ TypedOf(dto, row') = Rows!After(Write(r), TypedRow)
         /\ next' = IF Rows!Makes(Write(r)) THEN next + 1 ELSE next
<1> DEFINE w == Write(r)
           s == scenario
<1>1. /\ w.op = r.op /\ w.rid = r.rid /\ w.known = r.known /\ w.value = r.value /\ w.again = r.again
  BY DEF Write
<1>2. Regular(dto, Nat) /\ s.dto = dto /\ \A v \in s.values : KnownOk(dto, v) /\ KeysHeld(s, Props(dto, v))
  BY ScenarioFacts DEF dto
<1>3. TypedRow = None <=> row = None
  BY TypedRowIs, Options DEF TypedOf
<1>4. Rows!Makes(w) <=> r.op \in {"upsert", "insert", "create"} /\ row = None
  BY <1>1, <1>3, SharedTerms DEF Rows!Makes
<1>5. ASSUME NEW n, NEW wires, row = Some(Row(n, wires)), SoundRow(s, n, wires)
      PROVE  /\ n \in Nat /\ ColsOk(dto, wires, n) /\ KeysHeld(s, wires)
             /\ row # None /\ row[1] = Row(n, wires) /\ row[1].rid = n /\ row[1].cols = wires
             /\ TypedRow = Some([rid |-> n, value |-> DecodeRecord(dto, Row(n, wires))[2]])
             /\ \A rid : (IsRow(rid) <=> rid = n) /\ (Rows!IsRow(TypedRow, rid) <=> rid = n)
  <2>1. n \in Nat /\ ColsOk(dto, wires, n) /\ KeysHeld(s, wires)  BY <1>2, <1>5 DEF SoundRow
  <2>2. row # None /\ row[1] = Row(n, wires) /\ row[1].rid = n /\ row[1].cols = wires
    BY <1>5, Options DEF Row
  <2>3. DecodeRecord(dto, Row(n, wires)) = Ok(DecodeRecord(dto, Row(n, wires))[2])
    BY <1>2, <2>1, RowDecodes, Verdicts
  <2>4. TypedRow = Some([rid |-> n, value |-> DecodeRecord(dto, Row(n, wires))[2]])
    BY <1>5, <2>3, TypedRowIs, TypedOfRow
  <2>5. TypedRow[1].rid = n /\ TypedRow # None  BY <2>4, Options
  <2> QED BY <2>1, <2>2, <2>4, <2>5, SharedTerms DEF IsRow, Rows!IsRow
<1> HIDE DEF w
<1>6. CASE r.op \in {"upsert", "insert", "create"} /\ row = None
  <2>1. row' = Some(Row(next, r.cols)) /\ next' = next + 1
    BY <1>6 DEF Serve, NewRow, Row
  <2>2. Creates(s, r)  BY <1>6 DEF Sound, Saves
  <2>3. r.cols = Props(dto, r.value) /\ KnownOk(dto, r.value) /\ KeysHeld(s, r.cols)
    BY <1>2, <2>2 DEF Creates
  <2>4. /\ ColsOk(dto, r.cols, next)
        /\ DecodeRecord(dto, Row(next, r.cols)) = Ok(Rows!Over(dto, None, r.value, Rows!Blank(r.value), {}))
    BY <1>2, <2>3, BirthMeans
  <2>5. TypedOf(dto, row')
          = Some([rid |-> next, value |-> Rows!Over(dto, None, r.value, Rows!Blank(r.value), {})])
    BY <2>1, <2>4, TypedOfRow
  <2>6. Rows!After(w, TypedRow) = Rows!Born(r.value)  BY <1>1, <1>3, <1>4, <1>6,
      SharedTerms DEF Rows!After
  <2>7. SoundRow(s, next, r.cols)  BY <1>2, <2>3, <2>4 DEF SoundRow
  <2> QED BY <1>4, <1>6, <2>1, <2>5, <2>6, <2>7, SharedTerms DEF Rows!Born, RowOk, w
<1>7. CASE r.op = "upsert" /\ row # None
  <2>1. PICK n, wires : row = Some(Row(n, wires)) /\ SoundRow(s, n, wires)  BY <1>7 DEF RowOk
  <2>0. /\ n \in Nat /\ ColsOk(dto, wires, n) /\ KeysHeld(s, wires) /\ row[1] = Row(n, wires)
        /\ TypedRow = Some([rid |-> n, value |-> DecodeRecord(dto, Row(n, wires))[2]])
    BY <1>5, <2>1
  <2> DEFINE after == Later(wires, Restrict(r.cols, DOMAIN r.cols \ KeyColumns(dto)))
  <2>2. row' = Some([row[1] EXCEPT !.cols = Later(@, Restrict(r.cols, DOMAIN r.cols \ KeyColumns(dto)))])
        /\ next' = next
    BY <1>7 DEF Serve, Merge
  <2>3. row' = Some(Row(n, after))  BY <2>0, <2>2, RowMerged
  <2>4. Creates(s, r)  BY <1>7 DEF Sound, Saves
  <2>5. r.cols = Props(dto, r.value) /\ KnownOk(dto, r.value) /\ r.value \in s.values
    BY <1>2, <2>4 DEF Creates
  <2>6. \A k \in KeyColumns(dto) : k \in DOMAIN wires /\ wires[k] = Props(dto, r.value)[k]
    BY <1>2, <2>0, <2>5 DEF KeysHeld
  <2>7. /\ ColsOk(dto, after, n)
        /\ DecodeRecord(dto, Row(n, after))
             = Ok(Rows!Over(dto, None, r.value, DecodeRecord(dto, Row(n, wires))[2], {}))
    <3>1. after = Later(wires, Restrict(Props(dto, r.value), DOMAIN Props(dto, r.value) \ KeyColumns(dto)))
      BY <2>5
    <3> DEFINE keys == KeyColumns(dto)
               v == r.value
    <3>2. \A k \in keys : k \in DOMAIN wires /\ wires[k] = Props(dto, v)[k]  BY <2>6
    <3>3. after = Later(wires, Restrict(Props(dto, v), DOMAIN Props(dto, v) \ keys))  BY <3>1
    <3>4. Regular(dto, Nat) /\ n \in Nat /\ ColsOk(dto, wires, n) /\ KnownOk(dto, v)
      BY <1>2, <2>0, <2>5
    <3> HIDE DEF after, keys, v
    <3>5. /\ ColsOk(dto, after, n)
          /\ DecodeRecord(dto, Row(n, after)) = Ok(Rows!Over(dto, None, v, DecodeRecord(dto, Row(n, wires))[2], {}))
      BY <3>2, <3>3, <3>4, UpsertMeans
    <3> QED BY <3>5 DEF v
  <2>8. KeysHeld(s, after)
    BY <1>2, <2>0, <2>5 DEF KeysHeld, Later, Restrict
  <2>9. TypedOf(dto, row')
          = Some([rid |-> n, value |-> Rows!Over(dto, None, r.value, DecodeRecord(dto, Row(n, wires))[2], {})])
    BY <2>3, <2>7, TypedOfRow
  <2>11. Rows!After(w, TypedRow) = Rows!Written(TypedRow, None, r.value, {})
    BY <1>1, <1>3, <1>4, <1>7, SharedTerms DEF Rows!After
  <2>12. Rows!Written(TypedRow, None, r.value, {})
           = Some([rid |-> n, value |-> Rows!Over(dto, None, r.value, DecodeRecord(dto, Row(n, wires))[2], {})])
    BY <2>0, SharedTerms, Options DEF Rows!Written
  <2>13. SoundRow(s, n, after)  BY <1>2, <2>0, <2>7, <2>8 DEF SoundRow
  <2> HIDE DEF after
  <2> QED BY <1>4, <1>7, <2>2, <2>3, <2>9, <2>11, <2>12, <2>13 DEF RowOk, w
<1>8. CASE r.op = "save" /\ IsRow(r.rid)
  <2>1. PICK n, wires : row = Some(Row(n, wires)) /\ SoundRow(s, n, wires)  BY <1>8 DEF RowOk, IsRow
  <2>0. /\ n \in Nat /\ ColsOk(dto, wires, n) /\ KeysHeld(s, wires) /\ row[1] = Row(n, wires)
        /\ TypedRow = Some([rid |-> n, value |-> DecodeRecord(dto, Row(n, wires))[2]])
    BY <1>5, <2>1
  <2> DEFINE after == Later(wires, r.cols)
  <2>2. row' = Some([row[1] EXCEPT !.cols = Later(@, r.cols)]) /\ next' = next
    BY <1>8 DEF Serve, Merge
  <2>3. row' = Some(Row(n, after))  BY <2>0, <2>2, RowMerged
  <2>4. Saves(s, r)  BY <1>8 DEF Sound, Creates
  <2>5. PICK u : /\ r.known = Some(u) /\ KnownOk(dto, u) /\ KnownOk(dto, r.value)
                 /\ r.cols = PropsDiff(dto, u, r.value, r.again) /\ r.value \in s.values
    BY <1>2, <2>4 DEF Saves
  <2>6. /\ ColsOk(dto, after, n)
        /\ DecodeRecord(dto, Row(n, after))
             = Ok(Rows!Over(dto, Some(u), r.value, DecodeRecord(dto, Row(n, wires))[2], r.again))
    BY <1>2, <2>0, <2>5, SaveMeans
  <2>7. KeysHeld(s, after)
    <3>1. \A k \in DOMAIN r.cols : k \in DOMAIN Props(dto, r.value) /\ r.cols[k] = Props(dto, r.value)[k]
      BY <2>5, DiffIs DEF Restrict, Changes
    <3>2. KeysHeld(s, wires) /\ KeysHeld(s, Props(dto, r.value))  BY <1>2, <2>0, <2>5
    <3> QED BY <1>2, <3>1, <3>2 DEF KeysHeld, Later
  <2>8. TypedOf(dto, row')
          = Some([rid |-> n, value |-> Rows!Over(dto, Some(u), r.value, DecodeRecord(dto, Row(n, wires))[2], r.again)])
    BY <2>3, <2>6, TypedOfRow
  <2>10. Rows!IsRow(TypedRow, r.rid)  BY <1>5, <1>8, <2>1
  <2>11. Rows!After(w, TypedRow) = Rows!Written(TypedRow, Some(u), r.value, r.again)
    BY <1>1, <1>4, <1>8, <2>5, <2>10 DEF Rows!After
  <2>12. Rows!Written(TypedRow, Some(u), r.value, r.again)
           = Some([rid |-> n, value |-> Rows!Over(dto, Some(u), r.value, DecodeRecord(dto, Row(n, wires))[2], r.again)])
    BY <2>0, SharedTerms, Options DEF Rows!Written
  <2>13. SoundRow(s, n, after)  BY <1>2, <2>0, <2>6, <2>7 DEF SoundRow
  <2> HIDE DEF after
  <2> QED BY <1>4, <1>8, <2>2, <2>3, <2>8, <2>11, <2>12, <2>13 DEF RowOk, w
<1>9. CASE r.op = "delete" /\ IsRow(r.rid)
  <2>1. PICK n, wires : row = Some(Row(n, wires)) /\ SoundRow(s, n, wires)  BY <1>9 DEF RowOk, IsRow
  <2>2. row' = None /\ next' = next  BY <1>9 DEF Serve
  <2>3. Rows!IsRow(TypedRow, r.rid)  BY <1>5, <1>9, <2>1
  <2>4. Rows!After(w, TypedRow) = None  BY <1>1, <1>4, <1>9, <2>3, SharedTerms DEF Rows!After
  <2> QED BY <1>4, <1>9, <2>2, <2>4 DEF RowOk, TypedOf, w
<1>10. CASE /\ ~(r.op \in {"upsert", "insert", "create"} /\ row = None)
            /\ ~(r.op = "upsert" /\ row # None)
            /\ ~(r.op \in {"save", "delete"} /\ IsRow(r.rid))
  <2>1. row' = row /\ next' = next  BY <1>10 DEF Serve
  <2>2. r.op \in {"save", "delete"} => ~Rows!IsRow(TypedRow, r.rid)
    <3>1. CASE row = None  BY <3>1, <1>3, SharedTerms DEF Rows!IsRow
    <3>2. CASE row # None
      <4>1. PICK n, wires : row = Some(Row(n, wires)) /\ SoundRow(s, n, wires)  BY <3>2 DEF RowOk
      <4> QED BY <1>5, <1>10, <4>1
    <3> QED BY <3>1, <3>2
  <2>3. Rows!After(w, TypedRow) = TypedRow
    BY <1>1, <1>3, <1>4, <1>10, <2>2, SharedTerms DEF Rows!After
  <2> QED BY <1>4, <1>10, <2>1, <2>3, TypedRowIs DEF w
<1> QED BY <1>6, <1>7, <1>8, <1>9, <1>10

LEMMA RecordsStart == ASSUME Init PROVE WInv
  BY DEF Init, WInv, RowOk, HeldOk, CallOk

\* What a step of a client leaves of the calls and of what is held.
LEMMA CallKept ==
  ASSUME WInv, NEW c \in Client, NEW w, CallOk(scenario, w), call' = [call EXCEPT ![c] = w]
  PROVE  DOMAIN call' = Client /\ \A b \in Client : CallOk(scenario, call'[b])
  BY DEF WInv

LEMMA HeldKept ==
  ASSUME WInv, NEW c \in Client, NEW h, HeldOk(scenario, h), held' = [held EXCEPT ![c] = h]
  PROVE  DOMAIN held' = Client /\ \A b \in Client : HeldOk(scenario, held'[b])
  BY DEF WInv

LEMMA NoWrite ==
  /\ \A s : HeldOk(s, None) /\ CallOk(s, None)
  /\ \A s, r, b : Sound(s, r) => CallOk(s, Some([request |-> r, failed |-> b]))
  BY DEF HeldOk, CallOk

\* The request a client waits for.
LEMMA CallRequest ==
  ASSUME WInv, NEW c \in Client, call[c] # None
  PROVE  /\ Sound(scenario, call[c][1].request)
         /\ \A b : CallOk(scenario, Some([call[c][1] EXCEPT !.failed = b]))
<1>1. PICK r, b : call[c] = Some([request |-> r, failed |-> b]) /\ Sound(scenario, r)
  BY DEF WInv, CallOk
<1>2. call[c][1] = [request |-> r, failed |-> b]  BY <1>1, Options
<1>3. \A a : [call[c][1] EXCEPT !.failed = a] = [request |-> r, failed |-> a]  BY <1>2
<1> QED BY <1>1, <1>2, <1>3, NoWrite

\* A row that is read shows a value that comes back.
LEMMA DecodedKnown ==
  ASSUME AllFaithful, WInv, row # None
  PROVE  IsOk(Decoded) => KnownOk(scenario.dto, Decoded[2])
<1>1. PICK n, wires : row = Some(Row(n, wires)) /\ SoundRow(scenario, n, wires)  BY DEF WInv, RowOk
<1>2. Regular(dto, Nat) /\ scenario.dto = dto  BY ScenarioFacts DEF WInv, dto
<1>3. ColsOk(dto, wires, n)  BY <1>1, <1>2 DEF SoundRow
<1>4. Decoded = Ok(Shown(dto, wires, n)) /\ KnownOk(dto, Shown(dto, wires, n))
  BY <1>1, <1>2, <1>3, RowDecodes, Options DEF Decoded
<1> QED BY <1>2, <1>4, Verdicts

\* A step of a client that reads.
LEMMA ReadStep ==
  ASSUME AllFaithful, WInv, NEW c \in Client, Fetch(c) \/ Lookup(c)
  PROVE  WInv' /\ UNCHANGED <<scenario, row, next, requests>>
<1>1. CASE Fetch(c)
  <2> DEFINE h == IF IsOk(Decoded) THEN Some([rid |-> row[1].rid, value |-> Decoded[2]]) ELSE None
  <2>1. held' = [held EXCEPT ![c] = h] /\ row # None
        /\ UNCHANGED <<scenario, row, next, call, requests>>
    BY <1>1 DEF Fetch
  <2>2. HeldOk(scenario, h)  BY <2>1, DecodedKnown DEF HeldOk
  <2> HIDE DEF h
  <2>3. DOMAIN held' = Client /\ \A b \in Client : HeldOk(scenario, held'[b])
    BY <2>1, <2>2, HeldKept
  <2> QED BY <2>1, <2>3 DEF WInv
<1>2. CASE Lookup(c)
  <2> DEFINE found == row # None /\ row[1].rid = held[c][1].rid
             h == IF found /\ IsOk(Decoded) THEN Some([held[c][1] EXCEPT !.value = Decoded[2]]) ELSE None
  <2>1. held' = [held EXCEPT ![c] = h] /\ held[c] # None
        /\ UNCHANGED <<scenario, row, next, call, requests>>
    BY <1>2 DEF Lookup
  <2>2. PICK n, u : held[c] = Some([rid |-> n, value |-> u])  BY <2>1 DEF WInv, HeldOk
  <2>3. [held[c][1] EXCEPT !.value = Decoded[2]] = [rid |-> n, value |-> Decoded[2]]
    BY <2>2, Options
  <2>4. HeldOk(scenario, h)  BY <2>3, DecodedKnown DEF HeldOk
  <2> HIDE DEF h
  <2>5. DOMAIN held' = Client /\ \A b \in Client : HeldOk(scenario, held'[b])
    BY <2>1, <2>4, HeldKept
  <2> QED BY <2>1, <2>5 DEF WInv
<1> QED BY <1>1, <1>2

\* What the abstract writers ask for.
Asked(rs) == {Write(r) : r \in rs}

LEMMA AskedIs ==
  ASSUME NEW rs, NEW r
  PROVE  /\ Asked(rs \cup {r}) = Asked(rs) \cup {Write(r)}
         /\ r \in rs => Write(r) \in Asked(rs) /\ Asked(rs \ {r}) \in {Asked(rs), Asked(rs) \ {Write(r)}}
<1>1. Asked(rs \cup {r}) = Asked(rs) \cup {Write(r)}  BY DEF Asked
<1>2. ASSUME r \in rs
      PROVE  Write(r) \in Asked(rs) /\ Asked(rs \ {r}) \in {Asked(rs), Asked(rs) \ {Write(r)}}
  <2>1. Write(r) \in Asked(rs)  BY <1>2 DEF Asked
  <2>2. CASE \E q \in rs \ {r} : Write(q) = Write(r)
    <3>1. Asked(rs \ {r}) = Asked(rs)  BY <1>2, <2>2 DEF Asked
    <3> QED BY <2>1, <3>1
  <2>3. CASE ~\E q \in rs \ {r} : Write(q) = Write(r)
    <3>1. Asked(rs \ {r}) = Asked(rs) \ {Write(r)}  BY <1>2, <2>3 DEF Asked
    <3> QED BY <2>1, <3>1
  <2> QED BY <2>2, <2>3
<1> QED BY <1>1, <1>2

\* A step of a client that writes: it asks for one write.
Asks == /\ UNCHANGED <<scenario, row, next>>
        /\ \E r : Sound(scenario, r) /\ requests' = requests \cup {r}

LEMMA SendStep ==
  ASSUME WInv, NEW c \in Client, NEW r, Sound(scenario, r), Send(c, r)
  PROVE  WInv' /\ Asks
<1>1. /\ call' = [call EXCEPT ![c] = Some([request |-> r, failed |-> FALSE])]
      /\ requests' = requests \cup {r} /\ UNCHANGED <<scenario, row, next, held>>
  BY DEF Send
<1>2. CallOk(scenario, Some([request |-> r, failed |-> FALSE]))  BY NoWrite
<1>3. DOMAIN call' = Client /\ \A b \in Client : CallOk(scenario, call'[b])
  BY <1>1, <1>2, CallKept
<1> QED BY <1>1, <1>3 DEF WInv, Asks

LEMMA WriteStep ==
  ASSUME AllFaithful, WInv, NEW c \in Client,
         \/ DeleteRecord(c)
         \/ \E v \in scenario.values : BulkUpsert(c, v) \/ BulkInsert(c, v) \/ CreateRecord(c, v)
                                       \/ UpdatePartial(c, v)
  PROVE  WInv' /\ Asks
<1>1. CASE DeleteRecord(c)
  <2> DEFINE r == Request(c, "delete", held[c][1].rid, None, held[c][1].value, NoProps, {})
  <2>1. Send(c, r)  BY <1>1 DEF DeleteRecord
  <2>2. Sound(scenario, r)  BY DEF Request, Sound
  <2> HIDE DEF r
  <2> QED BY <2>1, <2>2, SendStep
<1>2. ASSUME NEW v \in scenario.values, BulkUpsert(c, v) \/ BulkInsert(c, v) \/ CreateRecord(c, v)
      PROVE  WInv' /\ Asks
  <2>1. PICK op \in {"upsert", "insert", "create"} :
          Send(c, Request(c, op, 0, None, v, Props(dto, v), {}))
    BY <1>2 DEF BulkUpsert, BulkInsert, CreateRecord
  <2> DEFINE r == Request(c, op, 0, None, v, Props(dto, v), {})
  <2>2. Sound(scenario, r)  BY DEF Request, Sound, Creates, dto
  <2> HIDE DEF r
  <2> QED BY <2>1, <2>2, SendStep DEF r
<1>3. ASSUME NEW v \in scenario.values, UpdatePartial(c, v)
      PROVE  WInv' /\ Asks
  <2>1. PICK n, u : held[c] = Some([rid |-> n, value |-> u]) /\ KnownOk(scenario.dto, u)
    BY <1>3 DEF UpdatePartial, WInv, HeldOk
  <2>2. held[c][1] = [rid |-> n, value |-> u] /\ held[c][1].rid = n /\ held[c][1].value = u
    BY <2>1, Options
  <2>0. PICK again : Send(c, Request(c, "save", n, Some(u), v, PropsDiff(dto, u, v, again), again))
    BY <1>3, <2>2 DEF UpdatePartial
  <2> DEFINE r == Request(c, "save", n, Some(u), v, PropsDiff(dto, u, v, again), again)
  <2>3. Send(c, r)  BY <2>0
  <2>4. Sound(scenario, r)  BY <2>1 DEF Request, Sound, Saves, dto
  <2> HIDE DEF r
  <2> QED BY <2>3, <2>4, SendStep
<1> QED BY <1>1, <1>2, <1>3

LEMMA RepeatStep ==
  ASSUME WInv, NEW c \in Client, Repeat(c)
  PROVE  WInv' /\ Asks
<1>1. /\ call[c] # None /\ call' = [call EXCEPT ![c] = Some([call[c][1] EXCEPT !.failed = FALSE])]
      /\ requests' = requests \cup {call[c][1].request} /\ UNCHANGED <<scenario, row, next, held>>
  BY DEF Repeat, Failed
<1>2. /\ Sound(scenario, call[c][1].request)
      /\ CallOk(scenario, Some([call[c][1] EXCEPT !.failed = FALSE]))
  BY <1>1, CallRequest
<1>3. DOMAIN call' = Client /\ \A b \in Client : CallOk(scenario, call'[b])
  BY <1>1, <1>2, CallKept
<1> QED BY <1>1, <1>2, <1>3 DEF WInv, Asks

LEMMA LeaveStep ==
  ASSUME WInv, NEW c \in Client, Leave(c)
  PROVE  WInv' /\ UNCHANGED <<scenario, row, next, requests>>
<1>1. call' = [call EXCEPT ![c] = None] /\ UNCHANGED <<scenario, row, next, held, requests>>
  BY DEF Leave
<1>2. DOMAIN call' = Client /\ \A b \in Client : CallOk(scenario, call'[b])
  BY <1>1, NoWrite, CallKept
<1> QED BY <1>1, <1>2 DEF WInv

\* A call that failed, or goes on.
LEMMA FailKept ==
  ASSUME WInv, NEW r, Sound(scenario, r),
         (Waits(r) /\ Fail(r.client)) \/ UNCHANGED call
  PROVE  DOMAIN call' = Client /\ \A b \in Client : CallOk(scenario, call'[b])
<1>1. CASE UNCHANGED call  BY <1>1 DEF WInv
<1>2. CASE Waits(r) /\ Fail(r.client)
  <2>1. r.client \in Client /\ call[r.client] # None
    BY <1>2, Options DEF Sound, Waits
  <2>2. call' = [call EXCEPT ![r.client] = Some([call[r.client][1] EXCEPT !.failed = TRUE])]
    BY <1>2 DEF Fail
  <2>3. CallOk(scenario, Some([call[r.client][1] EXCEPT !.failed = TRUE]))
    BY <2>1, CallRequest
  <2> QED BY <2>1, <2>2, <2>3, CallKept
<1> QED BY <1>1, <1>2

\* A request leaves the network, carried out or not.
Ends(r) == /\ r \in requests /\ requests' = requests \ {r} /\ UNCHANGED scenario
           /\ Serve(r) \/ UNCHANGED <<row, next>>

LEMMA RequestStep ==
  ASSUME AllFaithful, WInv, NEW r \in requests, Reply(r) \/ ServeUnheard(r) \/ Lose(r)
  PROVE  WInv' /\ Ends(r)
<1>1. Sound(scenario, r)  BY DEF WInv
<1>2. requests' = requests \ {r} /\ UNCHANGED scenario /\ (Serve(r) \/ UNCHANGED <<row, next>>)
  BY DEF Reply, ServeUnheard, Lose, Fault
<1>3. RowOk(scenario, row') /\ next' \in Nat
  <2>1. CASE Serve(r)  BY <1>1, <2>1, ServeMeans DEF WInv
  <2>2. CASE UNCHANGED <<row, next>>  BY <2>2 DEF WInv
  <2> QED BY <1>2, <2>1, <2>2
<1>4. DOMAIN call' = Client /\ \A b \in Client : CallOk(scenario, call'[b])
  <2>1. CASE Reply(r)
    <3>1. call' = [call EXCEPT ![r.client] = None] /\ r.client \in Client
      BY <1>1, <2>1 DEF Reply, Sound
    <3> QED BY <3>1, NoWrite, CallKept
  <2>2. CASE ServeUnheard(r)  BY <1>1, <2>2, FailKept DEF ServeUnheard
  <2>3. CASE Lose(r)  BY <1>1, <2>3, FailKept DEF Lose
  <2> QED BY <2>1, <2>2, <2>3
<1>5. DOMAIN held' = Client /\ \A b \in Client : HeldOk(scenario, held'[b])
  <2>1. CASE Reply(r)
    <3>1. held' = [held EXCEPT ![r.client] = None] /\ r.client \in Client
      BY <1>1, <2>1 DEF Reply, Sound
    <3> QED BY <3>1, NoWrite, HeldKept
  <2>2. CASE ServeUnheard(r) \/ Lose(r)
    <3>1. held' = held  BY <2>2 DEF ServeUnheard, Lose, Fault
    <3> QED BY <3>1 DEF WInv
  <2> QED BY <2>1, <2>2
<1> QED BY <1>2, <1>3, <1>4, <1>5 DEF WInv, Ends

LEMMA TimesOutStep ==
  ASSUME WInv, NEW r \in requests, TimesOut(r)
  PROVE  WInv' /\ UNCHANGED <<scenario, row, next, requests>>
<1>1. Sound(scenario, r) /\ UNCHANGED <<scenario, row, next, requests, held>>
  BY DEF WInv, TimesOut, Fault
<1>2. DOMAIN call' = Client /\ \A b \in Client : CallOk(scenario, call'[b])
  BY <1>1, FailKept DEF TimesOut
<1> QED BY <1>1, <1>2 DEF WInv

\* Every step asks for a write, ends one, or leaves the row and the writes alone.
LEMMA RecordsStep ==
  ASSUME AllFaithful, WInv, [Next]_vars
  PROVE  WInv' /\ (Asks \/ (\E r : Ends(r)) \/ UNCHANGED <<scenario, row, next, requests>>)
<1>1. CASE \E c \in Client : Fetch(c) \/ Lookup(c)  BY <1>1, ReadStep
<1>2. CASE \E c \in Client : \/ DeleteRecord(c)
                             \/ \E v \in scenario.values :
                                  BulkUpsert(c, v) \/ BulkInsert(c, v) \/ CreateRecord(c, v)
                                  \/ UpdatePartial(c, v)
  BY <1>2, WriteStep
<1>3. CASE \E c \in Client : Repeat(c)  BY <1>3, RepeatStep
<1>4. CASE \E c \in Client : Leave(c)  BY <1>4, LeaveStep
<1>5. CASE \E r \in requests : Reply(r) \/ ServeUnheard(r) \/ Lose(r)  BY <1>5, RequestStep
<1>6. CASE \E r \in requests : TimesOut(r)  BY <1>6, TimesOutStep
<1>7. CASE UNCHANGED vars
  BY <1>7 DEF vars, WInv
<1> QED BY <1>1, <1>2, <1>3, <1>4, <1>5, <1>6, <1>7 DEF Next

LEMMA RecordsInvariant == ASSUME AllFaithful PROVE Spec => []WInv
<1>1. Init => WInv  BY RecordsStart
<1>2. WInv /\ [Next]_vars => WInv'  BY RecordsStep
<1> QED BY <1>1, <1>2, PTL DEF Spec

\* A typed write does to the row what the value of the record says: the fields it states
\* are read back as they were, the others keep what the row had or start with their
\* default, whoever else wrote in between, however often a request was sent or lost
\* (encode_field_push, __arcade_decode_from_map, props_diff, bulk_upsert_dtos,
\* update_record_partial).
THEOREM WritesMean == ASSUME AllFaithful PROVE Spec => WritesMeanTheirTypes
<1>1. Init => Rows!Init
  <2> SUFFICES ASSUME Init PROVE Rows!Init  OBVIOUS
  <2>1. TypedRow = None /\ {Write(r) : r \in requests} = {}
    BY DEF Init, TypedRow
  <2> QED BY <2>1, SharedTerms DEF Rows!Init
<1>2. ASSUME WInv, [Next]_vars PROVE [Rows!Next]_Rows!vars
  <2>1. Asks \/ (\E r : Ends(r)) \/ UNCHANGED <<scenario, row, next, requests>>
    BY <1>2, RecordsStep
  <2>2. TypedRow = TypedOf(dto, row) /\ TypedRow' = TypedOf(dto', row')
    BY DEF TypedRow, TypedOf, Decoded
  <2>3. scenario' = scenario => dto' = dto  BY DEF dto
  <2>4. {Write(r) : r \in requests} = Asked(requests) /\ {Write(r) : r \in requests}' = Asked(requests')
    BY DEF Asked, Write
  <2>5. CASE Asks
    <3>1. PICK r : requests' = requests \cup {r}  BY <2>5 DEF Asks
    <3>2. Asked(requests') = Asked(requests) \cup {Write(r)}  BY <3>1, AskedIs
    <3>3. TypedRow' = TypedRow /\ dto' = dto /\ next' = next  BY <2>2, <2>3, <2>5 DEF Asks
    <3>4. Rows!Ask(Write(r)) /\ Write(r) \in Asked(requests')
      BY <2>4, <3>2, <3>3 DEF Rows!Ask
    <3> QED BY <2>4, <3>4 DEF Rows!Next
  <2>6. ASSUME NEW r, Ends(r) PROVE Rows!Next
    <3>1. r \in requests /\ requests' = requests \ {r} /\ scenario' = scenario /\ dto' = dto
      BY <2>3, <2>6 DEF Ends
    <3>2. Write(r) \in Asked(requests) /\ Asked(requests') \in {Asked(requests), Asked(requests) \ {Write(r)}}
      BY <3>1, AskedIs
    <3>3. Rows!Gone(Write(r))  BY <2>4, <3>1, <3>2 DEF Rows!Gone
    <3>4. CASE Serve(r)
      <4>1. /\ TypedRow' = Rows!After(Write(r), TypedRow)
            /\ next' = IF Rows!Makes(Write(r)) THEN next + 1 ELSE next
        BY <1>2, <2>2, <3>1, <3>4, ServeMeans DEF WInv
      <4>2. Rows!Do(Write(r))  BY <2>4, <3>2, <3>3, <4>1 DEF Rows!Do
      <4> QED BY <2>4, <3>2, <4>2 DEF Rows!Next
    <3>5. CASE UNCHANGED <<row, next>>
      <4>1. TypedRow' = TypedRow  BY <2>2, <3>1, <3>5
      <4>2. Rows!Drop(Write(r))  BY <2>4, <3>2, <3>3, <3>5, <4>1 DEF Rows!Drop
      <4> QED BY <2>4, <3>2, <4>2 DEF Rows!Next
    <3> QED BY <2>6, <3>4, <3>5 DEF Ends
  <2>7. CASE UNCHANGED <<scenario, row, next, requests>>
    BY <2>2, <2>3, <2>4, <2>7 DEF Rows!vars
  <2> QED BY <2>1, <2>5, <2>6, <2>7
<1>3. Spec => []WInv  BY RecordsInvariant
<1> QED BY <1>1, <1>2, <1>3, PTL DEF Spec, WritesMeanTheirTypes, Rows!Spec

\* Two readers of one column that both accept its number read the same number, whatever
\* the clients wrote (the FromValue arms of the integers and of Decimal).
THEOREM ColumnsAreReadAlike == Spec => []ReadersAgree
<1>1. ReadersAgree  BY NumbersAreReadAlike DEF ReadersAgree
<1> QED BY <1>1, PTL

\* For a field that is a column, the derive's own comparison is that it is written and
\* is another Rust value.
LEMMA ReportedLeaf ==
  ASSUME NEW f, NEW x, NEW y, ~f.flatten
  PROVE  ReportsChange(f, x, y) <=> Pushed(f, y) /\ ~SameField(f, x, y)
<1>1. FieldDefault(f) = IF f.opt THEN None ELSE DefaultOf(f.ty)  BY DEF FieldDefault
<1> QED BY <1>1 DEF ReportsChange, Pushed

\* What the comparison of records takes: a Rust value is equal to itself, and the wire
\* form of a flattened record is that of a record, whose name no column has and which
\* is never left out.
Comparable(d) ==
  /\ \A ty, x : SamePart(ty, x, x)
  /\ \A f \in Fields(d) : f.flatten =>
       /\ ~f.skipIfDefault
       /\ \A x : EncodePart(f.ty, x) = Encode(f.ty, x)
       /\ \A g \in Fields(d) : ~g.flatten => EncodeName(g) # EncodeName(f)

LEMMA SameAsItself ==
  ASSUME NEW d, Comparable(d), NEW f, NEW x
  PROVE  SameField(f, x, x)
  BY DEF Comparable, SameField

\* A column is reported for its own field and no other.
LEMMA NamedIs ==
  ASSUME NEW d, NEW rids, Regular(d, rids), Comparable(d), NEW u, NEW v,
         NEW f \in Fields(d), ~f.flatten, ~f.skipEncode
  PROVE  EncodeName(f) \in ChangedWires(d, u, v) <=> ReportsChange(f, u[f.id], v[f.id])
<1>1. ASSUME NEW g \in Fields(d), ReportsChange(g, u[g.id], v[g.id]), EncodeName(g) = EncodeName(f)
      PROVE  g = f
  <2>1. ~g.flatten  BY <1>1 DEF Comparable
  <2>2. <<f>> \in Leaves(d) /\ <<g>> \in Leaves(d)  BY <2>1, LeavesAre
  <2>3. LeafOf(<<f>>) = f /\ LeafOf(<<g>>) = g  BY LeafValues
  <2>4. EncodeName(f) \in Names(f) /\ EncodeName(f) \in Names(g)
    BY <1>1 DEF ReportsChange, Names
  <2>5. <<f>> = <<g>>
    <3> DEFINE p == <<f>>
               q == <<g>>
    <3>1. EncodeName(f) \in Names(LeafOf(p)) /\ EncodeName(f) \in Names(LeafOf(q))
      BY <2>3, <2>4
    <3> HIDE DEF p, q
    <3> QED BY <2>2, <3>1, LeavesApart DEF p, q
  <2> QED BY <2>5
<1> QED BY <1>1 DEF ChangedWires

\* A column of a leaf is sent if the leaf is written and changed, or is sent again.
LEMMA SentIs ==
  ASSUME NEW d, NEW rids, Regular(d, rids), NEW u, KnownOk(d, u), NEW v, KnownOk(d, v),
         NEW again, NEW p \in Leaves(d), ~LeafOf(p).skipEncode
  PROVE  LeafName(p) \in DOMAIN PropsDiff(d, u, v, again)
           <=> PushedLeaf(v, p) /\ (At(u, p) # At(v, p) \/ LeafName(p) \in again)
<1>1. LeafName(p) \in DOMAIN Props(d, v) <=> PushedLeaf(v, p)
  <2>1. ASSUME NEW q \in Leaves(d), PushedLeaf(v, q), LeafName(p) = LeafName(q) PROVE q = p
    <3>1. LeafName(p) \in Names(LeafOf(q)) /\ LeafName(p) \in Names(LeafOf(p))
      BY <2>1, PushedName DEF PushedLeaf, LeafName, Names
    <3> QED BY <3>1, LeavesApart
  <2> QED BY <2>1, PropsSay
<1>2. PushedLeaf(v, p) => (LeafName(p) \in Changes(d, u, v) <=> At(u, p) # At(v, p))
  BY ChangedLeaf DEF KnownOk
<1>3. Changes(d, u, v) \subseteq DOMAIN Props(d, v)  BY DEF Changes
<1>4. DOMAIN PropsDiff(d, u, v, again)
        = DOMAIN Props(d, v) \cap (Changes(d, u, v) \cup (again \cap DOMAIN Props(d, v)))
  BY DiffIs, <1>3 DEF Restrict
<1> QED BY <1>1, <1>2, <1>3, <1>4

LEMMA StructWire ==
  ASSUME NEW ty, NEW x, ty.t = "struct"
  PROVE  Encode(ty, x) = <<"map", Props(ty, x)>>
<1>1. "struct" \notin ScalarType  BY DEF ScalarType, IntType, AsInt32, AsInt64, FloatType
<1> QED BY <1>1 DEF Encode

\* The columns of a flattened field are those of its own wire form.
LEMMA FlatWires ==
  ASSUME NEW d, NEW rids, Regular(d, rids), Comparable(d), NEW f \in Fields(d), f.flatten,
         NEW x, NEW y, EncodePart(f.ty, x) = EncodePart(f.ty, y)
  PROVE  PropsOf(f, x) = PropsOf(f, y)
<1> DEFINE T == f.ty
<1>1. /\ Distinct(T) /\ T.t = "struct" /\ ~f.skipEncode /\ ~f.opt
      /\ \A g \in Fields(T) : ~g.flatten
  BY RegularFields DEF RegularField, Distinct
<1>2. \A i \in DOMAIN T.fields : T.fields[i] \in Fields(T)  BY <1>1, FieldsOf
<1>3. ASSUME NEW w PROVE EncodePart(T, w) = <<"map", PropsOf(f, w)>>
  <2>1. \A i \in DOMAIN T.fields : PropsOf(T.fields[i], w[T.fields[i].id])
                                     = ColumnOf(T.fields[i], w[T.fields[i].id])
    BY <1>1, <1>2 DEF PropsOf
  <2>2. Props(T, w) = Columns(T.fields, w)  BY <1>1, <2>1 DEF Props, Columns
  <2>3. PropsOf(f, w) = Columns(T.fields, w)
    BY <1>1 DEF PropsOf, Pushed, Held, FlatProps
  <2>4. Encode(T, w) = <<"map", Props(T, w)>>  BY <1>1, StructWire
  <2> QED BY <2>2, <2>3, <2>4 DEF Comparable
<1> QED BY <1>3

\* A flattened field is reported if one of its columns is sent because it changed.
LEMMA FlatReported ==
  ASSUME NEW d, NEW rids, Regular(d, rids), Comparable(d), NEW u, KnownOk(d, u), NEW v, KnownOk(d, v),
         NEW again, NEW f \in Fields(d), f.flatten, NEW k \in DOMAIN PropsOf(f, v[f.id]),
         k \in DOMAIN PropsDiff(d, u, v, again), k \notin again
  PROVE  EncodeName(f) \in ChangedWires(d, u, v)
<1>1. PICK p \in Leaves(d) : p[1] = f /\ PushedLeaf(v, p) /\ k = LeafName(p)  BY FieldSays
<1>2. ~LeafOf(p).skipEncode  BY <1>1 DEF PushedLeaf, Pushed
<1>3. At(u, p) # At(v, p)  BY <1>1, <1>2, SentIs
<1>4. ASSUME EncodePart(f.ty, u[f.id]) = EncodePart(f.ty, v[f.id]) PROVE FALSE
  <2>1. PropsOf(f, u[f.id]) = PropsOf(f, v[f.id])  BY <1>4, FlatWires
  <2>2. \E q \in Leaves(d) : q[1] = f /\ PushedLeaf(u, q) /\ k = LeafName(q)
    <3>1. k \in DOMAIN PropsOf(f, u[f.id])  BY <2>1
    <3> QED BY <3>1, FieldSays
  <2> PICK q \in Leaves(d) : q[1] = f /\ PushedLeaf(u, q) /\ k = LeafName(q)  BY <2>2
  <2>3. q = p
    <3>1. k \in Names(LeafOf(q)) /\ k \in Names(LeafOf(p))
      BY <1>1, PushedName DEF PushedLeaf, LeafName
    <3> QED BY <3>1, LeavesApart
  <2>4. PropsOf(f, v[f.id])[k] = LeafWire(v, p) /\ PropsOf(f, u[f.id])[k] = LeafWire(u, p)
    BY <1>1, <2>3, FieldSays
  <2>5. ComesBack(LeafOf(p), At(u, p)) /\ ComesBack(LeafOf(p), At(v, p))  BY DEF KnownOk
  <2>6. At(u, p) = At(v, p)
    BY <1>1, <2>1, <2>3, <2>4, <2>5, WiresTellApart DEF PushedLeaf, LeafWire
  <2> QED BY <1>3, <2>6
<1>5. ReportsChange(f, u[f.id], v[f.id])
  <2>1. ~f.skipEncode /\ ~f.skipIfDefault  BY RegularFields DEF Comparable
  <2> QED BY <1>4, <2>1 DEF ReportsChange
<1> QED BY <1>5 DEF ChangedWires

\* changed_wires names a column exactly when props_diff writes it and its Rust value
\* changed, and a flattened field when one of its columns is written because it changed,
\* for any snapshot a client read and any value of the scenario (diff_cond, props_diff).
THEOREM ReportsAreWritten ==
  ASSUME AllFaithful, \A s \in Scenarios : Comparable(s.dto)
  PROVE  Spec => []ReportsWhatItWrites
<1>1. WInv => ReportsWhatItWrites
  <2> SUFFICES ASSUME WInv, NEW c \in Client, held[c] # None,
                      NEW v \in scenario.values, NEW again \in SUBSET Reordered(dto, v),
                      NEW f \in Fields(dto), ~f.skipEncode
               PROVE  LET u == held[c][1].value
                          written == DOMAIN PropsDiff(dto, u, v, again)
                          named == ChangedWires(dto, u, v)
                      IN IF f.flatten
                         THEN DOMAIN PropsOf(f, v[f.id]) \cap (written \ again) # {}
                                => EncodeName(f) \in named
                         ELSE EncodeName(f) \in named
                                <=> EncodeName(f) \in written /\ ~SameField(f, u[f.id], v[f.id])
    BY DEF ReportsWhatItWrites
  <2>1. PICK n, u : held[c] = Some([rid |-> n, value |-> u]) /\ KnownOk(scenario.dto, u)
    BY DEF WInv, HeldOk
  <2>2. held[c][1].value = u  BY <2>1, Options
  <2>3. Regular(dto, Nat) /\ KnownOk(dto, u) /\ KnownOk(dto, v)
    BY <2>1, ScenarioFacts DEF WInv, dto
  <2>4. Comparable(dto)  BY DEF WInv, dto
  <2>5. CASE f.flatten
    BY <2>2, <2>3, <2>4, <2>5, FlatReported
  <2>6. CASE ~f.flatten
    <3>1. <<f>> \in Leaves(dto)  BY <2>6, LeavesAre
    <3>2. LeafOf(<<f>>) = f /\ At(u, <<f>>) = u[f.id] /\ At(v, <<f>>) = v[f.id]  BY LeafValues
    <3>3. LeafName(<<f>>) = EncodeName(f) /\ (PushedLeaf(v, <<f>>) <=> Pushed(f, v[f.id]))
      BY <3>2 DEF LeafName, PushedLeaf
    <3>4. EncodeName(f) \in DOMAIN PropsDiff(dto, u, v, again)
            <=> Pushed(f, v[f.id]) /\ (u[f.id] # v[f.id] \/ EncodeName(f) \in again)
      <4> DEFINE p == <<f>>
      <4>1. ~LeafOf(p).skipEncode  BY <3>2
      <4> HIDE DEF p
      <4>2. LeafName(p) \in DOMAIN PropsDiff(dto, u, v, again)
              <=> PushedLeaf(v, p) /\ (At(u, p) # At(v, p) \/ LeafName(p) \in again)
        BY <2>3, <3>1, <4>1, SentIs DEF p
      <4> QED BY <3>2, <3>3, <4>2 DEF p
    <3>5. u[f.id] = v[f.id] => SameField(f, u[f.id], v[f.id])  BY <2>4, SameAsItself
    <3>6. EncodeName(f) \in ChangedWires(dto, u, v)
            <=> Pushed(f, v[f.id]) /\ ~SameField(f, u[f.id], v[f.id])
      BY <2>3, <2>4, <2>6, NamedIs, ReportedLeaf
    <3> QED BY <2>2, <2>6, <3>4, <3>5, <3>6
  <2> QED BY <2>5, <2>6
<1> QED BY <1>1, RecordsInvariant, PTL

\* One layer of the conversion brings a value back if the layers below bring back what
\* the value nests.
Back(ty, v) == DecodePart(ty, EncodePart(ty, v)) = Ok(v)

\* What a reader makes of a field that it does not read, or that was not written.
Starts(f, x) == f.skipDecode \/ ~Pushed(f, x) => x = FieldDefault(f)

\* The parts of a value come back: its elements, its fields, its variant.
ScalarBack(t, v) == IsValue(t, v) /\ (t = "u64" => v \in Signed(Half64))
ElementsBack(ty, v) == v = [i \in DOMAIN v |-> v[i]] /\ \A i \in DOMAIN v : Back(ty, v[i])
JsonBack(j) ==
  \/ j = <<"null">>
  \/ \E x : j \in {<<"bool", x>>, <<"float", x>>, <<"str", x>>}
  \/ \E n \in Signed(Half64) : j = <<"num", n>>
  \/ \E x : j \in {<<"arr", x>>, <<"obj", x>>} /\ ElementsBack(Json, x)
RecordBack(d, v) ==
  /\ Regular(d, Nat) /\ \A p \in Leaves(d) : ~RidField(LeafOf(p))
  /\ v = [id \in Ids(d) |-> LET f == FieldOf(d, id)
                            IN IF f.flatten THEN [g \in Ids(f.ty) |-> v[id][g]] ELSE v[id]]
  /\ \A p \in Leaves(d) : ComesBack(LeafOf(p), At(v, p)) /\ Starts(LeafOf(p), At(v, p))

\* A variant reads its fields plainly, and beside its tag.
VariantBack(fields, tag, u) ==
  LET d == Struct(fields)
  IN /\ fields # << >> /\ Distinct(d) /\ ApartNames(d)
     /\ u = [id \in Ids(d) |-> u[id]]
     /\ \A f \in Fields(d) : /\ RegularField(f) /\ f.ty.t # "bytes" /\ tag \notin Names(f)
                             /\ ComesBack(f, u[f.id]) /\ Starts(f, u[f.id])
EnumBack(ty, v) ==
  \/ ty.tag = NoTag /\ \E a \in DOMAIN ty.variants : ty.variants[a] = << >> /\ v = <<a>>
  \/ ty.tag # NoTag /\ \E a \in DOMAIN ty.variants : \E u :
                          v = <<a, u>> /\ VariantBack(ty.variants[a], ty.tag, u)

Nested == {"list", "set", "map", "json", "struct", "enum"}
PartsBack(ty, v) ==
  CASE ty.t \in ScalarType -> ScalarBack(ty.t, v)
    [] ty.t \in {"list", "map"} -> ElementsBack(ty.of, v)
    [] ty.t = "set" -> IsFiniteSet(v) /\ \A x \in v : Back(ty.of, x)
    [] ty.t = "json" -> JsonBack(v)
    [] ty.t = "struct" -> RecordBack(ty, v)
    [] ty.t = "enum" -> EnumBack(ty, v)

\* Which arm of the conversion a type takes.
LEMMA Arms ==
  ASSUME NEW ty, NEW v, NEW w
  PROVE  /\ ty.t \in ScalarType => /\ Encode(ty, v) = EncodeScalar(ty.t, v)
                                   /\ Decode(ty, w) = DecodeScalar(ty.t, w)
                                   /\ ty.t \notin Nested
         /\ ty.t = "list" => /\ Encode(ty, v) = <<"list", [i \in DOMAIN v |-> EncodePart(ty.of, v[i])]>>
                             /\ Decode(ty, w) = DecodeList(ty, w)
         /\ ty.t = "set" => /\ Encode(ty, v) = <<"list", LET s == SetToSeq(v)
                                                         IN [i \in DOMAIN s |-> EncodePart(ty.of, s[i])]>>
                            /\ Decode(ty, w) = LET r == DecodeList(ty, w)
                                               IN IF IsOk(r) THEN Ok(ToSet(r[2])) ELSE Err
         /\ ty.t = "map" => /\ Encode(ty, v) = <<"map", [k \in DOMAIN v |-> EncodePart(ty.of, v[k])]>>
                            /\ Decode(ty, w) = IF Kind(w) # "map" THEN Err
                                 ELSE AllOk([k \in DOMAIN w[2] |-> DecodePart(ty.of, w[2][k])])
         /\ ty.t = "json" => Encode(ty, v) = JsonToGrpc(v) /\ Decode(ty, w) = Ok(GrpcToJson(w))
         /\ ty.t = "struct" => /\ Encode(ty, v) = <<"map", Props(ty, v)>>
                               /\ Kind(w) = "map" => Decode(ty, w) = FromMap(ty, w[2], {}, NoMeta)
         /\ ty.t = "enum" => /\ Encode(ty, v) = EncodeEnum(ty, v)
                             /\ ty.tag = NoTag => Decode(ty, w) = DecodeUnit(ty, w)
                             /\ ty.tag # NoTag /\ Kind(w) = "map" =>
                                  Decode(ty, w) = FromMap(ty, w[2], {}, NoMeta)
<1>1. ScalarType \cap (Nested \cup {"bytes"}) = {}
  BY DEF ScalarType, IntType, AsInt32, AsInt64, FloatType, Nested
<1>2. CASE ty.t \in ScalarType
  <2>1. ty.t \notin Nested \cup {"bytes"}  BY <1>1, <1>2
  <2>2. Encode(ty, v) = EncodeScalar(ty.t, v)  BY <1>2, <2>1 DEF Encode, Nested
  <2>3. Decode(ty, w) = DecodeScalar(ty.t, w)  BY <1>2, <2>1 DEF Decode, Nested
  <2> QED BY <2>1, <2>2, <2>3 DEF Nested
<1>3. CASE ty.t \in Nested
  <2>1. ty.t \notin ScalarType  BY <1>1, <1>3
  <2>2. CASE ty.t = "list"  BY <2>1, <2>2 DEF Encode, Decode
  <2>3. CASE ty.t = "set"  BY <2>1, <2>3 DEF Encode, Decode
  <2>4. CASE ty.t = "map"  BY <2>1, <2>4 DEF Encode, Decode
  <2>5. CASE ty.t = "json"  BY <2>1, <2>5 DEF Encode, Decode
  <2>6. CASE ty.t = "struct"  BY <2>1, <2>6 DEF Encode, Decode
  <2>7. CASE ty.t = "enum"  BY <2>1, <2>7 DEF Encode, Decode
  <2> QED BY <1>3, <2>1, <2>2, <2>3, <2>4, <2>5, <2>6, <2>7 DEF Nested
<1> QED BY <1>2, <1>3 DEF Nested

\* Elements that come back, one by one.
LEMMA ElementsRead ==
  ASSUME NEW ty, NEW v, ElementsBack(ty, v), NEW w,
         w = [i \in DOMAIN v |-> EncodePart(ty, v[i])]
  PROVE  AllOk([i \in DOMAIN w |-> DecodePart(ty, w[i])]) = Ok(v)
<1> DEFINE rs == [i \in DOMAIN w |-> DecodePart(ty, w[i])]
<1>1. DOMAIN rs = DOMAIN v /\ \A i \in DOMAIN v : rs[i] = Ok(v[i])
  BY DEF ElementsBack, Back
<1> HIDE DEF rs
<1>2. \A i \in DOMAIN rs : IsOk(rs[i]) /\ rs[i][2] = v[i]
  BY <1>1, Verdicts DEF IsOk
<1>3. AllOk(rs) = Ok([i \in DOMAIN rs |-> rs[i][2]])  BY <1>2, AllAreOk
<1>4. [i \in DOMAIN rs |-> rs[i][2]] = [i \in DOMAIN v |-> v[i]]  BY <1>1, <1>2
<1> QED BY <1>3, <1>4 DEF ElementsBack, rs

\* The elements of a finite set in some order.
LEMMA SetInOrder ==
  ASSUME NEW S, IsFiniteSet(S)
  PROVE  LET s == SetToSeq(S) IN s = [i \in DOMAIN s |-> s[i]] /\ ToSet(s) = S
<1> DEFINE n == Cardinality(S)
           s == SetToSeq(S)
<1>1. n \in Nat /\ ExistsBijection(1..n, S)  BY FS_CardinalityType
<1>2. \E f \in [1..n -> S] : IsInjective(f)
  BY <1>1 DEF ExistsBijection, Bijection, Injection
<1>3. s \in [1..n -> S] /\ IsInjective(s)  BY <1>2 DEF SetToSeq
<1>4. s \in Injection(1..n, S)  BY <1>3 DEF Injection
<1>5. IsFiniteSet(1..n) /\ Cardinality(1..n) = n  BY <1>1, FS_Interval
<1> HIDE DEF s
<1>6. s \in Surjection(1..n, S)  BY <1>4, <1>5, FS_Injection
<1>7. \A x \in S : \E i \in 1..n : s[i] = x  BY <1>6 DEF Surjection
<1> QED BY <1>3, <1>7 DEF ToSet, s

\* What a record does not know of itself makes no difference to columns of its own.
LEMMA MetaAside ==
  ASSUME NEW d, Regular(d, Nat), \A p \in Leaves(d) : ~RidField(LeafOf(p)), NEW wires, NEW n
  PROVE  FromMap(d, wires, {}, NoMeta) = FromMap(d, wires, {}, Meta(n))
<1> DEFINE rs(m) == [f \in Fields(d) |-> StructField(d, f, wires, {}, m)]
<1>1. d.t = "struct"  BY FieldsOf DEF Regular
<1>2. \A m : FromMap(d, wires, {}, m) = Assembled(d, rs(m))  BY <1>1 DEF FromMap
<1>3. ASSUME NEW f \in Fields(d)
      PROVE  StructField(d, f, wires, {}, NoMeta) = StructField(d, f, wires, {}, Meta(n))
  <2>1. CASE f.flatten
    BY <2>1, RegularFields DEF StructField
  <2>2. CASE ~f.flatten
    <3>1. <<f>> \in Leaves(d) /\ LeafOf(<<f>>) = f  BY <2>2, LeavesAre, LeafValues
    <3>2. ~RidField(f)  BY <3>1
    <3>3. f.skipDecode \/ DecodeName(f) \notin Synthetic \cup {}
      BY <2>2, <3>2, RegularFields, NameRead
    <3> QED BY <2>2, <3>3, PlainRead DEF StructField
  <2> QED BY <2>1, <2>2
<1>4. rs(NoMeta) = rs(Meta(n))  BY <1>3
<1> QED BY <1>2, <1>4

\* A record whose leaves come back comes back.
LEMMA RecordsComeBack ==
  ASSUME NEW d, NEW v, RecordBack(d, v)
  PROVE  FromMap(d, Props(d, v), {}, NoMeta) = Ok(v)
<1> DEFINE wires == Props(d, v)
           S == Shown(d, wires, 0)
<1>1. Regular(d, Nat) /\ \A p \in Leaves(d) : ~RidField(LeafOf(p))  BY DEF RecordBack
<1>2. ASSUME NEW p \in Leaves(d) PROVE Reads(LeafOf(p), wires, 0) = Ok(At(v, p))
  <2> DEFINE f == LeafOf(p)
             x == At(v, p)
  <2>1. /\ ComesBack(f, x) /\ Starts(f, x) /\ ~RidField(f) /\ RegularField(f)
    BY <1>1, RegularLeaf DEF RecordBack
  <2>2. Reads(f, wires, 0) = Ok(Rows!Kept(f, None, x, BlankLeaf(f, 0), {}))
    BY <1>1, <2>1, LeafBorn DEF Shows
  <2>3. Rows!Kept(f, None, x, BlankLeaf(f, 0), {}) = x
    <3>1. Rows!Kept(f, None, x, BlankLeaf(f, 0), {}) = IF f.skipDecode THEN FieldDefault(f)
                                                   ELSE IF ~Pushed(f, x) THEN FieldDefault(f) ELSE x
      BY <2>1, KeptIs, Options DEF BlankLeaf
    <3> QED BY <2>1, <3>1 DEF Starts
  <2> QED BY <2>2, <2>3
<1>3. FromMap(d, wires, {}, NoMeta) = Ok(S)
  BY <1>1, <1>2, MetaAside, RecordRead
<1>4. \A p \in Leaves(d) : At(S, p) = At(v, p)
  BY <1>1, <1>2, ShownAt, Verdicts
<1>5. ASSUME NEW id \in Ids(d)
      PROVE  S[id] = LET f == FieldOf(d, id)
                     IN IF f.flatten THEN [g \in Ids(f.ty) |-> v[id][g]] ELSE v[id]
  <2> DEFINE f == FieldOf(d, id)
  <2>1. Distinct(d) /\ f \in Fields(d) /\ f.id = id  BY <1>1, FieldsOf DEF Regular
  <2>2. CASE ~f.flatten
    <3> DEFINE p == <<f>>
    <3>1. p \in Leaves(d) /\ At(S, p) = S[id] /\ At(v, p) = v[id]
      BY <2>1, <2>2, LeavesAre, LeafValues
    <3> HIDE DEF p
    <3> QED BY <2>2, <3>1, <1>4
  <2>3. CASE f.flatten
    <3>1. Distinct(f.ty)  BY <1>1, <2>1, <2>3, RegularFields
    <3>2. ASSUME NEW g \in Ids(f.ty) PROVE S[id][g] = v[id][g]
      <4> DEFINE h == FieldOf(f.ty, g)
                 p == <<f, h>>
      <4>1. h \in Fields(f.ty) /\ h.id = g  BY <3>1, FieldsOf
      <4>a. p \in Leaves(d)  BY <2>1, <2>3, <4>1, LeavesAre
      <4>b. At(S, p) = S[f.id][h.id] /\ At(v, p) = v[f.id][h.id]
        <5> HIDE DEF f, h, S
        <5> QED BY LeafValues
      <4>2. p \in Leaves(d) /\ At(S, p) = S[id][g] /\ At(v, p) = v[id][g]
        BY <2>1, <4>1, <4>a, <4>b
      <4> HIDE DEF p
      <4> QED BY <4>2, <1>4
    <3>3. S[id] = [g \in Ids(f.ty) |-> S[id][g]]  BY <2>3 DEF Shown
    <3> HIDE DEF S
    <3>4. [g \in Ids(f.ty) |-> S[id][g]] = [g \in Ids(f.ty) |-> v[id][g]]  BY <3>2
    <3> QED BY <2>3, <3>3, <3>4
  <2> HIDE DEF S
  <2> QED BY <2>2, <2>3
<1>6. S = [id \in Ids(d) |-> S[id]]  BY DEF Shown
<1> HIDE DEF S
<1>7. S = v  BY <1>5, <1>6 DEF RecordBack
<1> QED BY <1>3, <1>7

\* A field of a variant is read from the column it was written to.
LEMMA VariantsComeBack ==
  ASSUME NEW ty, ty.t = "enum", ty.tag # NoTag, NEW a \in DOMAIN ty.variants, NEW u,
         VariantBack(ty.variants[a], ty.tag, u)
  PROVE  FromTagged(ty, VariantProps(ty, <<a, u>>), {}) = Ok(<<a, u>>)
<1> DEFINE fields == ty.variants[a]
           d == Struct(fields)
           wires == Columns(fields, u)
           props == VariantProps(ty, <<a, u>>)
           tagged == <<"string", <<"text", a>>>>
           rs == [f \in Fields(d) |-> VariantField(f, props, {})]
<1>1. /\ fields # << >> /\ Distinct(d) /\ ApartNames(d) /\ d.fields = fields
      /\ u = [id \in Ids(d) |-> u[id]]
  BY DEF VariantBack, Struct
<1>2. ASSUME NEW f \in Fields(d)
      PROVE  /\ RegularField(f) /\ f.ty.t # "bytes" /\ ty.tag \notin Names(f)
             /\ ComesBack(f, u[f.id]) /\ Starts(f, u[f.id])
  BY DEF VariantBack
<1> HIDE DEF d
<1>3. /\ DOMAIN wires = {EncodeName(f) : f \in {f \in Fields(d) : Pushed(f, u[f.id])}}
      /\ \A f \in Fields(d) : Pushed(f, u[f.id]) =>
           wires[EncodeName(f)] = EncodePart(f.ty, Held(f, u[f.id]))
  <2>1. wires = Columns(d.fields, u)  BY <1>1
  <2> HIDE DEF wires
  <2>2. /\ DOMAIN Columns(d.fields, u) = {EncodeName(f) : f \in {f \in Fields(d) : Pushed(f, u[f.id])}}
        /\ \A f \in Fields(d) : Pushed(f, u[f.id]) =>
             Columns(d.fields, u)[EncodeName(f)] = EncodePart(f.ty, Held(f, u[f.id]))
    <3> HIDE DEF fields
    <3> QED BY ONLY <1>1, ColumnsSay
  <2> QED BY <2>1, <2>2
<1>4. ty.tag \notin DOMAIN wires  BY <1>2, <1>3, PushedName
<1>5. props = Later(Single(ty.tag, tagged), wires)
  <2>1. <<a, u>>[1] = a /\ <<a, u>>[2] = u  OBVIOUS
  <2> QED BY <1>1, <2>1 DEF VariantProps, IsUnit
<1> HIDE DEF wires
<1>6. /\ DOMAIN props = {ty.tag} \cup DOMAIN wires /\ props[ty.tag] = tagged
      /\ \A k \in DOMAIN wires : props[k] = wires[k]
  BY <1>4, <1>5 DEF Later, Single
<1> HIDE DEF props
<1>7. ASSUME NEW f \in Fields(d) PROVE VariantField(f, props, {}) = Ok(u[f.id])
  <2> DEFINE x == u[f.id]
             k == DecodeName(f)
  <2>0. RegularField(f) /\ f.ty.t # "bytes" /\ ComesBack(f, x) /\ Starts(f, x)  BY <1>2
  <2>1. CASE f.skipDecode
    <3>1. x = FieldDefault(f)  BY <2>0, <2>1 DEF Starts
    <3> QED BY <2>1, <3>1 DEF VariantField
  <2>2. CASE ~f.skipDecode /\ Pushed(f, x)
    <3>1. k = EncodeName(f)  BY <2>0, <2>2 DEF RegularField, Pushed
    <3>2. k \in DOMAIN props /\ props[k] = EncodePart(f.ty, Held(f, x))
      BY <1>3, <1>6, <2>2, <3>1
    <3>3. VariantField(f, props, {}) = Present(f, props[k])
      BY <2>0, <2>2, <3>2 DEF VariantField, Present, Visible
    <3> QED BY <2>0, <2>2, <3>2, <3>3 DEF ComesBack
  <2>3. CASE ~f.skipDecode /\ ~Pushed(f, x)
    <3>1. k \in Names(f) /\ k # ty.tag  BY <1>2, <2>3, NameRead
    <3>2. ASSUME k \in DOMAIN props PROVE FALSE
      <4>1. PICK g \in Fields(d) : Pushed(g, u[g.id]) /\ k = EncodeName(g)
        BY <1>3, <1>6, <3>1, <3>2
      <4>2. k \in Names(g)  BY <4>1, PushedName
      <4>3. f = g  BY <1>1, <3>1, <4>2 DEF ApartNames
      <4> QED BY <2>3, <4>1, <4>3
    <3>3. f.opt \/ f.default  BY <2>0, <2>3 DEF Pushed, RegularField
    <3>4. x = FieldDefault(f)  BY <2>0, <2>3 DEF Starts
    <3> QED BY <2>3, <3>2, <3>3, <3>4 DEF VariantField, Visible, Missing
  <2> QED BY <2>1, <2>2, <2>3
<1>8. \A f \in Fields(d) : IsOk(rs[f]) /\ rs[f][2] = u[f.id]
  BY <1>7, Verdicts DEF IsOk
<1>9. Assembled(d, rs) = Ok([id \in Ids(d) |-> rs[FieldOf(d, id)][2]])  BY <1>1, <1>8, AllAreRead
<1>10. [id \in Ids(d) |-> rs[FieldOf(d, id)][2]] = [id \in Ids(d) |-> u[id]]
  <2>1. \A id \in Ids(d) : FieldOf(d, id) \in Fields(d) /\ FieldOf(d, id).id = id
    BY <1>1, FieldsOf
  <2> QED BY <1>8, <2>1
<1>11. Assembled(d, rs) = Ok(u)  BY <1>1, <1>9, <1>10
<1>12. Kind(tagged) = "string" /\ tagged[2][1] = "text" /\ tagged[2][2] = a  BY DEF Kind
<1>13. Kind(tagged) = "string" /\ tagged[2][1] = "text" /\ tagged[2][2] \in DOMAIN ty.variants
  BY <1>12
<1>14. d = Struct(ty.variants[tagged[2][2]])  BY <1>12 DEF d
<1>15. ty.tag \in Visible(props, {})  BY <1>6 DEF Visible
<1>16. ~IsUnit(ty, tagged[2][2])  BY <1>1, <1>12 DEF IsUnit
<1> HIDE DEF tagged
<1>17. FromTagged(ty, props, {}) = IF IsOk(Assembled(d, rs)) THEN Ok(<<tagged[2][2], Assembled(d, rs)[2]>>)
                                ELSE Err
  BY <1>6, <1>13, <1>14, <1>15, <1>16 DEF FromTagged
<1> QED BY <1>11, <1>12, <1>17, Verdicts DEF IsOk, props

\* What the bridge makes of a wire value of the kinds that JSON is sent as.
LEMMA BridgeArms ==
  ASSUME NEW w
  PROVE  /\ Kind(w) = "bool" => GrpcToJson(w) = <<"bool", w[2]>>
         /\ Kind(w) \in {"int32", "int64"} => GrpcToJson(w) = <<"num", w[2]>>
         /\ Kind(w) = "double" => GrpcToJson(w) = <<"float", w[2]>>
         /\ Kind(w) = "string" => GrpcToJson(w) = <<"str", w[2]>>
         /\ Kind(w) = "list" => GrpcToJson(w) = <<"arr", [i \in DOMAIN w[2] |-> JsonPart(w[2][i])]>>
         /\ Kind(w) = "map" => GrpcToJson(w) = <<"obj", [k \in DOMAIN w[2] |-> JsonPart(w[2][k])]>>
<1>1. Kind(w) = "bool" => GrpcToJson(w) = <<"bool", w[2]>>  BY DEF GrpcToJson
<1>2. Kind(w) \in {"int32", "int64"} => GrpcToJson(w) = <<"num", w[2]>>  BY DEF GrpcToJson
<1>3. Kind(w) = "double" => GrpcToJson(w) = <<"float", w[2]>>  BY DEF GrpcToJson
<1>4. Kind(w) = "string" => GrpcToJson(w) = <<"str", w[2]>>  BY DEF GrpcToJson
<1>5. Kind(w) = "list" => GrpcToJson(w) = <<"arr", [i \in DOMAIN w[2] |-> JsonPart(w[2][i])]>>
  BY DEF GrpcToJson
<1>6. Kind(w) = "map" => GrpcToJson(w) = <<"obj", [k \in DOMAIN w[2] |-> JsonPart(w[2][k])]>>
  BY DEF GrpcToJson
<1> QED BY <1>1, <1>2, <1>3, <1>4, <1>5, <1>6

\* JSON goes through the bridge and back.
LEMMA JsonComesBack ==
  ASSUME NEW j, JsonBack(j)
  PROVE  GrpcToJson(JsonToGrpc(j)) = j
<1>1. CASE j = <<"null">>
  BY <1>1 DEF JsonToGrpc, GrpcToJson, Kind, Null
<1>2. ASSUME NEW x, j \in {<<"bool", x>>, <<"float", x>>, <<"str", x>>}
      PROVE  GrpcToJson(JsonToGrpc(j)) = j
  <2>2. CASE j = <<"bool", x>>
    <3>1. JsonToGrpc(j) = <<"bool", x>>  BY <2>2 DEF JsonToGrpc
    <3> QED BY <2>2, <3>1, BridgeArms DEF Kind
  <2>3. CASE j = <<"float", x>>
    <3>1. JsonToGrpc(j) = <<"double", x>>  BY <2>3 DEF JsonToGrpc
    <3> QED BY <2>3, <3>1, BridgeArms DEF Kind
  <2>4. CASE j = <<"str", x>>
    <3>1. JsonToGrpc(j) = <<"string", x>>  BY <2>4 DEF JsonToGrpc
    <3> QED BY <2>4, <3>1, BridgeArms DEF Kind
  <2> QED BY <1>2, <2>2, <2>3, <2>4
<1>3. ASSUME NEW n \in Signed(Half64), j = <<"num", n>>
      PROVE  GrpcToJson(JsonToGrpc(j)) = j
  <2>1. JsonToGrpc(j) \in {<<"int32", n>>, <<"int64", n>>}
    BY <1>3 DEF JsonToGrpc
  <2> DEFINE w == JsonToGrpc(j)
  <2>2. Kind(w) \in {"int32", "int64"} /\ w[2] = n  BY <2>1 DEF Kind
  <2> HIDE DEF w
  <2>3. GrpcToJson(w) = <<"num", n>>  BY <2>2, BridgeArms
  <2> QED BY <1>3, <2>3 DEF w
<1>4. ASSUME NEW x, ElementsBack(Json, x), NEW kind \in {"arr", "obj"}, j = <<kind, x>>
      PROVE  GrpcToJson(JsonToGrpc(j)) = j
  <2> DEFINE w == [i \in DOMAIN x |-> EncodePart(Json, x[i])]
  <2>1. JsonToGrpc(j) = <<IF kind = "arr" THEN "list" ELSE "map", w>>
    BY <1>4 DEF JsonToGrpc
  <2>2. DOMAIN w = DOMAIN x /\ \A i \in DOMAIN x : JsonPart(w[i]) = x[i]
    BY <1>4, Verdicts DEF JsonPart, ElementsBack, Back
  <2>3. [i \in DOMAIN w |-> JsonPart(w[i])] = x
    <3>1. [i \in DOMAIN w |-> JsonPart(w[i])] = [i \in DOMAIN x |-> x[i]]  BY <2>2
    <3> QED BY <1>4, <3>1 DEF ElementsBack
  <2> HIDE DEF w
  <2>4. GrpcToJson(JsonToGrpc(j)) = <<kind, [i \in DOMAIN w |-> JsonPart(w[i])]>>
    <3> DEFINE g == JsonToGrpc(j)
    <3>1. Kind(g) = (IF kind = "arr" THEN "list" ELSE "map") /\ g[2] = w  BY <2>1 DEF Kind
    <3> HIDE DEF g
    <3>2. GrpcToJson(g) = <<kind, [i \in DOMAIN g[2] |-> JsonPart(g[2][i])]>>
      BY <1>4, <3>1, BridgeArms
    <3> QED BY <3>1, <3>2 DEF g
  <2> QED BY <1>4, <2>3, <2>4
<1> QED BY <1>1, <1>2, <1>3, <1>4 DEF JsonBack

\* What the derives write of a value they read back as the value, whatever the type, if
\* that is so of the values it nests: elements, fields behind any attributes, flattened
\* records, the variant beside its tag.  So it is so of types nested to any depth
\* (to_value, from_value, props, __arcade_decode_from_map).
THEOREM ValuesComeBack ==
  ASSUME NEW ty, ty.t \in ScalarType \cup Nested, NEW v, PartsBack(ty, v)
  PROVE  Decode(ty, Encode(ty, v)) = Ok(v)
<1> DEFINE w == Encode(ty, v)
<1>0. ScalarType \cap Nested = {}
  BY DEF ScalarType, IntType, AsInt32, AsInt64, FloatType, Nested
<1>1. CASE ty.t \in ScalarType
  <2>1. ScalarBack(ty.t, v)  BY <1>1, <1>0 DEF PartsBack, Nested
  <2>2. DecodeScalar(ty.t, EncodeScalar(ty.t, v)) = Ok(v)
    BY <1>1, <2>1, ScalarsComeBack DEF ScalarBack
  <2> QED BY <1>1, <2>2, Arms
<1>2. CASE ty.t \in {"list", "map"}
  <2> DEFINE x == [i \in DOMAIN v |-> EncodePart(ty.of, v[i])]
  <2>1. ElementsBack(ty.of, v)  BY <1>0, <1>2 DEF PartsBack, Nested
  <2>2. AllOk([i \in DOMAIN x |-> DecodePart(ty.of, x[i])]) = Ok(v)
    <3>1. x = [i \in DOMAIN v |-> EncodePart(ty.of, v[i])]  OBVIOUS
    <3> HIDE DEF x
    <3> QED BY <2>1, <3>1, ElementsRead
  <2>3. w = <<IF ty.t = "list" THEN "list" ELSE "map", x>>  BY <1>2, Arms
  <2> HIDE DEF x, w
  <2>4. Kind(w) = ty.t /\ w[2] = x  BY <1>2, <2>3 DEF Kind
  <2>5. Decode(ty, w) = AllOk([i \in DOMAIN x |-> DecodePart(ty.of, x[i])])
    BY <1>2, <2>4, Arms DEF DecodeList
  <2> QED BY <2>2, <2>5 DEF w
<1>3. CASE ty.t = "set"
  <2> DEFINE s == SetToSeq(v)
             x == [i \in DOMAIN s |-> EncodePart(ty.of, s[i])]
  <2>1. IsFiniteSet(v) /\ \A e \in v : Back(ty.of, e)  BY <1>0, <1>3 DEF PartsBack, Nested
  <2>2. s = [i \in DOMAIN s |-> s[i]] /\ ToSet(s) = v  BY <2>1, SetInOrder
  <2>3. w = <<"list", x>>  BY <1>3, Arms
  <2> HIDE DEF s, w
  <2>4. ElementsBack(ty.of, s)
    <3>1. \A i \in DOMAIN s : s[i] \in v  BY <2>2 DEF ToSet
    <3> QED BY <2>1, <2>2, <3>1 DEF ElementsBack
  <2>5. AllOk([i \in DOMAIN x |-> DecodePart(ty.of, x[i])]) = Ok(s)
    <3>1. x = [i \in DOMAIN s |-> EncodePart(ty.of, s[i])]  OBVIOUS
    <3> HIDE DEF x
    <3> QED BY <2>4, <3>1, ElementsRead
  <2> HIDE DEF x
  <2>6. DecodeList(ty, w) = Ok(s)
    <3>1. Kind(w) = "list" /\ w[2] = x  BY <2>3 DEF Kind
    <3> QED BY <2>5, <3>1 DEF DecodeList
  <2>7. Decode(ty, w) = Ok(ToSet(s))
    <3>1. Decode(ty, w) = IF IsOk(DecodeList(ty, w)) THEN Ok(ToSet(DecodeList(ty, w)[2])) ELSE Err
      BY ONLY <1>3, Arms
    <3> QED BY <2>6, <3>1, Verdicts DEF IsOk
  <2> QED BY <2>2, <2>7 DEF w
<1>4. CASE ty.t = "json"
  <2>1. JsonBack(v)  BY <1>0, <1>4 DEF PartsBack, Nested
  <2> QED BY <1>4, <2>1, Arms, JsonComesBack
<1>5. CASE ty.t = "struct"
  <2>1. RecordBack(ty, v)  BY <1>0, <1>5 DEF PartsBack, Nested
  <2>2. w = <<"map", Props(ty, v)>>  BY <1>5, Arms
  <2> HIDE DEF w
  <2>3. Kind(w) = "map" /\ w[2] = Props(ty, v)  BY <2>2 DEF Kind
  <2>4. Decode(ty, w) = FromMap(ty, Props(ty, v), {}, NoMeta)  BY <1>5, <2>3, Arms
  <2> QED BY <2>1, <2>4, RecordsComeBack DEF w
<1>6. CASE ty.t = "enum"
  <2>1. EnumBack(ty, v) /\ w = EncodeEnum(ty, v)  BY <1>0, <1>6, Arms DEF PartsBack, Nested
  <2> HIDE DEF w
  <2>2. ASSUME ty.tag = NoTag, NEW a \in DOMAIN ty.variants, ty.variants[a] = << >>, v = <<a>>
        PROVE  Decode(ty, w) = Ok(v)
    <3>1. v[1] = a  BY <2>2
    <3>2. w = <<"string", <<"text", a>>>>  BY <2>1, <2>2, <3>1 DEF EncodeEnum, IsUnit
    <3>3. Kind(w) = "string" /\ w[2][1] = "text" /\ w[2][2] = a  BY <3>2 DEF Kind
    <3>4. DecodeUnit(ty, w) = Ok(<<a>>)  BY <2>2, <3>3 DEF DecodeUnit
    <3> QED BY <1>6, <2>2, <3>4, Arms
  <2>3. ASSUME ty.tag # NoTag, NEW a \in DOMAIN ty.variants, NEW u, v = <<a, u>>,
               VariantBack(ty.variants[a], ty.tag, u)
        PROVE  Decode(ty, w) = Ok(v)
    <3>1. v[1] = a  BY <2>3
    <3>2. w = <<"map", VariantProps(ty, v)>>
      BY <2>1, <2>3, <3>1 DEF EncodeEnum, IsUnit, VariantBack
    <3>3. Kind(w) = "map" /\ w[2] = VariantProps(ty, v)  BY <3>2 DEF Kind
    <3>4. Decode(ty, w) = FromTagged(ty, VariantProps(ty, v), {})
      BY <1>6, <2>3, <3>3, Arms DEF FromMap
    <3> QED BY <1>6, <2>3, <3>4, VariantsComeBack
  <2> QED BY <2>1, <2>2, <2>3 DEF EnumBack, w
<1> QED BY <1>1, <1>2, <1>3, <1>4, <1>5, <1>6 DEF Nested

\* A field shows what was written of it when its value comes back, which a null of an
\* option does not, and a blob comes back where it is a field: the record types that
\* the typed writes are proved for have such fields.
THEOREM FieldsComeBack ==
  ASSUME NEW f, NEW x, f.opt => x = None \/ x = Some(x[1]),
         Pushed(f, x) => IF f.ty.t = "bytes"
                         THEN EncodePart(f.ty, Held(f, x)) = <<"bytes", Held(f, x)>>
                         ELSE /\ Back(f.ty, Held(f, x))
                              /\ f.opt => EncodePart(f.ty, Held(f, x)) # Null
  PROVE  ComesBack(f, x)
<1> SUFFICES ASSUME Pushed(f, x) PROVE Present(f, EncodePart(f.ty, Held(f, x))) = Ok(x)
  BY DEF ComesBack
<1> DEFINE w == EncodePart(f.ty, Held(f, x))
<1>1. /\ f.opt => x = Some(Held(f, x))
      /\ ~f.opt => x = Held(f, x)
  BY DEF Pushed, Held
<1>2. f.opt => w # Null
  <2>1. f.ty.t = "bytes" => w = <<"bytes", Held(f, x)>>  OBVIOUS
  <2> HIDE DEF w
  <2>2. f.ty.t = "bytes" => w[1] = "bytes"  BY <2>1
  <2>3. Null[1] = "null"  BY DEF Null
  <2>4. f.ty.t # "bytes" => (f.opt => w # Null)  BY DEF w
  <2> QED BY <2>2, <2>3, <2>4
<1>3. (IF f.ty.t = "bytes" THEN DecodeBytes(w) ELSE DecodePart(f.ty, w)) = Ok(Held(f, x))
  BY DEF DecodeBytes, Kind, Back
<1> HIDE DEF w
<1>4. Present(f, w) = Opted(f, w, Ok(Held(f, x)))  BY <1>3 DEF Present
<1> QED BY <1>1, <1>2, <1>4, Verdicts DEF Opted, Wrapped, IsOk, w

----------------------------------------------------------------------------
(* Drift checks *)

\* The classes of the column types.
LEMMA Classes ==
  ASSUME NEW n \in ColumnName
  PROVE  ScalarClass(n) = CASE n \in {"STRING", "LINK"} -> "Str"
                            [] n = "BOOLEAN" -> "Bool"
                            [] n \in {"INTEGER", "LONG", "SHORT", "BYTE"} -> "Int"
                            [] n \in {"FLOAT", "DOUBLE"} -> "Float"
                            [] n \in {"DATETIME", "DATE"} -> "DateTime"
                            [] n \in {"MAP", "EMBEDDEDMAP"} -> "Map"
                            [] n = "DECIMAL" -> "Unknown"
BY DEF ScalarClass, ColumnName

\* The column type that a scalar field stands for.
LEMMA Standing ==
  ASSUME NEW t \in DOMAIN ScalarName
  PROVE  /\ t \in {"str", "view", "char"} => ScalarName[t] = "STRING"
         /\ t = "bool" => ScalarName[t] = "BOOLEAN"
         /\ t \in IntType => ScalarName[t] \in {"INTEGER", "LONG"}
         /\ t \in FloatType => ScalarName[t] \in {"FLOAT", "DOUBLE"}
         /\ t = "link" => ScalarName[t] = "LINK"
         /\ t = "datetime" => ScalarName[t] = "DATETIME"
         /\ t = "date" => ScalarName[t] = "DATE"
         /\ t = "decimal" => ScalarName[t] = "DECIMAL"
         /\ t \in ScalarType
         /\ Rendered([t |-> t]) = <<"one", ScalarName[t]>>
<1> USE DEF ScalarName, ScalarType, IntType, FloatType, AsInt32, AsInt64
<1>1. Rendered([t |-> t]) = <<"one", ScalarName[t]>>
  BY DEF Rendered
<1>2. CASE t \in AsInt32
  BY <1>1, <1>2
<1>3. CASE t \in AsInt64
  BY <1>1, <1>3
<1>4. CASE t \notin AsInt32 \cup AsInt64
  BY <1>1, <1>4
<1> QED
  BY <1>2, <1>3, <1>4

\* The columns that the checks accept for a scalar field.
Accepted(t) ==
  CASE t \in IntType -> {"BYTE", "SHORT", "INTEGER", "LONG", "DECIMAL"}
    [] t \in FloatType -> {"BYTE", "SHORT", "INTEGER", "LONG", "FLOAT", "DOUBLE", "DECIMAL"}
    [] t = "bool" -> {"BOOLEAN", "DECIMAL"}
    [] t = "decimal" -> ColumnName
    [] OTHER -> {"STRING", "LINK", "DATETIME", "DATE", "DECIMAL"}
LEMMA Accepting ==
  ASSUME NEW t \in DOMAIN ScalarName, NEW n \in ColumnName
  PROVE  KindsCompatible(Rendered([t |-> t]), <<"one", n>>) <=> n \in Accepted(t)
<1> DEFINE e == ScalarClass(ScalarName[t])
           a == ScalarClass(n)
<1>1. ScalarName[t] \in ColumnName
  BY Standing DEF ColumnName, ScalarName
<1>2. KindsCompatible(Rendered([t |-> t]), <<"one", n>>)
        <=> "Unknown" \in {e, a} \/ Widens(e, a) \/ {e, a} = {"DateTime", "Str"}
  BY Standing DEF KindsCompatible, ClassOf
<1>3. /\ t \in IntType => e = "Int"
      /\ t \in FloatType => e = "Float"
      /\ t = "bool" => e = "Bool"
      /\ t = "decimal" => e = "Unknown"
      /\ t \in {"str", "view", "char", "link"} => e = "Str"
      /\ t \in {"datetime", "date"} => e = "DateTime"
      /\ t \in IntType \cup FloatType
                \cup {"str", "view", "char", "bool", "link", "datetime", "date", "decimal"}
  <2> DEFINE name == ScalarName[t]
  <2>1. /\ t \in IntType => name \in {"INTEGER", "LONG"}
        /\ t \in FloatType => name \in {"FLOAT", "DOUBLE"}
        /\ t = "bool" => name = "BOOLEAN"
        /\ t = "decimal" => name = "DECIMAL"
        /\ t \in {"str", "view", "char"} => name = "STRING"
        /\ t = "link" => name = "LINK"
        /\ t = "datetime" => name = "DATETIME"
        /\ t = "date" => name = "DATE"
        /\ t \in ScalarType
    BY Standing
  <2> HIDE DEF name
  <2>2. name \in ColumnName /\ e = ScalarClass(name)
    BY <1>1 DEF name
  <2> HIDE DEF e
  <2>3. /\ name \in {"INTEGER", "LONG"} => e = "Int"
        /\ name \in {"FLOAT", "DOUBLE"} => e = "Float"
        /\ name = "BOOLEAN" => e = "Bool"
        /\ name = "DECIMAL" => e = "Unknown"
        /\ name \in {"STRING", "LINK"} => e = "Str"
        /\ name \in {"DATETIME", "DATE"} => e = "DateTime"
    BY <2>2, Classes
  <2>4. t \in IntType \cup FloatType
              \cup {"str", "view", "char", "bool", "link", "datetime", "date", "decimal"}
    BY <2>1 DEF ScalarType
  <2> QED
    BY <2>1, <2>3, <2>4
<1> HIDE DEF e
<1>4. CASE t \in IntType
  BY <1>2, <1>3, <1>4, Classes DEF Accepted, Widens, ColumnName
<1>5. CASE t \in FloatType
  BY <1>2, <1>3, <1>5, Classes DEF Accepted, Widens, ColumnName, FloatType, IntType, AsInt32, AsInt64
<1>6. CASE t = "bool"
  BY <1>2, <1>3, <1>6, Classes DEF Accepted, Widens, ColumnName, FloatType, IntType, AsInt32, AsInt64
<1>7. CASE t = "decimal"
  BY <1>2, <1>3, <1>7, Classes DEF Accepted, Widens, ColumnName, FloatType, IntType, AsInt32, AsInt64
<1>8. CASE t \in {"str", "view", "char", "link"}
  BY <1>2, <1>3, <1>8, Classes DEF Accepted, Widens, ColumnName, FloatType, IntType, AsInt32, AsInt64
<1>9. CASE t \in {"datetime", "date"}
  BY <1>2, <1>3, <1>9, Classes DEF Accepted, Widens, ColumnName, FloatType, IntType, AsInt32, AsInt64
<1> QED
  BY <1>3, <1>4, <1>5, <1>6, <1>7, <1>8, <1>9

\* What the server sends of a column, and a value of each column that says the most.
LEMMA Sent ==
  ASSUME NEW n \in ColumnName, NEW w \in Scalars(n)
  PROVE  /\ n = "STRING" => Kind(w) = "string"
         /\ n = "LINK" => Kind(w) = "link"
         /\ n = "BOOLEAN" => Kind(w) = "bool"
         /\ n \in {"BYTE", "SHORT", "INTEGER"} => Kind(w) = "int32"
         /\ n = "LONG" => Kind(w) = "int64"
         /\ n \in {"FLOAT", "DOUBLE"} => Kind(w) \in {"float", "double"}
         /\ n \in {"DATETIME", "DATE"} => Kind(w) = "timestamp"
         /\ n \in {"MAP", "EMBEDDEDMAP"} => Kind(w) = "map"
         /\ n = "DECIMAL" => Kind(w) = "decimal"
<1>1. CASE n = "STRING"
  BY <1>1 DEF Scalars, Kind
<1>2. CASE n = "LINK"
  BY <1>2 DEF Scalars, Kind
<1>a. CASE n = "BOOLEAN"
  BY <1>a DEF Scalars, Kind
<1>3. CASE n \in {"BYTE", "SHORT", "INTEGER"}
  BY <1>3 DEF Scalars, Kind
<1>4. CASE n = "LONG"
  BY <1>4 DEF Scalars, Kind
<1>5. CASE n = "FLOAT"
  BY <1>5 DEF Scalars, Kind
<1>b. CASE n = "DOUBLE"
  BY <1>b DEF Scalars, Kind
<1>6. CASE n = "DATETIME"
  BY <1>6 DEF Scalars, Kind
<1>c. CASE n = "DATE"
  BY <1>c DEF Scalars, Kind
<1>7. CASE n \in {"MAP", "EMBEDDEDMAP"}
  BY <1>7 DEF Scalars, Kind
<1>8. CASE n = "DECIMAL"
  BY <1>8 DEF Scalars, Kind
<1> QED
  BY <1>1, <1>2, <1>3, <1>4, <1>5, <1>6, <1>7, <1>8, <1>a, <1>b, <1>c DEF ColumnName

Text == <<"string", <<"text", "x">>>>
Iso == <<"string", <<"iso", <<1, 5>>>>>>
Dec(s) == <<"decimal", [unscaled |-> 1, scale |-> s, bytes |-> << >>]>>
LEMMA Samples ==
  /\ Text \in Scalars("STRING") /\ Iso \in Scalars("STRING")
  /\ Dec(0) \in Scalars("DECIMAL") /\ Dec(1) \in Scalars("DECIMAL")
  /\ \A n \in ColumnName : Scalars(n) # {}
<1>1. Text \in Scalars("STRING") /\ Iso \in Scalars("STRING")
  BY DEF Scalars, Text, Iso
<1>2. Dec(0) \in Scalars("DECIMAL") /\ Dec(1) \in Scalars("DECIMAL")
  BY DEF Scalars, Dec
<1>3. \A n \in {"LINK", "BOOLEAN", "BYTE", "SHORT", "INTEGER", "LONG", "FLOAT", "DOUBLE"} :
        Scalars(n) # {}
  BY DEF Scalars
<1>4. \A n \in {"DATETIME", "DATE", "MAP", "EMBEDDEDMAP"} : Scalars(n) # {}
  BY DEF Scalars
<1> QED
  BY <1>1, <1>2, <1>3, <1>4 DEF ColumnName

\* What a scalar field accepts or refuses of a column.
Takes(t, n) == \A w \in Scalars(n) : Fits([t |-> t], w) => IsOk(DecodeScalar(t, w))
LEMMA Outcomes ==
  ASSUME NEW t \in DOMAIN ScalarName, NEW n \in ColumnName, n \in Accepted(t)
  PROVE  Takes(t, n) <=> n \notin Undecoded(t)
<1> USE DEF ScalarType, IntType, FloatType, AsInt32, AsInt64
<1>0. /\ \A v : IsOk(Ok(v))
      /\ ~IsOk(Err)
  BY DEF IsOk, Ok, Err
<1>1. CASE t \in IntType
  <2>1. \A w : DecodeScalar(t, w) = DecodeInt(t, w)
    BY <1>1 DEF DecodeScalar
  <2>2. CASE n = "DECIMAL"
    <3>1. DecodeInt(t, Dec(1)) = Err
      BY DEF DecodeInt, Dec, Kind, IsPlain
    <3>2. Fits([t |-> t], Dec(1))
      BY DEF Fits, Dec, Kind
    <3> QED
      BY <1>0, <1>1, <2>1, <2>2, <3>1, <3>2, Samples DEF Takes, Undecoded
  <2>3. CASE n # "DECIMAL"
    <3>1. n \in {"BYTE", "SHORT", "INTEGER", "LONG"} /\ n \notin Undecoded(t)
      BY <1>1, <2>3 DEF Accepted, Undecoded
    <3>2. ASSUME NEW w \in Scalars(n), Fits([t |-> t], w) PROVE IsOk(DecodeInt(t, w))
      <4>1. Kind(w) \in {"int32", "int64"}
        BY <3>1, Sent
      <4>2. w[2] \in IntRange[t]
        BY <1>1, <3>2, <4>1 DEF Fits
      <4> QED
        BY <1>0, <4>1, <4>2 DEF DecodeInt
    <3> QED
      BY <2>1, <3>1, <3>2 DEF Takes
  <2> QED
    BY <2>2, <2>3
<1>2. CASE t \in FloatType
  <2>1. \A w : DecodeScalar(t, w) = DecodeFloat(t, w)
    BY <1>2 DEF DecodeScalar
  <2>2. CASE n = "DECIMAL"
    <3>1. DecodeFloat(t, Dec(1)) = Err
      BY DEF DecodeFloat, Dec, Kind
    <3>2. Fits([t |-> t], Dec(1))
      BY DEF Fits, Dec, Kind
    <3> QED
      BY <1>0, <1>2, <2>1, <2>2, <3>1, <3>2, Samples DEF Takes, Undecoded
  <2>3. CASE n # "DECIMAL"
    <3>1. n \in {"BYTE", "SHORT", "INTEGER", "LONG", "FLOAT", "DOUBLE"} /\ n \notin Undecoded(t)
      BY <1>2, <2>3 DEF Accepted, Undecoded
    <3>2. ASSUME NEW w \in Scalars(n) PROVE IsOk(DecodeFloat(t, w))
      <4>1. Kind(w) \in {"int32", "int64", "float", "double"}
        BY <3>1, Sent
      <4> QED
        BY <1>0, <4>1 DEF DecodeFloat
    <3> QED
      BY <2>1, <3>1, <3>2 DEF Takes
  <2> QED
    BY <2>2, <2>3
<1>3. CASE t = "bool"
  <2>1. \A w : DecodeScalar(t, w) = IF Kind(w) = "bool" THEN Ok(w[2]) ELSE Err
    BY <1>3 DEF DecodeScalar
  <2>2. Kind(Dec(1)) = "decimal" /\ Fits([t |-> t], Dec(1))
    BY DEF Fits, Dec, Kind
  <2>3. n = "DECIMAL" \/ (n = "BOOLEAN" /\ n \notin Undecoded(t))
    BY <1>3 DEF Accepted, Undecoded
  <2>4. "DECIMAL" \in Undecoded(t)
    BY <1>3 DEF Undecoded
  <2> QED
    BY <1>0, <2>1, <2>2, <2>3, <2>4, Samples, Sent DEF Takes
<1>4. CASE t \in {"str", "view"}
  <2>1. \A w : DecodeScalar(t, w) = DecodeString(t, w)
    BY <1>4 DEF DecodeScalar
  <2>2. n \in {"STRING", "LINK", "DATETIME", "DATE", "DECIMAL"}
    BY <1>4 DEF Accepted
  <2>3. CASE n = "DECIMAL"
    <3>1. DecodeString(t, Dec(0)) = Err
      BY DEF DecodeString, Dec, Kind, IsPlain
    <3>2. Fits([t |-> t], Dec(0))
      BY DEF Fits, Dec, Kind
    <3>3. n \in Undecoded(t)
      BY <1>4, <2>3 DEF Undecoded
    <3> QED
      BY <1>0, <2>1, <2>3, <3>1, <3>2, <3>3, Samples DEF Takes
  <2>4. CASE n \in {"STRING", "LINK"}
    <3>1. n \notin Undecoded(t)
      BY <1>4, <2>4 DEF Undecoded
    <3>2. \A w \in Scalars(n) : Kind(w) \in {"string", "link"}
      BY <2>4, Sent
    <3>3. \A w \in Scalars(n) : IsOk(DecodeString(t, w))
      BY <1>0, <3>2 DEF DecodeString
    <3> QED
      BY <2>1, <3>1, <3>3 DEF Takes
  <2>5. CASE n \in {"DATETIME", "DATE"}
    <3>1. n \in Undecoded(t) <=> t = "view"
      BY <1>4, <2>5 DEF Undecoded
    <3>2. \A w \in Scalars(n) : /\ DecodeString(t, w) = IF t = "str" THEN Ok(<<"iso", w[2]>>) ELSE Err
                                /\ Fits([t |-> t], w)
      BY <1>4, <2>5, Sent DEF DecodeString, Fits
    <3>3. \A w \in Scalars(n) : IsOk(DecodeString(t, w)) <=> t = "str"
      BY <1>0, <3>2
    <3>4. (\A w \in Scalars(n) : Fits([t |-> t], w) => IsOk(DecodeString(t, w))) <=> t = "str"
      BY <3>2, <3>3, Samples
    <3> QED
      BY <1>4, <2>1, <3>1, <3>4 DEF Takes
  <2> QED
    BY <2>2, <2>3, <2>4, <2>5
<1>5. CASE t = "char"
  <2>1. \A w : DecodeScalar(t, w) = DecodeChar(w)
    BY <1>5 DEF DecodeScalar
  <2>2. n \in {"STRING", "LINK", "DATETIME", "DATE", "DECIMAL"} /\ n \in Undecoded(t)
    BY <1>5 DEF Accepted, Undecoded
  <2>3. DecodeChar(Text) = Err /\ Fits([t |-> t], Text)
    BY <1>5 DEF DecodeChar, Text, Kind, Fits
  <2>4. ASSUME n # "STRING", NEW w \in Scalars(n) PROVE DecodeChar(w) = Err /\ Fits([t |-> t], w)
    BY <1>5, <2>2, <2>4, Sent DEF DecodeChar, Fits
  <2>5. \E w \in Scalars(n) : DecodeChar(w) = Err /\ Fits([t |-> t], w)
    BY <2>3, <2>4, Samples
  <2> QED
    BY <1>0, <2>1, <2>2, <2>5 DEF Takes
<1>6. CASE t = "link"
  <2>1. \A w : DecodeScalar(t, w) = DecodeLink(w)
    BY <1>6 DEF DecodeScalar
  <2>2. n \in {"STRING", "LINK", "DATETIME", "DATE", "DECIMAL"} /\ (n \in Undecoded(t) <=> n # "LINK")
    BY <1>6 DEF Accepted, Undecoded
  <2>3. DecodeLink(Text) = Err /\ Fits([t |-> t], Text)
    BY <1>6 DEF DecodeLink, Text, Kind, Fits
  <2>4. CASE n = "LINK"
    BY <1>0, <2>1, <2>2, <2>4, Sent DEF Takes, DecodeLink
  <2>5. CASE n # "LINK"
    <3>1. ASSUME n # "STRING", NEW w \in Scalars(n) PROVE DecodeLink(w) = Err /\ Fits([t |-> t], w)
      BY <1>6, <2>2, <2>5, <3>1, Sent DEF DecodeLink, Fits
    <3>2. \E w \in Scalars(n) : DecodeLink(w) = Err /\ Fits([t |-> t], w)
      BY <2>3, <3>1, Samples
    <3> QED
      BY <1>0, <2>1, <2>2, <2>5, <3>2 DEF Takes
  <2> QED
    BY <2>4, <2>5
<1>7. CASE t = "datetime"
  <2>1. \A w : DecodeScalar(t, w) = DecodeDateTime(w)
    BY <1>7 DEF DecodeScalar
  <2>2. n \in {"STRING", "LINK", "DATETIME", "DATE", "DECIMAL"}
    BY <1>7 DEF Accepted
  <2>3. n \in Undecoded(t) <=> n \in {"LINK", "DECIMAL"}
    BY <1>7 DEF Undecoded
  <2>4. CASE n \in {"LINK", "DECIMAL"}
    <3>1. \A w \in Scalars(n) : DecodeDateTime(w) = Err /\ Fits([t |-> t], w)
      BY <1>7, <2>4, Sent DEF DecodeDateTime, Fits
    <3> QED
      BY <1>0, <2>1, <2>3, <2>4, <3>1, Samples DEF Takes
  <2>5. CASE n \in {"DATETIME", "DATE"}
    BY <1>0, <2>1, <2>3, <2>5, Sent DEF Takes, DecodeDateTime
  <2>6. CASE n = "STRING"
    <3>1. ASSUME NEW w \in Scalars(n), Fits([t |-> t], w) PROVE IsOk(DecodeDateTime(w))
      <4>1. Kind(w) = "string"
        BY <2>6, Sent
      <4>2. w[2][1] = "iso"
        BY <1>7, <3>1, <4>1 DEF Fits
      <4> QED
        BY <1>0, <4>1, <4>2 DEF DecodeDateTime
    <3> QED
      BY <2>1, <2>3, <2>6, <3>1 DEF Takes
  <2> QED
    BY <2>2, <2>4, <2>5, <2>6
<1>8. CASE t = "date"
  <2>1. \A w : DecodeScalar(t, w) = DecodeDate(w)
    BY <1>8 DEF DecodeScalar
  <2>2. n \in {"STRING", "LINK", "DATETIME", "DATE", "DECIMAL"}
    BY <1>8 DEF Accepted
  <2>3. n \in Undecoded(t) <=> n \in {"STRING", "LINK", "DECIMAL"}
    BY <1>8 DEF Undecoded
  <2>4. CASE n \in {"LINK", "DECIMAL"}
    <3>1. \A w \in Scalars(n) : DecodeDate(w) = Err /\ Fits([t |-> t], w)
      BY <1>8, <2>4, Sent DEF DecodeDate, Fits
    <3> QED
      BY <1>0, <2>1, <2>3, <2>4, <3>1, Samples DEF Takes
  <2>5. CASE n \in {"DATETIME", "DATE"}
    BY <1>0, <2>1, <2>3, <2>5, Sent DEF Takes, DecodeDate
  <2>6. CASE n = "STRING"
    <3>1. DecodeDate(Iso) = Err
      BY DEF DecodeDate, Iso, Kind
    <3>2. Fits([t |-> t], Iso)
      BY DEF Fits, Iso, Kind
    <3> QED
      BY <1>0, <2>1, <2>3, <2>6, <3>1, <3>2, Samples DEF Takes
  <2> QED
    BY <2>2, <2>4, <2>5, <2>6
<1>9. CASE t = "decimal"
  <2>1. \A w : DecodeScalar(t, w) = DecodeDecimal(w)
    BY <1>9 DEF DecodeScalar
  <2>2. n \in Undecoded(t) <=> n \notin {"LONG", "DECIMAL"}
    BY <1>9 DEF Undecoded
  <2>3. CASE n \in {"LONG", "DECIMAL"}
    <3>1. \A w \in Scalars(n) : Kind(w) \in {"int64", "decimal"}
      BY <2>3, Sent
    <3>2. \A w : Kind(w) \in {"int64", "decimal"} => \E v : DecodeDecimal(w) = Ok(v)
      BY DEF DecodeDecimal
    <3> QED
      BY <1>0, <2>1, <2>2, <2>3, <3>1, <3>2 DEF Takes
  <2>4. CASE n \notin {"LONG", "DECIMAL"}
    <3>1. \A w \in Scalars(n) : Kind(w) \notin {"int64", "decimal"}
      BY <2>4, Sent DEF ColumnName
    <3>2. \A w \in Scalars(n) : DecodeDecimal(w) = Err /\ Fits([t |-> t], w)
      BY <1>9, <3>1 DEF DecodeDecimal, Fits
    <3> QED
      BY <1>0, <2>1, <2>2, <2>4, <3>2, Samples DEF Takes
  <2> QED
    BY <2>3, <2>4
<1> QED
  BY <1>1, <1>2, <1>3, <1>4, <1>5, <1>6, <1>7, <1>8, <1>9, Standing

\* Which scalar columns a checked scalar field decodes: the kinds that dto_kind_drift
\* accepts and whose every value the field's FromGrpcValue accepts, up to a number wider
\* than the field or a text that is no time, are the accepted ones without Undecoded
\* (kinds_compatible, dto_drift.rs; record/types.rs).
THEOREM CheckedColumnsDecode ==
  ASSUME NEW t \in DOMAIN ScalarName, NEW n \in ColumnName,
         KindsCompatible(Rendered([t |-> t]), <<"one", n>>)
  PROVE  (\A w \in Scalars(n) : Fits([t |-> t], w) => IsOk(DecodeScalar(t, w)))
           <=> n \notin Undecoded(t)
BY Accepting, Outcomes DEF Takes
=============================================================================
