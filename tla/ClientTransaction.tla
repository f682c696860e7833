--------------------------- MODULE ClientTransaction ---------------------------
(***************************************************************************)
(* Explicit transactions of arcadedb-protocol (client/transaction.rs):     *)
(* the retrying run_transaction, and the Transaction guard that rolls back *)
(* in the background when it is dropped.                                   *)
(*                                                                         *)
(* Every client runs the same unit once: it reads a shared record and      *)
(* writes it back changed.  The server detects that the record changed     *)
(* since the transaction began, when the write or when the commit is       *)
(* executed.  Requests and replies may be lost, a commit may be executed   *)
(* after the client gave up on it, a caller may drop the future it is      *)
(* waiting for, and the server reaps idle transactions.                    *)
(***************************************************************************)
EXTENDS Integers, FiniteSets

CONSTANTS
  Runner,      \* clients that use run_transaction
  Guard,       \* clients that use the Transaction guard
  Retries,     \* the retries argument of run_transaction
  MaxTxFaults    \* bound: losses, cancellations and early reapings

Caller == Runner \cup Guard

ASSUME TransactionAssumption ==
  /\ IsFiniteSet(Caller) /\ Runner \cap Guard = {}
  /\ Retries \in Nat /\ MaxTxFaults \in Nat

VARIABLES
  \* the server
  version,     \* committed changes of the record
  open,        \* the transactions it holds
  effect,      \* effect[c]: committed changes by c
  \* requests that no client is waiting for
  late,        \* commits still on their way
  background,  \* rollbacks of dropped guards
  \* the clients
  pc,          \* "begin", "body", "commit", "rollback", "ok", "err"
  attempt,     \* attempts begun
  err,         \* the last error: "none", "conflict", "body", "commit"; "gone" if the
               \* commit that returned Ok was of a transaction the server did not have
  txFaults

server == <<version, open, effect>>
txVars == <<server, late, background, pc, attempt, err, txFaults>>

Attempts == 1..(Retries + 1)
Tx == [by : Caller, n : Nat, base : Nat]

TypeOK ==
  /\ version \in Nat
  /\ open \subseteq Tx /\ late \subseteq Tx /\ background \subseteq Tx
  /\ effect \in [Caller -> Nat]
  /\ pc \in [Caller -> {"begin", "body", "commit", "rollback", "ok", "err"}]
  /\ attempt \in [Caller -> 0..(Retries + 1)]
  /\ err \in [Caller -> {"none", "conflict", "body", "commit", "gone"}]
  /\ txFaults \in 0..MaxTxFaults

TxInit ==
  /\ version = 0 /\ open = {} /\ late = {} /\ background = {}
  /\ effect = [c \in Caller |-> 0]
  /\ pc = [c \in Caller |-> "begin"]
  /\ attempt = [c \in Caller |-> 0]
  /\ err = [c \in Caller |-> "none"]
  /\ txFaults = 0

\* The transaction of c's attempt, if the server still has it.
Mine(c) == {t \in open : t.by = c /\ t.n = attempt[c]}

Fresh(t) == t.base = version

Goto(c, l) == pc' = [pc EXCEPT ![c] = l]
Error(c, e) == err' = [err EXCEPT ![c] = e]
TxFault == txFaults < MaxTxFaults /\ txFaults' = txFaults + 1

----------------------------------------------------------------------------
(* The server *)

\* It commits t, or has a conflict to report; after a conflict it may or may
\* not keep the transaction.
Committed(t) ==
  /\ t \in open /\ Fresh(t)
  /\ version' = version + 1
  /\ effect' = [effect EXCEPT ![t.by] = @ + 1]
  /\ open' = open \ {t}

\* A commit that nobody waits for any more.
LateCommit(t) ==
  /\ t \in late /\ late' = late \ {t}
  /\ Committed(t) \/ (~(t \in open /\ Fresh(t)) /\ UNCHANGED server)
  /\ UNCHANGED <<background, pc, attempt, err, txFaults>>

BackgroundRollback(t) ==
  /\ t \in background /\ background' = background \ {t}
  /\ open' = open \ {t}
  /\ UNCHANGED <<version, effect, late, pc, attempt, err, txFaults>>

\* The reaper discards an idle transaction, a fault if it is still in use.
Reap(t) ==
  /\ t \in open /\ open' = open \ {t}
  /\ \/ pc[t.by] \in {"ok", "err"} /\ UNCHANGED txFaults
     \/ pc[t.by] \notin {"ok", "err"} /\ TxFault
  /\ UNCHANGED <<version, effect, late, background, pc, attempt, err>>

----------------------------------------------------------------------------
(* run_transaction and the guard *)

Begin(c) ==
  /\ pc[c] = "begin"
  /\ attempt' = [attempt EXCEPT ![c] = @ + 1]
  /\ open' = open \cup {[by |-> c, n |-> attempt[c] + 1, base |-> version]}
  /\ Goto(c, "body")
  /\ UNCHANGED <<version, effect, late, background, err, txFaults>>

\* begin_transaction fails, executed or not: no retry.
BeginFails(c) ==
  /\ pc[c] = "begin" /\ TxFault
  /\ attempt' = [attempt EXCEPT ![c] = @ + 1]
  /\ \/ open' = open \cup {[by |-> c, n |-> attempt[c] + 1, base |-> version]}
     \/ UNCHANGED open
  /\ Goto(c, "err") /\ Error(c, "body")
  /\ UNCHANGED <<version, effect, late, background>>

WriteInTx(c) ==
  /\ pc[c] = "body" /\ Mine(c) # {}
  /\ Goto(c, "commit")
  /\ UNCHANGED <<server, late, background, attempt, err, txFaults>>

WriteConflict(c) ==
  /\ pc[c] = "body" /\ \E t \in Mine(c) : ~Fresh(t)
  /\ Goto(c, "rollback") /\ Error(c, "conflict")
  /\ UNCHANGED <<server, late, background, attempt, txFaults>>

\* Mutant: the transaction is committed whatever the body returned.
BodyFails_commits(c) ==
  /\ pc[c] = "body"
  /\ \/ Mine(c) = {} /\ UNCHANGED <<server, txFaults>>
     \/ (\E t \in Mine(c) : Committed(t)) /\ TxFault
  /\ Goto(c, "rollback") /\ Error(c, "body")
  /\ UNCHANGED <<late, background, attempt>>

\* The command fails, or its reply is lost, or the transaction was reaped.
BodyFails(c) ==
  /\ pc[c] = "body"
  /\ \/ Mine(c) = {} /\ UNCHANGED txFaults
     \/ Mine(c) # {} /\ TxFault
  /\ Goto(c, "rollback") /\ Error(c, "body")
  /\ UNCHANGED <<server, late, background, attempt>>

Commit(c) ==
  /\ pc[c] = "commit" /\ \E t \in Mine(c) : Committed(t)
  /\ Goto(c, "ok")
  /\ UNCHANGED <<late, background, attempt, err, txFaults>>

\* The server answers that the request succeeded and that it committed nothing: only
\* success is looked at, and Ok returned.
CommitNothing(c) ==
  /\ pc[c] = "commit" /\ Mine(c) = {}
  /\ Goto(c, "ok") /\ Error(c, "gone")
  /\ UNCHANGED <<server, late, background, attempt, txFaults>>

\* The guard is consumed by a failed commit: only run_transaction rolls back.
AfterFailedCommit(c) == Goto(c, IF c \in Runner THEN "rollback" ELSE "err")

CommitConflict(c) ==
  /\ pc[c] = "commit" /\ \E t \in Mine(c) : ~Fresh(t)
  /\ open' = open \/ open' = open \ Mine(c)
  /\ AfterFailedCommit(c) /\ Error(c, "conflict")
  /\ UNCHANGED <<version, effect, late, background, attempt, txFaults>>

\* No answer, or the error that there is no such transaction: the commit is
\* lost, executed, or still on its way.
CommitFails(c) ==
  /\ pc[c] = "commit"
  /\ \/ Mine(c) = {} /\ UNCHANGED <<server, late, txFaults>>
     \/ /\ Mine(c) # {} /\ TxFault
        /\ \/ UNCHANGED <<server, late>>
           \/ (\E t \in Mine(c) : Committed(t)) /\ UNCHANGED late
           \/ late' = late \cup Mine(c) /\ UNCHANGED server
  /\ AfterFailedCommit(c) /\ Error(c, "commit")
  /\ UNCHANGED <<background, attempt>>

\* Mutant: any failed commit is retried.
Retryable_commit(e) == e \in {"conflict", "commit"}

\* is_retryable_conflict: the server's message speaks of a conflict.
Retryable(e) == e = "conflict"

\* Mutant: the first attempt is counted as a retry.
AttemptsLeft_fewer(c) == attempt[c] < Retries

AttemptsLeft(c) == attempt[c] < Retries + 1

\* The rollback, whose failure is ignored; then the next attempt or the error.
\* A guard has no next attempt.
Rollback(c) ==
  /\ pc[c] = "rollback"
  /\ \/ open' = open \ Mine(c) /\ UNCHANGED txFaults
     \/ UNCHANGED open /\ TxFault
  /\ Goto(c, IF c \in Runner /\ Retryable(err[c]) /\ AttemptsLeft(c) THEN "begin" ELSE "err")
  /\ UNCHANGED <<version, effect, late, background, attempt, err>>

\* The guard goes out of scope: its rollback is left to a background task.
Drop(c) ==
  /\ c \in Guard /\ pc[c] \in {"body", "rollback"} /\ err[c] # "commit"
  /\ background' = background \cup Mine(c)
  /\ Goto(c, "err") /\ Error(c, "body")
  /\ UNCHANGED <<server, late, attempt, txFaults>>

\* The caller drops the future: nothing is rolled back, and a commit that was
\* sent is executed or not.
Cancel(c) ==
  /\ pc[c] \in {"body", "commit", "rollback"} /\ TxFault
  /\ c \in Guard => pc[c] = "commit"
  /\ IF pc[c] = "commit" THEN Error(c, "commit") /\ (late' = late \cup Mine(c) \/ UNCHANGED late)
                         ELSE UNCHANGED <<err, late>>
  /\ Goto(c, "err")
  /\ UNCHANGED <<server, background, attempt>>

ClientStep(c) ==
  \/ Begin(c) \/ WriteInTx(c) \/ WriteConflict(c) \/ Commit(c) \/ CommitNothing(c)
  \/ CommitConflict(c) \/ Rollback(c) \/ Drop(c)

ClientFault(c) == BeginFails(c) \/ BodyFails(c) \/ CommitFails(c) \/ Cancel(c)

Finished == (\A c \in Caller : pc[c] \in {"ok", "err"}) /\ UNCHANGED txVars

TxNext ==
  \/ \E c \in Caller : ClientStep(c) \/ ClientFault(c)
  \/ \E t \in open : Reap(t)
  \/ \E t \in late : LateCommit(t)
  \/ \E t \in background : BackgroundRollback(t)
  \/ Finished

TxSpec == TxInit /\ [][TxNext]_txVars

----------------------------------------------------------------------------
(* Properties *)

\* The unit takes effect at most once however often it is attempted, and it did
\* when run_transaction or Transaction::commit returned Ok, unless the transaction was
\* gone by then and the server said so in a reply that is a success.
AtMostOnce ==
  \A c \in Caller :
    /\ effect[c] <= 1
    /\ pc[c] = "ok" => effect[c] = IF err[c] = "gone" THEN 0 ELSE 1

\* A unit that failed with anything but an unanswered commit, a conflict after
\* the last retry or a dropped guard included, never takes effect ("the last
\* error, transaction rolled back", transaction.rs).
NoEffectOnError ==
  \A c \in Caller : pc[c] = "err" /\ err[c] # "commit" => effect[c] = 0

\* One retry for every other client is enough: without faults the runners all
\* succeed ("self-healing under concurrent writers", transaction.rs).
EnoughRetries ==
  txFaults = 0 /\ Retries + 1 >= Cardinality(Caller) => \A c \in Runner : pc[c] # "err"
=============================================================================
