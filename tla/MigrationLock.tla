---------------------------- MODULE MigrationLock ----------------------------
(***************************************************************************)
(* The advisory migration lock of arcadedb-migrate: one row of             *)
(* schema_migrate_lock, claimed with a lease around every sync_dir and     *)
(* apply_rollout (schema/revisions/lock.rs, migrator/mod.rs,               *)
(* migrator/rollout.rs).                                                   *)
(*                                                                         *)
(* A Runner is one task that calls sync_dir (or apply_rollout); HolderOf   *)
(* is the holder id of the Migrator it calls it on.  Acquiring is two      *)
(* separate RPCs, a SELECT and then an INSERT or an UPDATE, so another     *)
(* runner may act between them; each RPC may be lost, may be executed with *)
(* its reply lost, and its sender may crash while it is in flight.         *)
(*                                                                         *)
(* Time.  The code stores expires_ms = the client's clock + LOCK_LEASE_MS. *)
(* This module stores instead the time an expiry stamp has left, counted   *)
(* down by Tick, so that time is unbounded and the state space finite.     *)
(* Client clocks run at most MaxAhead ticks ahead of the slowest one:      *)
(* runner r sees a stamp as expired once it has Ahead[r] or less left, and *)
(* a stamp r writes has Lease + Ahead[r] left.                             *)
(***************************************************************************)
EXTENDS Integers

CONSTANTS
  Runner,      \* the tasks that run migrations
  Holder,      \* holder ids, one per Migrator instance
  HolderOf,    \* the Migrator each runner uses
  NoHolder,    \* stands for an absent lock row
  Lease,       \* LOCK_LEASE_MS, in ticks
  Ahead,       \* how far each runner's clock is ahead
  MaxAhead,    \* bound on the clock differences ("roughly synchronized")
  MaxClaims    \* bound: claim statements one runner sends

ASSUME LockAssumption ==
  /\ NoHolder \notin Holder
  /\ HolderOf \in [Runner -> Holder]
  /\ Lease \in Nat \ {0}
  /\ MaxAhead \in Nat
  /\ Ahead \in [Runner -> 0..MaxAhead]
  /\ MaxClaims \in Nat

VARIABLES
  row,      \* the lock row: its holder and the time its stamp has left
  seen,     \* seen[r]: the row as r's SELECT returned it
  stamp,    \* stamp[r]: time left of the expiry r last put in a claim
  phase,    \* phase[r]: where r is in acquire / run / release
  up,       \* up[r]: r's process has not crashed
  claims    \* claims[r]: claim statements r has sent

lockVars == <<row, seen, stamp, phase, up, claims>>

Row == [holder : Holder \cup {NoHolder}, left : Nat]
NoRow == [holder |-> NoHolder, left |-> 0]

LockTypeOK ==
  /\ row \in Row
  /\ seen \in [Runner -> Row]
  /\ stamp \in [Runner -> Nat]
  /\ phase \in [Runner -> {"idle", "deciding", "claiming", "working", "releasing"}]
  /\ up \in [Runner -> BOOLEAN]
  /\ claims \in [Runner -> 0..MaxClaims]

LockInit ==
  /\ row = NoRow
  /\ seen = [r \in Runner |-> NoRow]
  /\ stamp = [r \in Runner |-> 0]
  /\ phase = [r \in Runner |-> "idle"]
  /\ up = [r \in Runner |-> TRUE]
  /\ claims = [r \in Runner |-> 0]

----------------------------------------------------------------------------
(* acquire_lock *)

\* Mutants: the expiry test is missing; it takes a running lease for expired.
Held_forever(r) == seen[r].holder \notin {NoHolder, HolderOf[r]}
Held_early(r) ==
  /\ seen[r].holder \notin {NoHolder, HolderOf[r]}
  /\ seen[r].left > Ahead[r] + 1

\* decide: a foreign lease that has not expired by the reader's own clock.
Held(r) ==
  /\ seen[r].holder \notin {NoHolder, HolderOf[r]}
  /\ seen[r].left > Ahead[r]

\* The SELECT of acquire_lock, executed and answered.
ReadLock(r) ==
  /\ phase[r] = "idle" /\ up[r] /\ claims[r] < MaxClaims
  /\ seen' = [seen EXCEPT ![r] = row]
  /\ phase' = [phase EXCEPT ![r] = "deciding"]
  /\ UNCHANGED <<row, stamp, up, claims>>

\* Claim::Held: the run ends with a Lock error.
RefuseClaim(r) ==
  /\ phase[r] = "deciding" /\ Held(r)
  /\ phase' = [phase EXCEPT ![r] = "idle"]
  /\ UNCHANGED <<row, seen, stamp, up, claims>>

\* Claim::Insert or Claim::Cas: the stamp is fixed and the statement sent.
SendClaim(r) ==
  /\ phase[r] = "deciding" /\ ~Held(r)
  /\ stamp' = [stamp EXCEPT ![r] = Lease + Ahead[r]]
  /\ claims' = [claims EXCEPT ![r] = @ + 1]
  /\ phase' = [phase EXCEPT ![r] = "claiming"]
  /\ UNCHANGED <<row, seen, up>>

\* Mutant: the UPDATE matches any holder.
ClaimTakes_anyHolder(r) ==
  (row.holder = NoHolder) = (seen[r].holder = NoHolder)

\* INSERT is backstopped by the UNIQUE index on key and UPDATE matches on the
\* holder that was read: either takes effect iff the row still has the holder
\* (or the absence of one) that the SELECT saw.
ClaimTakes(r) == row.holder = seen[r].holder

\* The server executes the claim; the runner works only if the reply reaches
\* it.  An affected count of 0 and a duplicate-key error both end the run.
ExecClaim(r) ==
  /\ phase[r] = "claiming"
  /\ \/ /\ ClaimTakes(r)
        /\ row' = [holder |-> HolderOf[r], left |-> stamp[r]]
        /\ \/ up[r] /\ phase' = [phase EXCEPT ![r] = "working"]
           \/ phase' = [phase EXCEPT ![r] = "idle"]
     \/ /\ ~ClaimTakes(r)
        /\ phase' = [phase EXCEPT ![r] = "idle"]
        /\ UNCHANGED row
  /\ UNCHANGED <<seen, stamp, up, claims>>

----------------------------------------------------------------------------
(* The run, release_lock, and what the environment does *)

\* sync_dir_inner or apply_rollout_inner returns, with or without an error.
FinishRun(r) ==
  /\ phase[r] = "working" /\ up[r]
  /\ phase' = [phase EXCEPT ![r] = "releasing"]
  /\ UNCHANGED <<row, seen, stamp, up, claims>>

\* DELETE ... WHERE holder = me; its result is ignored by the caller.
ExecRelease(r) ==
  /\ phase[r] = "releasing"
  /\ row' = IF row.holder = HolderOf[r] THEN NoRow ELSE row
  /\ phase' = [phase EXCEPT ![r] = "idle"]
  /\ UNCHANGED <<seen, stamp, up, claims>>

\* A claim or release that never reaches the server.
LoseRequest(r) ==
  /\ phase[r] \in {"claiming", "releasing"}
  /\ phase' = [phase EXCEPT ![r] = "idle"]
  /\ UNCHANGED <<row, seen, stamp, up, claims>>

\* The process dies; a statement it has in flight may still be executed.
Crash(r) ==
  /\ up[r] /\ phase[r] # "idle"
  /\ up' = [up EXCEPT ![r] = FALSE]
  /\ phase' = [phase EXCEPT ![r] = IF @ \in {"claiming", "releasing"} THEN @ ELSE "idle"]
  /\ UNCHANGED <<row, seen, stamp, claims>>

Dec(n) == IF n = 0 THEN 0 ELSE n - 1

\* One tick of real time.
Tick ==
  /\ row' = [row EXCEPT !.left = Dec(@)]
  /\ seen' = [r \in Runner |-> [seen[r] EXCEPT !.left = Dec(@)]]
  /\ stamp' = [r \in Runner |-> Dec(stamp[r])]
  /\ UNCHANGED <<phase, up, claims>>

RunnerStep(r) ==
  \/ ReadLock(r) \/ RefuseClaim(r) \/ SendClaim(r) \/ ExecClaim(r)
  \/ FinishRun(r) \/ ExecRelease(r) \/ LoseRequest(r) \/ Crash(r)

\* What happens unless something fails.
Served(r) ==
  ReadLock(r) \/ RefuseClaim(r) \/ SendClaim(r) \/ ExecClaim(r) \/ FinishRun(r) \/ ExecRelease(r)

LockNext == Tick \/ \E r \in Runner : RunnerStep(r)

LockSpec == LockInit /\ [][LockNext]_lockVars

\* Time passes, clients and the server keep going, and a migration job that was
\* refused is started again; nothing obliges a request to be lost or a process
\* to crash.
LockFairness ==
  /\ WF_lockVars(Tick)
  /\ \A r \in Runner : WF_lockVars(Served(r))

LockFairSpec == LockSpec /\ LockFairness

----------------------------------------------------------------------------
(* Properties *)

\* How the binary uses the library: one Migrator per process, and one claim per
\* Migrator, so that a holder id never comes back.
OneShot ==
  /\ MaxClaims = 1
  /\ \A r, q \in Runner : HolderOf[r] = HolderOf[q] => r = q

\* r is migrating and even the fastest clock sees its lease as running.
LiveRun(r) == phase[r] = "working" /\ stamp[r] > MaxAhead

\* Two runs never work at the same time while the leases of both are running:
\* "two concurrent migrators cannot interleave DDL" (lock.rs), up to the lease.
AtMostOneLiveRun == \A r, q \in Runner : LiveRun(r) /\ LiveRun(q) => r = q

\* A run whose lease is running still owns the row: nothing another runner does
\* between acquire_lock and release_lock takes the lock away from it.
LiveRunOwnsRow == \A r \in Runner : LiveRun(r) => row.holder = HolderOf[r]

\* A claim that every clock sees as running is never overwritten by another
\* holder, and only its own holder's release deletes it ("matching on its
\* CURRENT holder so a concurrent fresh claim can't be clobbered").
FreshClaimKept ==
  [][row.holder # NoHolder /\ row.left > MaxAhead =>
       \/ row'.holder = row.holder
       \/ /\ row' = NoRow
          /\ \E r \in Runner : HolderOf[r] = row.holder /\ phase[r] = "releasing"]_lockVars

\* A row left behind by a crashed runner does not block migrations for ever: it
\* is taken over, unless no other runner is left that could claim it.
CrashedLockTakenOver ==
  \A r \in Runner :
    row.holder = HolderOf[r] /\ ~up[r]
      ~> \/ row.holder # HolderOf[r]
         \/ \A q \in Runner \ {r} : ~up[q] \/ claims[q] = MaxClaims
=============================================================================
