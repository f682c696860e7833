------------------------------- MODULE TestPool -------------------------------
(***************************************************************************)
(* The pool of test databases of arcadedb-protocol (testutil.rs) and how   *)
(* its clients connect (connect_with in client/mod.rs, with                *)
(* open_or_create).  Test processes on one host share a server; the tasks  *)
(* of a process share a pool, check databases out of it and return them.   *)
(* A process may die at any point and leave its databases behind, for the  *)
(* sweep that the first checkout of another process makes.                 *)
(*                                                                         *)
(* Data.  A database is absent, empty or written to: what matters is that  *)
(* the seed step finds it empty.  The pool of a process hands out slots;   *)
(* with its owner token a slot is the name of a database.                  *)
(***************************************************************************)
EXTENDS Integers, FiniteSets

CONSTANTS
  Process,     \* owner tokens: a process that is started again has a new one
  Task,        \* tasks
  TasksOf,     \* TasksOf[p]: the tasks of process p that use the pool
  Size,        \* size of the pool
  NoSlot,
  MaxTroubles  \* bound: failed requests and dropped checkouts, together

Slot == 1..Size

ASSUME PoolAssumption ==
  /\ IsFiniteSet(Process) /\ IsFiniteSet(Task)
  /\ TasksOf \in [Process -> SUBSET Task]
  /\ Size \in Nat \ {0}      \* build panics on an empty pool
  /\ NoSlot \notin Slot
  /\ MaxTroubles \in Nat

VARIABLES
  \* the server
  boot,        \* the bootstrap database is there
  db,          \* db[p][s]: "absent", "empty" or "written"
  \* the processes
  up,          \* up[p]: "new", "up" or "dead"
  swept,       \* swept[p]: the sweep of p has begun
  stale,       \* stale[p]: databases the sweep of p still looks at
  permits,     \* permits[p]: permits of the semaphore that are free
  free,        \* free[p]: slots in the list
  \* the tasks
  stage,       \* stage[p][t]: where a task is
  slot,        \* slot[p][t]: the slot of a task
  poolFaults, cancels

poolServer == <<boot, db>>
pool == <<permits, free>>
poolVars == <<poolServer, up, swept, stale, pool, stage, slot, poolFaults, cancels>>

Label == {"idle", "sweep", "acquire", "pop", "connect", "openCreate", "drop",
          "create", "seed", "using", "unwind", "release", "releaseErr", "failed"}

PoolTypeOK ==
  /\ boot \in BOOLEAN
  /\ db \in [Process -> [Slot -> {"absent", "empty", "written"}]]
  /\ up \in [Process -> {"new", "up", "dead"}]
  /\ swept \in [Process -> BOOLEAN]
  /\ stale \in [Process -> SUBSET (Process \X Slot)]
  /\ permits \in [Process -> 0..Size]
  /\ free \in [Process -> SUBSET Slot]
  /\ stage \in [Process -> [Task -> Label]]
  /\ slot \in [Process -> [Task -> Slot \cup {NoSlot}]]
  /\ poolFaults \in 0..MaxTroubles /\ cancels \in 0..MaxTroubles

PoolInit ==
  /\ boot = FALSE
  /\ db = [p \in Process |-> [s \in Slot |-> "absent"]]
  /\ up = [p \in Process |-> "new"]
  /\ swept = [p \in Process |-> FALSE]
  /\ stale = [p \in Process |-> {}]
  /\ permits = [p \in Process |-> Size]
  /\ free = [p \in Process |-> Slot]
  /\ stage = [p \in Process |-> [t \in Task |-> "idle"]]
  /\ slot = [p \in Process |-> [t \in Task |-> NoSlot]]
  /\ poolFaults = 0 /\ cancels = 0

TaskAt(p, t, l) == up[p] = "up" /\ stage[p][t] = l
TaskGoto(p, t, l) == stage' = [stage EXCEPT ![p][t] = l]
Troubled == poolFaults + cancels < MaxTroubles
SetDb(p, s, v) == db' = [db EXCEPT ![p][s] = v]

----------------------------------------------------------------------------
(* Processes, and the sweep *)

Launch(p) ==
  /\ up[p] = "new" /\ up' = [up EXCEPT ![p] = "up"]
  /\ UNCHANGED <<poolServer, swept, stale, pool, stage, slot, poolFaults, cancels>>

\* A process that died has lost its memory, and is never started again.
Die(p) ==
  /\ up[p] = "up" /\ up' = [up EXCEPT ![p] = "dead"]
  /\ stale' = [stale EXCEPT ![p] = {}]
  /\ permits' = [permits EXCEPT ![p] = Size]
  /\ free' = [free EXCEPT ![p] = Slot]
  /\ stage' = [stage EXCEPT ![p] = [t \in Task |-> "idle"]]
  /\ slot' = [slot EXCEPT ![p] = [t \in Task |-> NoSlot]]
  /\ UNCHANGED <<poolServer, swept, poolFaults, cancels>>

\* sweep_stale_once: the first checkout sweeps, the others go on.
Checkout(p, t) ==
  /\ TaskAt(p, t, "idle")
  /\ swept' = [swept EXCEPT ![p] = TRUE]
  /\ IF swept[p]
       THEN TaskGoto(p, t, "acquire") /\ UNCHANGED stale
       ELSE /\ TaskGoto(p, t, "sweep")
            /\ stale' = [stale EXCEPT ![p] =
                           {x \in Process \X Slot : db[x[1]][x[2]] # "absent"}]
  /\ UNCHANGED <<poolServer, up, pool, slot, poolFaults, cancels>>

\* Mutant: any other process is taken for dead.
DeadOwner_others(p, q) == q # p

\* dead_owner_pid: /proc has no such process, and it is not this one.
DeadOwner(p, q) == q # p /\ up[q] # "up"

Sweep(p, t, x) ==
  /\ TaskAt(p, t, "sweep") /\ x \in stale[p]
  /\ stale' = [stale EXCEPT ![p] = @ \ {x}]
  /\ IF DeadOwner(p, x[1]) THEN SetDb(x[1], x[2], "absent") ELSE UNCHANGED db
  /\ UNCHANGED <<boot, up, swept, pool, stage, slot, poolFaults, cancels>>

\* It is over when every database was looked at, or a request failed.
SweepEnds(p, t) ==
  /\ TaskAt(p, t, "sweep")
  /\ \/ stale[p] = {} /\ UNCHANGED poolFaults
     \/ Troubled /\ poolFaults' = poolFaults + 1
  /\ stale' = [stale EXCEPT ![p] = {}]
  /\ TaskGoto(p, t, "acquire")
  /\ UNCHANGED <<poolServer, up, swept, pool, slot, cancels>>

----------------------------------------------------------------------------
(* checkout *)

Acquire(p, t) ==
  /\ TaskAt(p, t, "acquire") /\ permits[p] > 0
  /\ permits' = [permits EXCEPT ![p] = @ - 1]
  /\ TaskGoto(p, t, "pop")
  /\ UNCHANGED <<poolServer, up, swept, stale, free, slot, poolFaults, cancels>>

\* Mutant: the slot stays in the list.
PopSlot_peek(p, t) ==
  /\ TaskAt(p, t, "pop") /\ free[p] # {}
  /\ \E s \in free[p] : slot' = [slot EXCEPT ![p][t] = s]
  /\ TaskGoto(p, t, "connect")
  /\ UNCHANGED <<poolServer, up, swept, stale, pool, poolFaults, cancels>>

PopSlot(p, t) ==
  /\ TaskAt(p, t, "pop") /\ free[p] # {}
  /\ \E s \in free[p] :
       /\ slot' = [slot EXCEPT ![p][t] = s]
       /\ free' = [free EXCEPT ![p] = @ \ {s}]
  /\ TaskGoto(p, t, "connect")
  /\ UNCHANGED <<poolServer, up, swept, stale, permits, poolFaults, cancels>>

\* "Unreachable by construction (one slot per permit)": the checkout fails.
NoSlotFree(p, t) ==
  /\ TaskAt(p, t, "pop") /\ free[p] = {}
  /\ permits' = [permits EXCEPT ![p] = @ + 1]
  /\ TaskGoto(p, t, "failed")
  /\ UNCHANGED <<poolServer, up, swept, stale, free, slot, poolFaults, cancels>>

\* connect_with asks whether the bootstrap database exists.
Connect(p, t) ==
  /\ TaskAt(p, t, "connect")
  /\ TaskGoto(p, t, IF boot THEN "drop" ELSE "openCreate")
  /\ UNCHANGED <<poolServer, up, swept, stale, pool, slot, poolFaults, cancels>>

\* Mutant: a database that is there by now is an error.
OpenCreate_once(p, t) ==
  /\ TaskAt(p, t, "openCreate")
  /\ boot' = TRUE
  /\ TaskGoto(p, t, IF boot THEN "unwind" ELSE "drop")
  /\ UNCHANGED <<db, up, swept, stale, pool, slot, poolFaults, cancels>>

\* It creates it; AlreadyExists is as good.
OpenCreate(p, t) ==
  /\ TaskAt(p, t, "openCreate")
  /\ boot' = TRUE
  /\ TaskGoto(p, t, "drop")
  /\ UNCHANGED <<db, up, swept, stale, pool, slot, poolFaults, cancels>>

DropDb(p, t) ==
  /\ TaskAt(p, t, "drop")
  /\ SetDb(p, slot[p][t], "absent")
  /\ TaskGoto(p, t, "create")
  /\ UNCHANGED <<boot, up, swept, stale, pool, slot, poolFaults, cancels>>

\* The error of a failed drop is ignored.
DropFails(p, t) ==
  /\ TaskAt(p, t, "drop") /\ Troubled /\ poolFaults' = poolFaults + 1
  /\ TaskGoto(p, t, "create")
  /\ UNCHANGED <<poolServer, up, swept, stale, pool, slot, cancels>>

\* AlreadyExists is tolerated here too.
CreateDb(p, t) ==
  /\ TaskAt(p, t, "create")
  /\ IF db[p][slot[p][t]] = "absent" THEN SetDb(p, slot[p][t], "empty") ELSE UNCHANGED db
  /\ TaskGoto(p, t, "seed")
  /\ UNCHANGED <<boot, up, swept, stale, pool, slot, poolFaults, cancels>>

\* The fresh client, the seed, and the guard is handed out.
Seed(p, t) ==
  /\ TaskAt(p, t, "seed")
  /\ SetDb(p, slot[p][t], "written")
  /\ TaskGoto(p, t, "using")
  /\ UNCHANGED <<boot, up, swept, stale, pool, slot, poolFaults, cancels>>

\* A request fails; a failed seed may have written.
RequestFails(p, t) ==
  /\ \E l \in {"connect", "openCreate", "create", "seed"} : TaskAt(p, t, l)
  /\ Troubled /\ poolFaults' = poolFaults + 1
  /\ \/ UNCHANGED db
     \/ TaskAt(p, t, "seed") /\ SetDb(p, slot[p][t], "written")
  /\ TaskGoto(p, t, "unwind")
  /\ UNCHANGED <<boot, up, swept, stale, pool, slot, cancels>>

\* release_slot, from the guard's Drop or on an error path of checkout.
PushSlot(p, t) ==
  /\ TaskAt(p, t, "using") \/ TaskAt(p, t, "unwind")
  /\ free' = [free EXCEPT ![p] = @ \cup {slot[p][t]}]
  /\ slot' = [slot EXCEPT ![p][t] = NoSlot]
  /\ TaskGoto(p, t, IF stage[p][t] = "using" THEN "release" ELSE "releaseErr")
  /\ UNCHANGED <<poolServer, up, swept, stale, permits, poolFaults, cancels>>

\* The permit goes last: the field is declared last, the local dropped last.
Release(p, t) ==
  /\ TaskAt(p, t, "release") \/ TaskAt(p, t, "releaseErr")
  /\ permits' = [permits EXCEPT ![p] = @ + 1]
  /\ TaskGoto(p, t, IF stage[p][t] = "release" THEN "idle" ELSE "failed")
  /\ UNCHANGED <<poolServer, up, swept, stale, free, slot, poolFaults, cancels>>

\* The caller drops the future of checkout while it waits for the server: the
\* permit is given back, and the slot, a number in the future, is lost.
CancelCheckout(p, t) ==
  /\ \E l \in {"connect", "openCreate", "drop", "create", "seed"} : TaskAt(p, t, l)
  /\ Troubled /\ cancels' = cancels + 1
  /\ permits' = [permits EXCEPT ![p] = @ + 1]
  /\ slot' = [slot EXCEPT ![p][t] = NoSlot]
  /\ TaskGoto(p, t, "idle")
  /\ UNCHANGED <<poolServer, up, swept, stale, free, poolFaults>>

\* Dropped before it has a slot, it loses nothing but what is left to sweep.
CancelEarly(p, t) ==
  /\ TaskAt(p, t, "sweep") \/ TaskAt(p, t, "acquire")
  /\ Troubled /\ cancels' = cancels + 1
  /\ stale' = [stale EXCEPT ![p] = IF stage[p][t] = "sweep" THEN {} ELSE @]
  /\ TaskGoto(p, t, "idle")
  /\ UNCHANGED <<poolServer, up, swept, pool, slot, poolFaults>>

\* The caller got the error, and may try again.
GiveUp(p, t) ==
  /\ TaskAt(p, t, "failed") /\ TaskGoto(p, t, "idle")
  /\ UNCHANGED <<poolServer, up, swept, stale, pool, slot, poolFaults, cancels>>

TaskNext(p, t) ==
  \/ Checkout(p, t) \/ SweepEnds(p, t) \/ \E x \in stale[p] : Sweep(p, t, x)
  \/ Acquire(p, t) \/ PopSlot(p, t) \/ NoSlotFree(p, t)
  \/ Connect(p, t) \/ OpenCreate(p, t) \/ DropDb(p, t) \/ DropFails(p, t)
  \/ CreateDb(p, t) \/ Seed(p, t) \/ RequestFails(p, t)
  \/ PushSlot(p, t) \/ Release(p, t)
  \/ CancelCheckout(p, t) \/ CancelEarly(p, t) \/ GiveUp(p, t)

PoolNext == \E p \in Process : Launch(p) \/ Die(p) \/ \E t \in TasksOf[p] : TaskNext(p, t)

PoolSpec == PoolInit /\ [][PoolNext]_poolVars

----------------------------------------------------------------------------
(* Properties *)

Holding == {"connect", "openCreate", "drop", "create", "seed", "using", "unwind"}

HoldsSlot(p, t, s) == up[p] = "up" /\ stage[p][t] \in Holding /\ slot[p][t] = s

\* "Each checkout gets exclusive use of one slot" (testutil.rs:174), through
\* every order of checkouts, returns, errors and dropped futures: two tasks of
\* a process never hold one slot, and no slot is held and free at once.
Exclusive ==
  \A p \in Process, s \in Slot :
    /\ \A t, u \in Task : HoldsSlot(p, t, s) /\ HoldsSlot(p, u, s) => t = u
    /\ \A t \in Task : HoldsSlot(p, t, s) => s \notin free[p]

\* A checkout fails only when a request failed, or an earlier checkout was
\* dropped: who holds a permit finds a slot (the comment at testutil.rs:232),
\* and a bootstrap database that another client created first is no error.
CheckoutSucceeds ==
  poolFaults = 0 /\ cancels = 0 =>
    \A p \in Process, t \in Task : stage[p][t] \notin {"unwind", "releaseErr", "failed"}

\* "recreated + seeded, exclusively ours" (testutil.rs:40), with other
\* processes starting, sweeping and dying in between: the seed step finds an
\* empty database and its user finds what it wrote.  A drop that failed is
\* ignored, so that this is promised only while no request failed.
FreshDatabases ==
  poolFaults = 0 =>
    \A p \in Process, t \in Task :
      /\ TaskAt(p, t, "seed") => db[p][slot[p][t]] = "empty"
      /\ TaskAt(p, t, "using") => db[p][slot[p][t]] = "written"
=============================================================================
