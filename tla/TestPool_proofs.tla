---------------------------- MODULE TestPool_proofs ----------------------------
(***************************************************************************)
(* The pool hands every slot to one task at a time, its seed steps find    *)
(* empty databases, and a checkout fails only after a fault, for any       *)
(* processes, tasks and size of the pool.                                  *)
(*                                                                         *)
(* The argument has two parts.  Slots and permits are conserved: a permit  *)
(* is free or with a task between acquire and release, a slot is free or   *)
(* with a task that holds it, and a task gets its permit before and gives  *)
(* it back after its slot.  The database of a slot is touched by the task  *)
(* that holds it, or by a sweep after its process has died.                *)
(***************************************************************************)
EXTENDS TestPool, FiniteSetTheorems, TLAPS

\* Labels of a task that has a permit.
Permitted == Holding \cup {"pop", "release", "releaseErr"}

\* The types, with permits only a number: that they stay within Size follows later.
PType ==
  /\ boot \in BOOLEAN
  /\ db \in [Process -> [Slot -> {"absent", "empty", "written"}]]
  /\ up \in [Process -> {"new", "up", "dead"}]
  /\ swept \in [Process -> BOOLEAN]
  /\ stale \in [Process -> SUBSET (Process \X Slot)]
  /\ permits \in [Process -> Nat]
  /\ free \in [Process -> SUBSET Slot]
  /\ stage \in [Process -> [Task -> Label]]
  /\ slot \in [Process -> [Task -> Slot \cup {NoSlot}]]
  /\ poolFaults \in 0..MaxTroubles /\ cancels \in 0..MaxTroubles

Quiet == \A p \in Process : up[p] # "up" => \A t \in Task : stage[p][t] = "idle"

SlotInv ==
  \A p \in Process, t \in Task :
    /\ stage[p][t] \in Holding <=> slot[p][t] # NoSlot
    /\ slot[p][t] # NoSlot => slot[p][t] \notin free[p]
    /\ \A u \in Task : slot[p][t] # NoSlot /\ slot[p][u] = slot[p][t] => u = t

PInv == PType /\ Quiet /\ SlotInv

\* What the database of a slot is while a task is at work on it.
DbInv ==
  poolFaults = 0 =>
    \A p \in Process, t \in Task :
      /\ stage[p][t] = "create" => db[p][slot[p][t]] = "absent"
      /\ stage[p][t] = "seed" => db[p][slot[p][t]] = "empty"
      /\ stage[p][t] = "using" => db[p][slot[p][t]] = "written"

----------------------------------------------------------------------------
(* Types, quiet processes and slots *)

\* The actions of a task that keep its slot and its permit, or that it has neither of.
Steady(p, t) ==
  \/ Checkout(p, t) \/ SweepEnds(p, t) \/ \E x \in stale[p] : Sweep(p, t, x)
  \/ Connect(p, t) \/ OpenCreate(p, t) \/ DropDb(p, t) \/ DropFails(p, t)
  \/ CreateDb(p, t) \/ Seed(p, t) \/ RequestFails(p, t) \/ CancelEarly(p, t) \/ GiveUp(p, t)

\* A task goes from one label to another that says the same of its slot and permit.
Walks(p, t) ==
  \E l \in Label : /\ stage' = [stage EXCEPT ![p][t] = l]
                   /\ l \in Holding <=> stage[p][t] \in Holding
                   /\ l \in Permitted <=> stage[p][t] \in Permitted

LEMMA SteadyWalks ==
  ASSUME PType, NEW p \in Process, NEW t \in Task, Steady(p, t)
  PROVE  /\ Walks(p, t) /\ up[p] = "up"
         /\ UNCHANGED <<up, permits, free, slot>>
<1> USE DEF pool, TaskGoto, TaskAt, Label, Holding, Permitted, Walks
<1>1. CASE Checkout(p, t)
  BY <1>1 DEF Checkout
<1>2. CASE SweepEnds(p, t)
  BY <1>2 DEF SweepEnds
<1>3. CASE \E x \in stale[p] : Sweep(p, t, x)
  <2>1. stage[p][t] = "sweep" /\ stage' = stage
    BY <1>3 DEF Sweep
  <2>2. stage = [stage EXCEPT ![p][t] = stage[p][t]]
    BY DEF PType
  <2> QED
    BY <1>3, <2>1, <2>2 DEF Sweep
<1>4. CASE Connect(p, t)
  BY <1>4 DEF Connect
<1>5. CASE OpenCreate(p, t)
  BY <1>5 DEF OpenCreate
<1>6. CASE DropDb(p, t) \/ DropFails(p, t)
  BY <1>6 DEF DropDb, DropFails
<1>7. CASE CreateDb(p, t) \/ Seed(p, t)
  BY <1>7 DEF CreateDb, Seed
<1>8. CASE RequestFails(p, t)
  BY <1>8 DEF RequestFails
<1>9. CASE CancelEarly(p, t)
  BY <1>9 DEF CancelEarly
<1>10. CASE GiveUp(p, t)
  BY <1>10 DEF GiveUp
<1> QED
  BY <1>1, <1>2, <1>3, <1>4, <1>5, <1>6, <1>7, <1>8, <1>9, <1>10 DEF Steady

\* The database, the sweep and the counters of a step of a task.
LEMMA TaskTypes ==
  ASSUME PType, NEW p \in Process, NEW t \in Task, TaskNext(p, t)
  PROVE  /\ boot' \in BOOLEAN
         /\ db' \in [Process -> [Slot -> {"absent", "empty", "written"}]]
         /\ swept' \in [Process -> BOOLEAN]
         /\ stale' \in [Process -> SUBSET (Process \X Slot)]
         /\ poolFaults' \in 0..MaxTroubles /\ cancels' \in 0..MaxTroubles
         /\ up' = up
<1> USE PoolAssumption DEF PType, poolServer
<1>1. boot' \in BOOLEAN /\ up' = up /\ swept' \in [Process -> BOOLEAN]
  BY DEF TaskNext, Checkout, SweepEnds, Sweep, Acquire, PopSlot, NoSlotFree, Connect, OpenCreate,
         DropDb, DropFails, CreateDb, Seed, RequestFails, PushSlot, Release, CancelCheckout,
         CancelEarly, GiveUp
<1>2. poolFaults' \in 0..MaxTroubles /\ cancels' \in 0..MaxTroubles
  BY DEF TaskNext, Checkout, SweepEnds, Sweep, Acquire, PopSlot, NoSlotFree, Connect, OpenCreate,
         DropDb, DropFails, CreateDb, Seed, RequestFails, PushSlot, Release, CancelCheckout,
         CancelEarly, GiveUp, Troubled
<1>3. stale' \in [Process -> SUBSET (Process \X Slot)]
  <2>1. CASE Checkout(p, t)
    <3>1. {x \in Process \X Slot : db[x[1]][x[2]] # "absent"} \in SUBSET (Process \X Slot)
      OBVIOUS
    <3>2. \E S \in SUBSET (Process \X Slot) : stale' = stale \/ stale' = [stale EXCEPT ![p] = S]
      BY <2>1, <3>1 DEF Checkout
    <3> QED
      BY <3>2
  <2>2. CASE SweepEnds(p, t) \/ CancelEarly(p, t)
    BY <2>2 DEF SweepEnds, CancelEarly
  <2>3. CASE \E x \in stale[p] : Sweep(p, t, x)
    <3>1. PICK x \in stale[p] : stale' = [stale EXCEPT ![p] = @ \ {x}]
      BY <2>3 DEF Sweep
    <3>2. stale[p] \ {x} \in SUBSET (Process \X Slot)
      OBVIOUS
    <3> QED
      BY <3>1, <3>2
  <2>4. CASE UNCHANGED stale
    BY <2>4
  <2> QED
    BY <2>1, <2>2, <2>3, <2>4
    DEF TaskNext, Acquire, PopSlot, NoSlotFree, Connect, OpenCreate, DropDb, DropFails, CreateDb,
        Seed, RequestFails, PushSlot, Release, CancelCheckout, GiveUp
<1>4. db' \in [Process -> [Slot -> {"absent", "empty", "written"}]]
  <2>1. ASSUME NEW q \in Process, NEW s, NEW v \in {"absent", "empty", "written"}, SetDb(q, s, v)
        PROVE  db' \in [Process -> [Slot -> {"absent", "empty", "written"}]]
    BY <2>1 DEF SetDb
  <2>2. CASE \E x \in stale[p] : Sweep(p, t, x)
    <3>1. PICK x \in stale[p] : Sweep(p, t, x)
      BY <2>2
    <3>2. x[1] \in Process
      OBVIOUS
    <3> QED
      BY <2>1, <3>1, <3>2 DEF Sweep
  <2>3. CASE DropDb(p, t)
    BY <2>1, <2>3 DEF DropDb
  <2>4. CASE CreateDb(p, t)
    BY <2>1, <2>4 DEF CreateDb
  <2>5. CASE Seed(p, t)
    BY <2>1, <2>5 DEF Seed
  <2>6. CASE RequestFails(p, t)
    BY <2>1, <2>6 DEF RequestFails
  <2>7. CASE UNCHANGED db
    BY <2>7
  <2> QED
    BY <2>2, <2>3, <2>4, <2>5, <2>6, <2>7
    DEF TaskNext, Checkout, SweepEnds, Acquire, PopSlot, NoSlotFree, Connect, OpenCreate, DropFails,
        PushSlot, Release, CancelCheckout, CancelEarly, GiveUp
<1> QED
  BY <1>1, <1>2, <1>3, <1>4

\* A task that walks, while slots and permits stay, keeps who holds what.
LEMMA WalkKeeps ==
  ASSUME PInv, NEW p \in Process, NEW t \in Task, Walks(p, t), up[p] = "up",
         UNCHANGED <<up, permits, free, slot>>
  PROVE  /\ stage' \in [Process -> [Task -> Label]] /\ Quiet' /\ SlotInv'
<1>1. PICK l \in Label : /\ stage' = [stage EXCEPT ![p][t] = l]
                         /\ l \in Holding <=> stage[p][t] \in Holding
  BY DEF Walks
<1>2. stage' \in [Process -> [Task -> Label]]
  BY <1>1 DEF PInv, PType
<1>3. \A q \in Process, u \in Task : stage'[q][u] = IF q = p /\ u = t THEN l ELSE stage[q][u]
  BY <1>1 DEF PInv, PType
<1>4. Quiet'
  BY <1>3 DEF PInv, Quiet
<1>5. SlotInv'
  BY <1>1, <1>3 DEF PInv, SlotInv
<1> QED
  BY <1>2, <1>4, <1>5

\* The actions that move a permit or a slot.
Moves(p, t) ==
  Acquire(p, t) \/ PopSlot(p, t) \/ NoSlotFree(p, t) \/ PushSlot(p, t) \/ Release(p, t) \/ CancelCheckout(p, t)

LEMMA MoveKeeps ==
  ASSUME PInv, NEW p \in Process, NEW t \in Task, Moves(p, t)
  PROVE  /\ permits' \in [Process -> Nat] /\ free' \in [Process -> SUBSET Slot]
         /\ stage' \in [Process -> [Task -> Label]]
         /\ slot' \in [Process -> [Task -> Slot \cup {NoSlot}]]
         /\ Quiet' /\ SlotInv'
<1> USE PoolAssumption DEF PInv, PType, pool, TaskGoto, TaskAt, Label
<1>0. up[p] = "up" /\ up' = up
  BY DEF Moves, Acquire, PopSlot, NoSlotFree, PushSlot, Release, CancelCheckout
<1>1. \E l \in Label : stage' = [stage EXCEPT ![p][t] = l]
  BY DEF Moves, Acquire, PopSlot, NoSlotFree, PushSlot, Release, CancelCheckout
<1>2. stage' \in [Process -> [Task -> Label]] /\ Quiet'
  BY <1>0, <1>1 DEF Quiet
<1>3. CASE Acquire(p, t) \/ NoSlotFree(p, t) \/ Release(p, t)
  <2>1. UNCHANGED <<free, slot>> /\ permits' \in [Process -> Nat]
    BY <1>3 DEF Acquire, NoSlotFree, Release
  <2>2. stage[p][t] \notin Holding /\ stage'[p][t] \notin Holding
    BY <1>3 DEF Acquire, NoSlotFree, Release, Holding
  <2>3. \A q \in Process, u \in Task : ~(q = p /\ u = t) => stage'[q][u] = stage[q][u]
    BY <1>1
  <2> HIDE DEF PType
  <2>4. SlotInv'
    <3>1. \A q \in Process, u \in Task : stage'[q][u] \in Holding <=> stage[q][u] \in Holding
      BY <2>2, <2>3
    <3> QED
      BY <2>1, <3>1 DEF SlotInv
  <2> QED
    BY <1>2, <2>1, <2>4 DEF PType
<1>4. CASE PopSlot(p, t)
  <2>1. PICK s \in free[p] : slot' = [slot EXCEPT ![p][t] = s] /\ free' = [free EXCEPT ![p] = @ \ {s}]
    BY <1>4 DEF PopSlot
  <2>2. stage'[p][t] \in Holding /\ s \in Slot /\ s # NoSlot
    BY <1>4 DEF PopSlot, Holding
  <2>3. \A q \in Process, u \in Task : ~(q = p /\ u = t) => stage'[q][u] = stage[q][u] /\ slot'[q][u] = slot[q][u]
    BY <1>1, <2>1
  <2>4. slot'[p][t] = s /\ free'[p] = free[p] \ {s} /\ \A q \in Process \ {p} : free'[q] = free[q]
    BY <2>1
  <2>5. SlotInv'
    BY <2>2, <2>3, <2>4 DEF SlotInv
  <2>6. /\ slot' \in [Process -> [Task -> Slot \cup {NoSlot}]] /\ free' \in [Process -> SUBSET Slot]
        /\ permits' = permits
    BY <1>4, <2>1, <2>2 DEF PopSlot
  <2> QED
    BY <1>2, <2>5, <2>6
<1>5. CASE PushSlot(p, t) \/ CancelCheckout(p, t)
  <2>1. stage[p][t] \in Holding /\ stage'[p][t] \notin Holding
    BY <1>5 DEF PushSlot, CancelCheckout, Holding
  <2>2. slot[p][t] \in Slot /\ slot[p][t] # NoSlot /\ slot' = [slot EXCEPT ![p][t] = NoSlot]
    BY <1>5, <2>1 DEF PushSlot, CancelCheckout, SlotInv
  <2>3. \A q \in Process, u \in Task : ~(q = p /\ u = t) => stage'[q][u] = stage[q][u] /\ slot'[q][u] = slot[q][u]
    BY <1>1, <2>2
  <2>4. /\ slot'[p][t] = NoSlot /\ free'[p] \subseteq free[p] \cup {slot[p][t]}
        /\ \A q \in Process \ {p} : free'[q] = free[q]
    BY <1>5, <2>2 DEF PushSlot, CancelCheckout
  <2>5. SlotInv'
    BY <2>1, <2>2, <2>3, <2>4 DEF SlotInv
  <2>6. /\ slot' \in [Process -> [Task -> Slot \cup {NoSlot}]] /\ free' \in [Process -> SUBSET Slot]
        /\ permits' \in [Process -> Nat]
    <3>1. CASE PushSlot(p, t)
      BY <3>1, <2>2 DEF PushSlot
    <3>2. CASE CancelCheckout(p, t)
      BY <3>2, <2>2 DEF CancelCheckout
    <3> QED
      BY <1>5, <3>1, <3>2
  <2> QED
    BY <1>2, <2>5, <2>6
<1> QED
  BY <1>3, <1>4, <1>5 DEF Moves

LEMMA ProcessKeeps ==
  ASSUME PInv, NEW p \in Process, Launch(p) \/ Die(p)
  PROVE  PInv'
<1> USE PoolAssumption DEF PInv, PType, Quiet, SlotInv, poolServer, pool
<1>1. CASE Launch(p)
  BY <1>1 DEF Launch
<1>2. CASE Die(p)
  <2>1. PType'
    BY <1>2 DEF Die, Label
  <2>2. /\ \A t \in Task : stage'[p][t] = "idle" /\ slot'[p][t] = NoSlot
        /\ \A q \in Process \ {p} : stage'[q] = stage[q] /\ slot'[q] = slot[q] /\ free'[q] = free[q] /\ up'[q] = up[q]
    BY <1>2 DEF Die
  <2>3. Quiet'
    <3> SUFFICES ASSUME NEW q \in Process, up'[q] # "up", NEW t \in Task PROVE stage'[q][t] = "idle"
      OBVIOUS
    <3>1. CASE q = p
      BY <2>2, <3>1
    <3>2. CASE q # p
      BY <2>2, <3>2
    <3> QED
      BY <3>1, <3>2
  <2>4. SlotInv'
    <3> SUFFICES ASSUME NEW q \in Process, NEW t \in Task
                 PROVE  /\ stage'[q][t] \in Holding <=> slot'[q][t] # NoSlot
                        /\ slot'[q][t] # NoSlot => slot'[q][t] \notin free'[q]
                        /\ \A u \in Task : slot'[q][t] # NoSlot /\ slot'[q][u] = slot'[q][t] => u = t
      OBVIOUS
    <3>1. CASE q = p
      BY <2>2, <3>1 DEF Holding
    <3>2. CASE q # p
      BY <2>2, <3>2
    <3> QED
      BY <3>1, <3>2
  <2> QED
    BY <2>1, <2>3, <2>4
<1> QED
  BY <1>1, <1>2

LEMMA PStep == PInv /\ [PoolNext]_poolVars => PInv'
<1> SUFFICES ASSUME PInv, [PoolNext]_poolVars PROVE PInv'
  OBVIOUS
<1>1. ASSUME NEW p \in Process, NEW t \in Task, TaskNext(p, t) PROVE PInv'
  <2>1. CASE Steady(p, t)
    <3>1. Walks(p, t) /\ up[p] = "up" /\ UNCHANGED <<up, permits, free, slot>>
      BY <2>1, SteadyWalks DEF PInv
    <3>2. stage' \in [Process -> [Task -> Label]] /\ Quiet' /\ SlotInv'
      BY <3>1, WalkKeeps
    <3> QED
      BY <1>1, <3>1, <3>2, TaskTypes DEF PInv, PType
  <2>2. CASE Moves(p, t)
    BY <1>1, <2>2, MoveKeeps, TaskTypes DEF PInv, PType
  <2> QED
    BY <1>1, <2>1, <2>2 DEF TaskNext, Steady, Moves
<1>2. CASE UNCHANGED poolVars
  BY <1>2 DEF poolVars, poolServer, pool, PInv, PType, Quiet, SlotInv
<1> QED
  BY <1>1, <1>2, ProcessKeeps, PoolAssumption DEF PoolNext

LEMMA PInit == PoolInit => PInv
<1> SUFFICES ASSUME PoolInit PROVE PInv
  OBVIOUS
<1>1. 0 \in 0..MaxTroubles /\ Size \in Nat
  BY PoolAssumption
<1> QED
  BY <1>1, PoolAssumption DEF PoolInit, PInv, PType, Quiet, SlotInv, Label, Holding

\* Each checkout has its slot to itself, whatever the order of checkouts, returns,
\* errors and dropped futures in the process (TestPool::checkout, release_slot).
THEOREM SlotsAreExclusive == PoolSpec => []Exclusive
<1>1. PInv => Exclusive
  BY PoolAssumption DEF PInv, PType, SlotInv, Exclusive, HoldsSlot
<1> QED
  BY <1>1, PInit, PStep, PTL DEF PoolSpec

----------------------------------------------------------------------------
(* The databases *)

\* A step of a task leaves the databases of the other tasks at work alone.
LEMMA OthersDb ==
  ASSUME PInv, NEW p \in Process, NEW t \in Task, TaskNext(p, t),
         NEW q \in Process, NEW u \in Task, ~(q = p /\ u = t), stage[q][u] \in Holding
  PROVE  /\ stage'[q][u] = stage[q][u] /\ slot'[q][u] = slot[q][u]
         /\ db'[q][slot[q][u]] = db[q][slot[q][u]]
<1> USE PoolAssumption DEF PInv, PType, poolServer
<1>1. stage'[q][u] = stage[q][u]
  BY DEF TaskNext, Checkout, SweepEnds, Sweep, Acquire, PopSlot, NoSlotFree, Connect, OpenCreate,
         DropDb, DropFails, CreateDb, Seed, RequestFails, PushSlot, Release, CancelCheckout,
         CancelEarly, GiveUp, TaskGoto
<1>2. slot'[q][u] = slot[q][u]
  BY DEF TaskNext, Checkout, SweepEnds, Sweep, Acquire, PopSlot, NoSlotFree, Connect, OpenCreate,
         DropDb, DropFails, CreateDb, Seed, RequestFails, PushSlot, Release, CancelCheckout,
         CancelEarly, GiveUp
<1>3. CASE \E x \in stale[p] : Sweep(p, t, x)
  <2>1. PICK x \in stale[p] : Sweep(p, t, x)
    BY <1>3
  <2>2. x[1] \in Process /\ up[q] = "up"
    BY DEF Quiet, Holding
  <2>3. CASE x[1] = q
    <3>1. ~DeadOwner(p, x[1])
      BY <2>2, <2>3 DEF DeadOwner
    <3> QED
      BY <1>1, <1>2, <2>1, <3>1 DEF Sweep
  <2>4. CASE x[1] # q
    BY <1>1, <1>2, <2>1, <2>4 DEF Sweep, SetDb
  <2> QED
    BY <2>3, <2>4
<1>4. CASE \E v \in {"absent", "empty", "written"} : stage[p][t] \in Holding /\ SetDb(p, slot[p][t], v)
  <2>1. q = p => slot[q][u] # slot[p][t]
    BY <1>4 DEF SlotInv
  <2> QED
    BY <1>1, <1>2, <1>4, <2>1 DEF SetDb
<1>5. CASE UNCHANGED db
  BY <1>1, <1>2, <1>5
<1> QED
  BY <1>3, <1>4, <1>5
  DEF TaskNext, Checkout, SweepEnds, Acquire, PopSlot, NoSlotFree, Connect, OpenCreate,
      DropDb, DropFails, CreateDb, Seed, RequestFails, PushSlot, Release, CancelCheckout,
      CancelEarly, GiveUp, TaskAt, Holding

\* The task's own steps, without a fault, make its database absent, empty and written.
LEMMA OwnDb ==
  ASSUME PInv, NEW p \in Process, NEW t \in Task, TaskNext(p, t), poolFaults = 0, poolFaults' = 0,
         stage[p][t] = "create" => db[p][slot[p][t]] = "absent",
         stage[p][t] = "seed" => db[p][slot[p][t]] = "empty",
         stage[p][t] = "using" => db[p][slot[p][t]] = "written"
  PROVE  /\ stage'[p][t] = "create" => db'[p][slot'[p][t]] = "absent"
         /\ stage'[p][t] = "seed" => db'[p][slot'[p][t]] = "empty"
         /\ stage'[p][t] = "using" => db'[p][slot'[p][t]] = "written"
<1> USE PoolAssumption DEF PInv, PType, poolServer, TaskAt, TaskGoto, SetDb
<1>1. CASE DropDb(p, t)
  <2>1. slot[p][t] \in Slot
    BY <1>1 DEF DropDb, SlotInv, Holding
  <2> QED
    BY <1>1, <2>1 DEF DropDb
<1>2. CASE CreateDb(p, t)
  <2>1. slot[p][t] \in Slot
    BY <1>2 DEF CreateDb, SlotInv, Holding
  <2> QED
    BY <1>2, <2>1 DEF CreateDb
<1>3. CASE Seed(p, t)
  <2>1. slot[p][t] \in Slot
    BY <1>3 DEF Seed, SlotInv, Holding
  <2> QED
    BY <1>3, <2>1 DEF Seed
<1>4. CASE \E x \in stale[p] : Sweep(p, t, x)
  BY <1>4 DEF Sweep
<1>5. CASE DropFails(p, t) \/ RequestFails(p, t)
  <2>1. poolFaults' = poolFaults + 1
    BY <1>5 DEF DropFails, RequestFails
  <2> QED
    BY <2>1
<1>6. CASE \/ Checkout(p, t) \/ SweepEnds(p, t) \/ Acquire(p, t) \/ PopSlot(p, t)
           \/ NoSlotFree(p, t) \/ Connect(p, t) \/ OpenCreate(p, t) \/ PushSlot(p, t)
           \/ Release(p, t) \/ CancelCheckout(p, t) \/ CancelEarly(p, t) \/ GiveUp(p, t)
  <2>1. stage'[p][t] \notin {"create", "seed", "using"}
    BY <1>6 DEF Checkout, SweepEnds, Acquire, PopSlot, NoSlotFree, Connect, OpenCreate, PushSlot,
                Release, CancelCheckout, CancelEarly, GiveUp
  <2> QED
    BY <2>1
<1> QED
  BY <1>1, <1>2, <1>3, <1>4, <1>5, <1>6 DEF TaskNext

LEMMA DbStep == ASSUME PInv, DbInv, [PoolNext]_poolVars PROVE DbInv'
<1>1. ASSUME NEW p \in Process, NEW t \in Task, TaskNext(p, t) PROVE DbInv'
  <2> SUFFICES ASSUME poolFaults' = 0, NEW q \in Process, NEW u \in Task
               PROVE  /\ stage'[q][u] = "create" => db'[q][slot'[q][u]] = "absent"
                      /\ stage'[q][u] = "seed" => db'[q][slot'[q][u]] = "empty"
                      /\ stage'[q][u] = "using" => db'[q][slot'[q][u]] = "written"
    BY DEF DbInv
  <2>1. poolFaults = 0
    BY <1>1 DEF TaskNext, Checkout, SweepEnds, Sweep, Acquire, PopSlot, NoSlotFree, Connect, OpenCreate,
         DropDb, DropFails, CreateDb, Seed, RequestFails, PushSlot, Release, CancelCheckout,
         CancelEarly, GiveUp, PInv, PType
  <2>2. CASE q = p /\ u = t
    BY <1>1, <2>1, <2>2, OwnDb DEF DbInv
  <2>3. CASE ~(q = p /\ u = t)
    <3>1. stage'[q][u] = stage[q][u]
      BY <1>1, <2>3 DEF TaskNext, Checkout, SweepEnds, Sweep, Acquire, PopSlot, NoSlotFree, Connect,
         OpenCreate, DropDb, DropFails, CreateDb, Seed, RequestFails, PushSlot, Release, CancelCheckout,
         CancelEarly, GiveUp, TaskGoto, PInv, PType
    <3> QED
      BY <1>1, <2>1, <2>3, <3>1, OthersDb DEF DbInv, Holding
  <2> QED
    BY <2>2, <2>3
<1>2. ASSUME NEW p \in Process, Launch(p) \/ Die(p) PROVE DbInv'
  <2>1. UNCHANGED <<db, poolFaults>> /\ \A q \in Process, u \in Task :
           \/ stage'[q][u] = "idle"
           \/ stage'[q][u] = stage[q][u] /\ slot'[q][u] = slot[q][u]
    <3>1. CASE Launch(p)
      BY <3>1 DEF Launch, poolServer
    <3>2. CASE Die(p)
      BY <3>2 DEF Die, poolServer, PInv, PType
    <3> QED
      BY <1>2, <3>1, <3>2
  <2> QED
    BY <2>1 DEF DbInv
<1>3. CASE UNCHANGED poolVars
  BY <1>3 DEF poolVars, poolServer, DbInv
<1> QED
  BY <1>1, <1>2, <1>3, PoolAssumption DEF PoolNext

\* Every seed step finds the database of its slot empty and every user finds what the
\* seed wrote, while other processes sweep, die and start (checkout, sweep_stale).
THEOREM DatabasesAreFresh == PoolSpec => []FreshDatabases
<1>1. PoolInit => DbInv
  BY DEF PoolInit, DbInv
<1>2. DbInv => FreshDatabases
  BY DEF DbInv, FreshDatabases, TaskAt
<1> QED
  BY <1>1, <1>2, DbStep, PInit, PStep, PTL DEF PoolSpec

----------------------------------------------------------------------------
(* Slots and permits are conserved *)

HasPermit(p) == {t \in Task : stage[p][t] \in Permitted}
HasSlot(p) == {t \in Task : slot[p][t] # NoSlot}

\* As long as no checkout was dropped, a slot is free or with a task.
Conserved(p) ==
  /\ permits[p] + Cardinality(HasPermit(p)) = Size
  /\ cancels = 0 => Cardinality(free[p]) + Cardinality(HasSlot(p)) = Size

Clean ==
  poolFaults = 0 /\ cancels = 0 =>
    \A p \in Process, t \in Task : stage[p][t] \notin {"unwind", "releaseErr", "failed"}

CInv == (\A p \in Process : Conserved(p)) /\ Clean

\* Sets of tasks and of slots are finite.
LEMMA Finite ==
  ASSUME PType, NEW p \in Process
  PROVE  /\ IsFiniteSet(HasPermit(p)) /\ IsFiniteSet(HasSlot(p)) /\ IsFiniteSet(free[p])
         /\ Cardinality(HasPermit(p)) \in Nat /\ Cardinality(HasSlot(p)) \in Nat
         /\ Cardinality(free[p]) \in Nat
         /\ IsFiniteSet(Slot) /\ Cardinality(Slot) = Size
<1>1. IsFiniteSet(Slot) /\ Cardinality(Slot) = Size
  BY PoolAssumption, FS_Interval DEF Slot
<1>2. free[p] \in SUBSET Slot /\ HasPermit(p) \in SUBSET Task /\ HasSlot(p) \in SUBSET Task
  BY DEF PType, HasPermit, HasSlot
<1>3. IsFiniteSet(HasPermit(p)) /\ IsFiniteSet(HasSlot(p)) /\ IsFiniteSet(free[p])
  BY <1>1, <1>2, FS_Subset, PoolAssumption
<1> QED
  BY <1>1, <1>3, FS_CardinalityType

\* Who has a permit finds a slot.
LEMMA SlotLeft ==
  ASSUME PInv, CInv, cancels = 0, NEW p \in Process, NEW t \in Task, stage[p][t] = "pop"
  PROVE  free[p] # {}
<1> SUFFICES ASSUME free[p] = {} PROVE FALSE
  OBVIOUS
<1>1. Cardinality(HasSlot(p)) = Size
  BY Finite, FS_EmptySet, PoolAssumption DEF CInv, Conserved, PInv
<1>2. HasSlot(p) \cup {t} \in SUBSET HasPermit(p)
  BY DEF HasSlot, HasPermit, PInv, SlotInv, Permitted
<1>3. t \notin HasSlot(p)
  BY DEF HasSlot, PInv, SlotInv, Holding
<1>4. Cardinality(HasSlot(p) \cup {t}) = Size + 1
  BY <1>1, <1>3, Finite, FS_AddElement DEF PInv
<1>5. Cardinality(HasSlot(p) \cup {t}) <= Cardinality(HasPermit(p))
  BY <1>2, Finite, FS_Subset DEF PInv
<1>6. permits[p] \in Nat /\ Cardinality(HasPermit(p)) \in Nat /\ permits[p] + Cardinality(HasPermit(p)) = Size
  BY Finite DEF PInv, PType, CInv, Conserved
<1> QED
  BY <1>4, <1>5, <1>6, PoolAssumption

\* A step of a task concerns its own process only.
LEMMA OthersConserved ==
  ASSUME PInv, CInv, NEW p \in Process, NEW t \in Task, TaskNext(p, t),
         NEW q \in Process, q # p
  PROVE  Conserved(q)'
<1> USE DEF PInv, PType, poolServer, pool
<1>1. stage'[q] = stage[q]
  BY DEF TaskNext, Checkout, SweepEnds, Sweep, Acquire, PopSlot, NoSlotFree, Connect, OpenCreate,
         DropDb, DropFails, CreateDb, Seed, RequestFails, PushSlot, Release, CancelCheckout,
         CancelEarly, GiveUp, TaskGoto
<1>2. slot'[q] = slot[q] /\ free'[q] = free[q] /\ permits'[q] = permits[q]
  BY DEF TaskNext, Checkout, SweepEnds, Sweep, Acquire, PopSlot, NoSlotFree, Connect, OpenCreate,
         DropDb, DropFails, CreateDb, Seed, RequestFails, PushSlot, Release, CancelCheckout,
         CancelEarly, GiveUp
<1>3. cancels' = 0 => cancels = 0
  BY DEF TaskNext, Checkout, SweepEnds, Sweep, Acquire, PopSlot, NoSlotFree, Connect, OpenCreate,
         DropDb, DropFails, CreateDb, Seed, RequestFails, PushSlot, Release, CancelCheckout,
         CancelEarly, GiveUp
<1>4. HasPermit(q)' = HasPermit(q) /\ HasSlot(q)' = HasSlot(q)
  BY <1>1, <1>2 DEF HasPermit, HasSlot
<1> QED
  BY <1>2, <1>3, <1>4 DEF CInv, Conserved

LEMMA OwnConserved ==
  ASSUME PInv, CInv, NEW p \in Process, NEW t \in Task, TaskNext(p, t)
  PROVE  Conserved(p)'
<1>0. Conserved(p) /\ permits[p] \in Nat /\ cancels \in Nat
  BY PoolAssumption DEF CInv, PInv, PType
<1>1. CASE Steady(p, t)
  <2>1. Walks(p, t) /\ UNCHANGED <<permits, free, slot>>
    BY <1>1, SteadyWalks DEF PInv
  <2>2. cancels' = 0 => cancels = 0
    BY <1>0, <1>1 DEF Steady, Checkout, SweepEnds, Sweep, Connect, OpenCreate,
       DropDb, DropFails, CreateDb, Seed, RequestFails, CancelEarly, GiveUp
  <2>3. HasPermit(p)' = HasPermit(p) /\ HasSlot(p)' = HasSlot(p)
    BY <2>1 DEF Walks, HasPermit, HasSlot, PInv, PType
  <2> QED
    BY <1>0, <2>1, <2>2, <2>3 DEF Conserved
<1>2. CASE Acquire(p, t)
  <2>1. /\ permits'[p] = permits[p] - 1 /\ UNCHANGED <<free, slot, cancels>>
        /\ stage[p][t] = "acquire" /\ stage' = [stage EXCEPT ![p][t] = "pop"]
    BY <1>2 DEF Acquire, TaskAt, TaskGoto, PInv, PType
  <2>2. HasPermit(p)' = HasPermit(p) \cup {t} /\ t \notin HasPermit(p) /\ HasSlot(p)' = HasSlot(p)
    BY <2>1 DEF HasPermit, HasSlot, Permitted, Holding, PInv, PType
  <2>3. Cardinality(HasPermit(p)') = Cardinality(HasPermit(p)) + 1
    BY <2>2, Finite, FS_AddElement DEF PInv
  <2> QED
    BY <1>0, <2>1, <2>2, <2>3, Finite DEF Conserved, PInv
<1>3. CASE NoSlotFree(p, t) \/ Release(p, t) \/ CancelCheckout(p, t)
  <2>1. /\ permits'[p] = permits[p] + 1 /\ free' = free /\ (cancels' = 0 => UNCHANGED <<slot, cancels>>)
        /\ stage[p][t] \in Permitted
        /\ \E l \in {"failed", "idle"} : stage' = [stage EXCEPT ![p][t] = l]
    BY <1>0, <1>3 DEF NoSlotFree, Release, CancelCheckout, TaskAt, TaskGoto, PInv, PType, Permitted, Holding
  <2>2. HasPermit(p)' = HasPermit(p) \ {t} /\ t \in HasPermit(p)
    BY <2>1 DEF HasPermit, Permitted, Holding, PInv, PType
  <2>3. Cardinality(HasPermit(p)') = Cardinality(HasPermit(p)) - 1
    BY <2>2, Finite, FS_RemoveElement DEF PInv
  <2>4. cancels' = 0 => HasSlot(p)' = HasSlot(p)
    BY <2>1 DEF HasSlot
  <2> QED
    BY <1>0, <2>1, <2>3, <2>4, Finite DEF Conserved, PInv
<1>4. CASE PopSlot(p, t)
  <2>1. PICK s \in free[p] : slot' = [slot EXCEPT ![p][t] = s] /\ free' = [free EXCEPT ![p] = @ \ {s}]
    BY <1>4 DEF PopSlot
  <2>2. /\ stage[p][t] = "pop" /\ stage' = [stage EXCEPT ![p][t] = "connect"] /\ UNCHANGED <<permits, cancels>>
        /\ s # NoSlot /\ slot[p][t] = NoSlot
    <3>1. /\ stage[p][t] = "pop" /\ stage' = [stage EXCEPT ![p][t] = "connect"]
          /\ UNCHANGED <<permits, cancels>>
      BY <1>4 DEF PopSlot, TaskAt, TaskGoto
    <3>2. s \in Slot /\ s # NoSlot
      BY PoolAssumption DEF PInv, PType
    <3>3. slot[p][t] = NoSlot
      BY <3>1 DEF PInv, SlotInv, Holding
    <3> QED
      BY <3>1, <3>2, <3>3
  <2>3. HasPermit(p)' = HasPermit(p)
    BY <2>2 DEF HasPermit, Permitted, Holding, PInv, PType
  <2>4. HasSlot(p)' = HasSlot(p) \cup {t} /\ t \notin HasSlot(p)
    BY <2>1, <2>2 DEF HasSlot, PInv, PType
  <2>5. free'[p] = free[p] \ {s}
    BY <2>1 DEF PInv, PType
  <2>6. /\ Cardinality(HasSlot(p)') = Cardinality(HasSlot(p)) + 1
        /\ Cardinality(free'[p]) = Cardinality(free[p]) - 1
    <3>1. IsFiniteSet(HasSlot(p)) /\ IsFiniteSet(free[p])
      BY Finite DEF PInv
    <3>2. Cardinality(HasSlot(p) \cup {t}) = Cardinality(HasSlot(p)) + 1
      BY <2>4, <3>1, FS_AddElement
    <3>3. Cardinality(free[p] \ {s}) = Cardinality(free[p]) - 1
      BY <3>1, FS_RemoveElement
    <3> QED
      BY <2>4, <2>5, <3>2, <3>3
  <2> QED
    BY <1>0, <2>2, <2>3, <2>6, Finite DEF Conserved, PInv
<1>5. CASE PushSlot(p, t)
  <2>1. /\ stage[p][t] \in Holding /\ slot[p][t] # NoSlot /\ slot[p][t] \notin free[p]
        /\ slot' = [slot EXCEPT ![p][t] = NoSlot]
        /\ free' = [free EXCEPT ![p] = @ \cup {slot[p][t]}] /\ UNCHANGED <<permits, cancels>>
        /\ \E l \in {"release", "releaseErr"} : stage' = [stage EXCEPT ![p][t] = l]
    BY <1>5 DEF PushSlot, TaskAt, TaskGoto, PInv, PType, SlotInv, Holding
  <2>2. HasPermit(p)' = HasPermit(p)
    BY <2>1 DEF HasPermit, Permitted, PInv, PType
  <2>3. HasSlot(p)' = HasSlot(p) \ {t} /\ t \in HasSlot(p)
    BY <2>1 DEF HasSlot, PInv, PType
  <2>4. free'[p] = free[p] \cup {slot[p][t]}
    BY <2>1 DEF PInv, PType
  <2>5. /\ Cardinality(HasSlot(p)') = Cardinality(HasSlot(p)) - 1
        /\ Cardinality(free'[p]) = Cardinality(free[p]) + 1
    <3>1. IsFiniteSet(HasSlot(p)) /\ IsFiniteSet(free[p])
      BY Finite DEF PInv
    <3>2. Cardinality(HasSlot(p) \ {t}) = Cardinality(HasSlot(p)) - 1
      BY <2>3, <3>1, FS_RemoveElement
    <3>3. Cardinality(free[p] \cup {slot[p][t]}) = Cardinality(free[p]) + 1
      BY <2>1, <3>1, FS_AddElement
    <3> QED
      BY <2>3, <2>4, <3>2, <3>3
  <2> QED
    BY <1>0, <2>1, <2>2, <2>5, Finite DEF Conserved, PInv
<1> QED
  BY <1>1, <1>2, <1>3, <1>4, <1>5 DEF TaskNext, Steady

LEMMA CleanStep ==
  ASSUME PInv, CInv, NEW p \in Process, NEW t \in Task, TaskNext(p, t)
  PROVE  Clean'
<1> SUFFICES ASSUME poolFaults' = 0, cancels' = 0, NEW q \in Process, NEW u \in Task
             PROVE  stage'[q][u] \notin {"unwind", "releaseErr", "failed"}
  BY DEF Clean
<1>1. poolFaults = 0 /\ cancels = 0 /\ poolFaults' = poolFaults /\ cancels' = cancels
  BY PoolAssumption DEF TaskNext, Checkout, SweepEnds, Sweep, Acquire, PopSlot, NoSlotFree, Connect,
     OpenCreate, DropDb, DropFails, CreateDb, Seed, RequestFails, PushSlot, Release, CancelCheckout,
     CancelEarly, GiveUp, PInv, PType
<1>2. stage[q][u] \notin {"unwind", "releaseErr", "failed"} /\ stage[p][t] \notin {"unwind", "releaseErr", "failed"}
  BY <1>1 DEF CInv, Clean
<1>3. CASE NoSlotFree(p, t)
  BY <1>1, <1>3, SlotLeft DEF NoSlotFree, TaskAt
<1>4. CASE RequestFails(p, t) \/ DropFails(p, t) \/ CancelCheckout(p, t) \/ CancelEarly(p, t)
  <2>1. poolFaults' = poolFaults + 1 \/ cancels' = cancels + 1
    BY <1>4 DEF RequestFails, DropFails, CancelCheckout, CancelEarly
  <2> QED
    BY <1>1, <2>1
<1>5. CASE GiveUp(p, t)
  BY <1>2, <1>5 DEF GiveUp, TaskAt
<1>6. CASE PushSlot(p, t) \/ Release(p, t)
  BY <1>2, <1>6 DEF PushSlot, Release, TaskAt, TaskGoto, PInv, PType
<1>7. CASE \/ Checkout(p, t) \/ SweepEnds(p, t) \/ Acquire(p, t) \/ PopSlot(p, t)
           \/ \E x \in stale[p] : Sweep(p, t, x)
           \/ Connect(p, t) \/ OpenCreate(p, t) \/ DropDb(p, t) \/ CreateDb(p, t) \/ Seed(p, t)
  <2>1. stage' = stage \/ \E l \in Label \ {"unwind", "releaseErr", "failed"} : stage' = [stage EXCEPT ![p][t] = l]
    BY <1>7 DEF Checkout, SweepEnds, Acquire, PopSlot, Sweep, Connect, OpenCreate, DropDb, CreateDb,
                Seed, TaskGoto, Label
  <2> QED
    BY <1>2, <2>1 DEF PInv, PType
<1> QED
  BY <1>3, <1>4, <1>5, <1>6, <1>7 DEF TaskNext

LEMMA CStep == ASSUME PInv, CInv, [PoolNext]_poolVars PROVE CInv'
<1>1. ASSUME NEW p \in Process, NEW t \in Task, TaskNext(p, t) PROVE CInv'
  BY <1>1, OthersConserved, OwnConserved, CleanStep DEF CInv
<1>2. ASSUME NEW p \in Process, Launch(p) PROVE CInv'
  BY <1>2 DEF Launch, pool, CInv, Conserved, Clean, HasPermit, HasSlot
<1>3. ASSUME NEW p \in Process, Die(p) PROVE CInv'
  <2>1. /\ permits'[p] = Size /\ free'[p] = Slot
        /\ \A t \in Task : stage'[p][t] = "idle" /\ slot'[p][t] = NoSlot
        /\ UNCHANGED <<poolFaults, cancels>>
    BY <1>3 DEF Die, PInv, PType
  <2>2. HasPermit(p)' = {} /\ HasSlot(p)' = {}
    BY <2>1 DEF HasPermit, HasSlot, Permitted, Holding
  <2>3. Cardinality(HasPermit(p)') = 0 /\ Cardinality(HasSlot(p)') = 0 /\ Cardinality(free'[p]) = Size
    BY <2>1, <2>2, FS_EmptySet, Finite DEF PInv
  <2>4. Conserved(p)'
    BY <2>1, <2>3, PoolAssumption DEF Conserved
  <2>5. ASSUME NEW q \in Process \ {p} PROVE Conserved(q)' /\ stage'[q] = stage[q]
    <3>1. /\ stage'[q] = stage[q] /\ slot'[q] = slot[q] /\ free'[q] = free[q] /\ permits'[q] = permits[q]
      BY <1>3 DEF Die, PInv, PType
    <3>2. HasPermit(q)' = HasPermit(q) /\ HasSlot(q)' = HasSlot(q)
      BY <3>1 DEF HasPermit, HasSlot
    <3> QED
      BY <2>1, <3>1, <3>2 DEF CInv, Conserved
  <2>6. Clean'
    BY <2>1, <2>5 DEF CInv, Clean
  <2> QED
    BY <2>4, <2>5, <2>6 DEF CInv
<1>4. CASE UNCHANGED poolVars
  BY <1>4 DEF poolVars, pool, CInv, Conserved, Clean, HasPermit, HasSlot
<1> QED
  BY <1>1, <1>2, <1>3, <1>4, PoolAssumption DEF PoolNext

LEMMA CInit == PoolInit => CInv
<1> SUFFICES ASSUME PoolInit, NEW p \in Process PROVE Conserved(p) /\ Clean
  BY DEF CInv, PoolInit, Clean
<1>1. PType
  BY PInit DEF PInv
<1>2. HasPermit(p) = {} /\ HasSlot(p) = {} /\ free[p] = Slot /\ permits[p] = Size
  BY DEF PoolInit, HasPermit, HasSlot, Permitted, Holding
<1>3. Cardinality(HasPermit(p)) = 0 /\ Cardinality(HasSlot(p)) = 0 /\ Cardinality(free[p]) = Size
  BY <1>1, <1>2, FS_EmptySet, Finite
<1>4. Clean
  BY DEF PoolInit, Clean
<1> QED
  BY <1>2, <1>3, <1>4, PoolAssumption DEF Conserved

\* A checkout fails only when a request failed or a checkout was dropped before: the
\* branch that testutil.rs calls unreachable is, and connecting twice is no error.
THEOREM CheckoutsSucceed == PoolSpec => []CheckoutSucceeds
<1>1. CInv => CheckoutSucceeds
  BY DEF CInv, Clean, CheckoutSucceeds
<1> QED
  BY <1>1, CInit, CStep, PInit, PStep, PTL DEF PoolSpec

\* Type correctness of the pool; that no more permits are free than there are slots
\* needs the count of those that tasks have.
THEOREM TypeCorrect == PoolSpec => []PoolTypeOK
<1>1. PInv /\ CInv => PoolTypeOK
  <2> SUFFICES ASSUME PInv, CInv PROVE PoolTypeOK
    OBVIOUS
  <2>1. \A p \in Process : permits[p] \in 0..Size
    BY Finite, PoolAssumption DEF PInv, PType, CInv, Conserved
  <2> QED
    BY <2>1 DEF PInv, PType, PoolTypeOK
<1> QED
  BY <1>1, CInit, CStep, PInit, PStep, PTL DEF PoolSpec
================================================================================
