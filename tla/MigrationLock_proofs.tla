------------------------- MODULE MigrationLock_proofs -------------------------
(***************************************************************************)
(* The lease protocol of MigrationLock, proved for every set of runners,   *)
(* lease and clock difference, when holder ids are used once (OneShot).    *)
(*                                                                         *)
(* The argument.  A holder id that is claimed once has one stamp, so the   *)
(* row, every copy of it a SELECT returned and the runner that wrote it    *)
(* agree on the time left (RowAgrees, SeenAgrees).  A runner that decided  *)
(* to overwrite a holder had seen its stamp expired, and a stamp only runs *)
(* down (PendingSteal); so a claim that takes effect never takes the row   *)
(* from a run whose lease is running (LiveRunOwnsRow).                     *)
(***************************************************************************)
EXTENDS MigrationLock, TLAPS

\* A row whose holder is r's shows the one stamp r ever wrote.
Shows(entry, r) ==
  entry.holder = HolderOf[r] =>
    /\ claims[r] = 1 /\ phase[r] \notin {"deciding", "claiming"}
    /\ entry.left = stamp[r]

\* Only the holder of an existing runner is ever written.
KnownHolder(entry) ==
  entry.holder = NoHolder \/ \E r \in Runner : entry.holder = HolderOf[r]

ClaimsCounted ==
  \A r \in Runner :
    /\ phase[r] = "deciding" => claims[r] = 0
    /\ phase[r] \in {"claiming", "working", "releasing"} => claims[r] = 1

RowAgrees == KnownHolder(row) /\ \A r \in Runner : Shows(row, r)

SeenAgrees ==
  \A q \in Runner : phase[q] = "deciding" => \A r \in Runner : Shows(seen[q], r)

\* The holder a claim in flight would replace has, by every clock, expired.
PendingSteal ==
  \A q, r \in Runner :
    phase[q] = "claiming" /\ seen[q].holder = HolderOf[r] =>
      /\ q # r /\ stamp[r] <= MaxAhead
      /\ claims[r] = 1 /\ phase[r] \notin {"deciding", "claiming"}

IInv ==
  /\ LockTypeOK
  /\ ClaimsCounted
  /\ RowAgrees
  /\ SeenAgrees
  /\ PendingSteal
  /\ LiveRunOwnsRow

-----------------------------------------------------------------------------
\* Counting down stays in Nat and never grows.
LEMMA DecType == \A n \in Nat : Dec(n) \in Nat /\ Dec(n) <= n
  BY DEF Dec

\* The bound on claims is tested when the row is read and used when the claim
\* is sent, so typing a step needs what holds in between.
ClaimLeft == \A r \in Runner : phase[r] = "deciding" => claims[r] < MaxClaims

TInv == LockTypeOK /\ ClaimLeft

\* Type correctness of one step, for any use of the Migrators.
LEMMA TypeStep == TInv /\ [LockNext]_lockVars => TInv'
<1> SUFFICES ASSUME TInv, [LockNext]_lockVars PROVE TInv'
  OBVIOUS
<1> USE LockAssumption DEF TInv, LockTypeOK, ClaimLeft, Row, NoRow
<1>1. CASE Tick
  BY <1>1, DecType DEF Tick
<1>2. ASSUME NEW r \in Runner, RunnerStep(r) PROVE TInv'
  <2>1. CASE ReadLock(r)
    BY <2>1 DEF ReadLock
  <2>2. CASE RefuseClaim(r)
    BY <2>2 DEF RefuseClaim
  <2>3. CASE SendClaim(r)
    <3>1. claims[r] + 1 \in 0..MaxClaims
      BY <2>3 DEF SendClaim
    <3>2. Lease + Ahead[r] \in Nat
      OBVIOUS
    <3> QED
      BY <2>3, <3>1, <3>2 DEF SendClaim
  <2>4. CASE ExecClaim(r)
    <3>1. row' \in Row
      BY <2>4 DEF ExecClaim
    <3>2. phase' = [phase EXCEPT ![r] = "working"] \/ phase' = [phase EXCEPT ![r] = "idle"]
      BY <2>4 DEF ExecClaim
    <3>3. seen' = seen /\ stamp' = stamp /\ up' = up /\ claims' = claims
      BY <2>4 DEF ExecClaim
    <3> QED
      BY <3>1, <3>2, <3>3
  <2>5. CASE FinishRun(r)
    BY <2>5 DEF FinishRun
  <2>6. CASE ExecRelease(r)
    BY <2>6 DEF ExecRelease
  <2>7. CASE LoseRequest(r)
    BY <2>7 DEF LoseRequest
  <2>8. CASE Crash(r)
    BY <2>8 DEF Crash
  <2> QED
    BY <1>2, <2>1, <2>2, <2>3, <2>4, <2>5, <2>6, <2>7, <2>8 DEF RunnerStep
<1>3. CASE UNCHANGED lockVars
  BY <1>3 DEF lockVars
<1> QED
  BY <1>1, <1>2, <1>3 DEF LockNext

\* Every variable keeps its type, whatever the runners do and however often
\* they reuse a Migrator (the state of acquire_lock and release_lock).
THEOREM TypeCorrect == LockSpec => []LockTypeOK
<1>1. LockInit => TInv
  BY LockAssumption DEF LockInit, TInv, LockTypeOK, ClaimLeft, Row, NoRow
<1>2. TInv /\ [LockNext]_lockVars => TInv'
  BY TypeStep
<1>3. TInv => LockTypeOK
  BY DEF TInv
<1> QED
  BY <1>1, <1>2, <1>3, PTL DEF LockSpec

-----------------------------------------------------------------------------
\* With one claim per holder id, no step breaks the agreement between the row,
\* what was read of it, the claims in flight and the runs.
LEMMA LeaseStep ==
  ASSUME OneShot, IInv, TInv', [LockNext]_lockVars
  PROVE  IInv'
<1> USE LockAssumption DEF OneShot, IInv, LockTypeOK, Row
<1> DEFINE Agreement ==
      ClaimsCounted /\ RowAgrees /\ SeenAgrees /\ PendingSteal /\ LiveRunOwnsRow
<1>0. SUFFICES Agreement'
  BY DEF TInv
<1>1. CASE Tick
  <2>1. /\ row'.holder = row.holder /\ row'.left = Dec(row.left)
        /\ \A r \in Runner : /\ seen'[r].holder = seen[r].holder
                             /\ seen'[r].left = Dec(seen[r].left)
                             /\ stamp'[r] = Dec(stamp[r])
        /\ phase' = phase /\ claims' = claims
    BY <1>1 DEF Tick
  <2>2. \A r \in Runner : stamp'[r] <= stamp[r] /\ stamp'[r] \in Nat
    BY <2>1, DecType
  <2>3. ClaimsCounted'
    BY <2>1 DEF ClaimsCounted
  <2>4. RowAgrees'
    BY <2>1 DEF RowAgrees, Shows, KnownHolder
  <2>5. SeenAgrees'
    BY <2>1 DEF SeenAgrees, Shows
  <2>6. PendingSteal'
    BY <2>1, <2>2 DEF PendingSteal
  <2>7. LiveRunOwnsRow'
    BY <2>1, <2>2 DEF LiveRunOwnsRow, LiveRun
  <2> QED
    BY <2>3, <2>4, <2>5, <2>6, <2>7
<1>2. ASSUME NEW r \in Runner, RunnerStep(r) PROVE Agreement'
  <2>1. CASE ReadLock(r)
    <3>1. claims[r] = 0 /\ phase[r] = "idle"
      BY <2>1 DEF ReadLock
    <3> QED
      BY <2>1, <3>1 DEF ReadLock, ClaimsCounted, RowAgrees, SeenAgrees,
         PendingSteal, LiveRunOwnsRow, LiveRun, Shows, KnownHolder
  <2>2. CASE RefuseClaim(r)
    BY <2>2 DEF RefuseClaim, ClaimsCounted, RowAgrees, SeenAgrees,
       PendingSteal, LiveRunOwnsRow, LiveRun, Shows, KnownHolder
  <2>3. CASE SendClaim(r)
    <3>1. /\ phase[r] = "deciding" /\ claims[r] = 0 /\ ~Held(r)
          /\ phase' = [phase EXCEPT ![r] = "claiming"]
          /\ claims' = [claims EXCEPT ![r] = @ + 1]
          /\ stamp' = [stamp EXCEPT ![r] = Lease + Ahead[r]]
          /\ row' = row /\ seen' = seen
      BY <2>3 DEF SendClaim, ClaimsCounted
    <3>2. \A q \in Runner : q # r => stamp'[q] = stamp[q] /\ claims'[q] = claims[q] /\ phase'[q] = phase[q]
      BY <3>1
    <3>3. row.holder # HolderOf[r]
      BY <3>1 DEF RowAgrees, Shows
    <3>4. \A q \in Runner : phase[q] \in {"deciding", "claiming"} => seen[q].holder # HolderOf[r]
      BY <3>1 DEF SeenAgrees, PendingSteal, Shows
    <3>5. ClaimsCounted'
      BY <3>1, <3>2 DEF ClaimsCounted
    <3>6. RowAgrees'
      BY <3>1, <3>2, <3>3 DEF RowAgrees, Shows, KnownHolder
    <3>7. SeenAgrees'
      BY <3>1, <3>2, <3>4 DEF SeenAgrees, Shows
    <3>8. PendingSteal'
      <4> SUFFICES ASSUME NEW q \in Runner, NEW t \in Runner,
                          phase'[q] = "claiming", seen[q].holder = HolderOf[t]
                   PROVE  /\ q # t /\ stamp'[t] <= MaxAhead
                          /\ claims'[t] = 1 /\ phase'[t] \notin {"deciding", "claiming"}
        BY <3>1 DEF PendingSteal
      <4>1. t # r
        BY <3>1, <3>2, <3>4
      <4>2. CASE q = r
        <5>1. /\ claims[t] = 1 /\ phase[t] \notin {"deciding", "claiming"}
              /\ seen[r].left = stamp[t]
          BY <3>1, <4>2 DEF SeenAgrees, Shows
        <5>2. seen[r].left <= Ahead[r]
          <6>1. seen[r].holder \notin {NoHolder, HolderOf[r]}
            BY <4>1, <4>2
          <6> QED
            BY <3>1, <6>1 DEF Held
        <5> QED
          BY <5>1, <5>2, <4>1, <4>2, <3>2
      <4>3. CASE q # r
        BY <4>1, <4>3, <3>2 DEF PendingSteal
      <4> QED
        BY <4>2, <4>3
    <3>9. LiveRunOwnsRow'
      BY <3>1, <3>2 DEF LiveRunOwnsRow, LiveRun
    <3> QED
      BY <3>5, <3>6, <3>7, <3>8, <3>9
  <2>4. CASE ExecClaim(r)
    <3>1. /\ phase[r] = "claiming" /\ claims[r] = 1
          /\ seen' = seen /\ stamp' = stamp /\ claims' = claims
          /\ \A q \in Runner : q # r => phase'[q] = phase[q]
          /\ phase'[r] \in {"idle", "working"}
      BY <2>4 DEF ExecClaim, ClaimsCounted
    <3>2. \A q \in Runner : phase[q] \in {"deciding", "claiming"} => seen[q].holder # HolderOf[r]
      BY <3>1 DEF SeenAgrees, PendingSteal, Shows
    <3>3. ClaimsCounted' /\ SeenAgrees' /\ PendingSteal'
      BY <3>1, <3>2 DEF ClaimsCounted, SeenAgrees, PendingSteal, Shows
    <3>4. CASE ClaimTakes(r) /\ row' = [holder |-> HolderOf[r], left |-> stamp[r]]
      <4>1. RowAgrees'
        BY <3>1, <3>4 DEF RowAgrees, Shows, KnownHolder
      <4>2. ASSUME NEW q \in Runner, q # r PROVE ~LiveRun(q)
        <5> SUFFICES ASSUME LiveRun(q) PROVE FALSE
          OBVIOUS
        <5>1. seen[r].holder = HolderOf[q]
          BY <3>4 DEF LiveRunOwnsRow, ClaimTakes
        <5> QED
          BY <5>1, <3>1 DEF PendingSteal, LiveRun
      <4>3. LiveRunOwnsRow'
        BY <3>1, <3>4, <4>2 DEF LiveRunOwnsRow, LiveRun
      <4> QED
        BY <3>3, <4>1, <4>3
    <3>5. CASE row' = row /\ phase'[r] = "idle"
      BY <3>1, <3>3, <3>5 DEF RowAgrees, Shows, KnownHolder, LiveRunOwnsRow, LiveRun
    <3> QED
      BY <2>4, <3>4, <3>5 DEF ExecClaim
  <2>5. CASE FinishRun(r)
    BY <2>5 DEF FinishRun, ClaimsCounted, RowAgrees, SeenAgrees,
       PendingSteal, LiveRunOwnsRow, LiveRun, Shows, KnownHolder
  <2>6. CASE ExecRelease(r)
    <3>1. /\ seen' = seen /\ stamp' = stamp /\ claims' = claims
          /\ phase[r] = "releasing" /\ phase' = [phase EXCEPT ![r] = "idle"]
      BY <2>6 DEF ExecRelease
    <3>2. ClaimsCounted' /\ SeenAgrees' /\ PendingSteal'
      BY <3>1 DEF ClaimsCounted, SeenAgrees, PendingSteal, Shows
    <3>3. CASE row.holder = HolderOf[r]
      <4>1. row' = NoRow
        BY <2>6, <3>3 DEF ExecRelease
      <4>2. RowAgrees'
        BY <4>1 DEF RowAgrees, Shows, KnownHolder, NoRow
      <4>3. \A q \in Runner : ~LiveRun(q)
        BY <3>1, <3>3 DEF LiveRunOwnsRow, LiveRun
      <4>4. LiveRunOwnsRow'
        BY <3>1, <4>3 DEF LiveRunOwnsRow, LiveRun
      <4> QED
        BY <3>2, <4>2, <4>4
    <3>4. CASE row.holder # HolderOf[r]
      <4>1. row' = row
        BY <2>6, <3>4 DEF ExecRelease
      <4> QED
        BY <3>1, <3>2, <4>1 DEF RowAgrees, Shows, KnownHolder, LiveRunOwnsRow, LiveRun
    <3> QED
      BY <3>3, <3>4
  <2>7. CASE LoseRequest(r)
    BY <2>7 DEF LoseRequest, ClaimsCounted, RowAgrees, SeenAgrees,
       PendingSteal, LiveRunOwnsRow, LiveRun, Shows, KnownHolder
  <2>8. CASE Crash(r)
    BY <2>8 DEF Crash, ClaimsCounted, RowAgrees, SeenAgrees,
       PendingSteal, LiveRunOwnsRow, LiveRun, Shows, KnownHolder
  <2> QED
    BY <1>2, <2>1, <2>2, <2>3, <2>4, <2>5, <2>6, <2>7, <2>8 DEF RunnerStep
<1>3. CASE UNCHANGED lockVars
  BY <1>3 DEF lockVars, ClaimsCounted, RowAgrees, SeenAgrees,
     PendingSteal, LiveRunOwnsRow, LiveRun, Shows, KnownHolder
<1> QED
  BY <1>1, <1>2, <1>3 DEF LockNext

\* The invariant holds from the start: nobody has claimed anything.
LEMMA LeaseInit == OneShot /\ LockInit => IInv /\ TInv
  BY LockAssumption DEF OneShot, LockInit, IInv, TInv, ClaimLeft, LockTypeOK, Row, NoRow,
     ClaimsCounted, RowAgrees, SeenAgrees, PendingSteal, LiveRunOwnsRow, LiveRun,
     Shows, KnownHolder

LEMMA LeaseInvariant == ASSUME OneShot PROVE LockSpec => []IInv
<1>1. LockInit => IInv /\ TInv
  BY LeaseInit
<1>2. (IInv /\ TInv) /\ [LockNext]_lockVars => (IInv /\ TInv)'
  BY LeaseStep, TypeStep
<1> QED
  BY <1>1, <1>2, PTL DEF LockSpec

\* A run whose lease is running owns the lock row, so two of them cannot
\* interleave their DDL (acquire_lock around sync_dir and apply_rollout).
THEOREM LeaseSafety ==
  ASSUME OneShot
  PROVE  LockSpec => [](LiveRunOwnsRow /\ AtMostOneLiveRun)
<1>1. IInv => LiveRunOwnsRow /\ AtMostOneLiveRun
  BY DEF IInv, LiveRunOwnsRow, AtMostOneLiveRun, OneShot
<1> QED
  BY <1>1, LeaseInvariant, PTL

\* No claim or release by another holder replaces or deletes a row whose lease
\* every clock sees as running (the CAS of acquire_lock, the DELETE of
\* release_lock).
THEOREM FreshClaimSafe == ASSUME OneShot PROVE LockSpec => FreshClaimKept
<1> DEFINE Kept ==
      row.holder # NoHolder /\ row.left > MaxAhead =>
        \/ row'.holder = row.holder
        \/ /\ row' = NoRow
           /\ \E r \in Runner : HolderOf[r] = row.holder /\ phase[r] = "releasing"
<1>1. IInv /\ [LockNext]_lockVars => [Kept]_lockVars
  <2> SUFFICES ASSUME IInv, LockNext, row.holder # NoHolder, row.left > MaxAhead
               PROVE  Kept
    OBVIOUS
  <2> USE LockAssumption DEF IInv, LockTypeOK, Row
  <2>1. CASE Tick
    BY <2>1 DEF Tick
  <2>2. ASSUME NEW r \in Runner, RunnerStep(r) PROVE Kept
    <3>1. CASE ExecClaim(r)
      <4>1. PICK q \in Runner : row.holder = HolderOf[q]
        BY DEF RowAgrees, KnownHolder
      <4>2. stamp[q] > MaxAhead
        BY <4>1 DEF RowAgrees, Shows
      <4>3. ~ClaimTakes(r)
        BY <3>1, <4>1, <4>2 DEF ExecClaim, ClaimTakes, PendingSteal
      <4> QED
        BY <3>1, <4>3 DEF ExecClaim
    <3>2. CASE ExecRelease(r)
      BY <3>2 DEF ExecRelease
    <3>3. CASE ReadLock(r) \/ RefuseClaim(r) \/ SendClaim(r) \/ FinishRun(r)
                 \/ LoseRequest(r) \/ Crash(r)
      BY <3>3 DEF ReadLock, RefuseClaim, SendClaim, FinishRun, LoseRequest, Crash
    <3> QED
      BY <2>2, <3>1, <3>2, <3>3 DEF RunnerStep
  <2> QED
    BY <2>1, <2>2 DEF LockNext
<1> QED
  BY <1>1, LeaseInvariant, PTL DEF LockSpec, FreshClaimKept
=============================================================================
