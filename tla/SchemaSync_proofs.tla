--------------------------- MODULE SchemaSync_proofs ---------------------------
(***************************************************************************)
(* The declarative sync, proved for any releases, overrides and types and  *)
(* any number of failures and changes by hand.                             *)
(*                                                                         *)
(* The argument.  The snapshot of a release is written by a run of that    *)
(* release, after all its overrides were recorded and after a diff that    *)
(* was computed behind them: so the recorded state has all its types       *)
(* (SnapInv), and a live schema equal to it has them too.  RunInv says     *)
(* how far a run has come at each of its points.                           *)
(***************************************************************************)
EXTENDS SchemaSync, TLAPS

Complete(v, schema) == \A t \in Type : Desired[v][t] # Absent => schema[t] # Absent

SnapInv ==
  snapshot.sum # 0 =>
    Dir(snapshot.sum) \subseteq recorded /\ Complete(snapshot.sum, snapshot.state)

RunInv ==
  /\ pc # "idle" => Dir(target) \subseteq recorded \cup todo
  /\ pc = "overrides" => todo \cap recorded = {}
  /\ pc \notin {"idle", "overrides"} => todo = {}
  /\ pc = "diff" => \A t \in Type :
       /\ Desired[target][t] # Absent /\ types[t] = Absent => t \in diff
       /\ t \in diff => Desired[target][t] # Absent \/ t \notin Owned(recorded)
  /\ pc = "fetch" => Complete(target, types)
  /\ pc = "snapshot" => final = types /\ Complete(target, final)
  /\ pc \in {"revision", "report", "seed"} => snapshot.sum = target /\ snapshot.state = types

\* The overrides of the release a database was born at are recorded.
BornInv == Dir(born) \subseteq recorded

SInv == TypeOK /\ SnapInv /\ RunInv /\ BornInv

-----------------------------------------------------------------------------
\* The computed statements, the executed diff and the executed override keep
\* the schema a schema.
LEMMA AfterType ==
  ASSUME TypeOK, NEW v \in Release, NEW D PROVE After(v, D) \in Schemas
  BY SyncAssumption DEF TypeOK, After, Schemas, Release

LEMMA ApplyType ==
  ASSUME TypeOK, NEW f \in File, NEW D \in SUBSET DOMAIN Effect[f], Apply(f, D)
  PROVE  types' \in Schemas
<1>1. \A t \in D : Effect[f][t] \in Shape \cup {Absent}
  BY SyncAssumption
<1> QED
  BY <1>1 DEF TypeOK, Apply, Schemas

\* All variables keep their types.
LEMMA TypeStep == TypeOK /\ [Next]_vars => TypeOK'
<1> SUFFICES ASSUME TypeOK, [Next]_vars PROVE TypeOK'
  OBVIOUS
<1> USE SyncAssumption DEF TypeOK, progress, books, world, run, past
<1>0. Release \subseteq 0..Len(Desired)
  BY DEF Release
<1>1. ASSUME NEW s \in Strategies, Plan(s) PROVE TypeOK'
  <2>1. Pending(version) \subseteq File /\ Diff(version, s, Owned(recorded)) \subseteq Type
    BY DEF Pending, Dir, Diff
  <2>2. final' \in Schemas
    BY <1>1 DEF Plan
  <2>3. todo' \subseteq File /\ diff' \subseteq Type /\ baseline' \in BOOLEAN
        /\ warned' \in BOOLEAN
    BY <1>1, <2>1 DEF Plan, Warns
  <2>4. pc' \in {"seed", "snapshot", "overrides"}
    BY <1>1 DEF Plan
  <2> QED
    BY <1>1, <2>2, <2>3, <2>4 DEF Plan
<1>2. ASSUME NEW f \in todo, RecordBaseline(f) \/ RecordOverride(f) PROVE TypeOK'
  BY <1>2 DEF RecordBaseline, RecordOverride
<1>3. ASSUME NEW f \in todo, ExecOverride(f) PROVE TypeOK'
  BY <1>3, ApplyType DEF ExecOverride
<1>4. ASSUME NEW f \in todo, OverrideError(f) PROVE TypeOK'
  BY <1>4 DEF OverrideError
<1>5. CASE Reconcile
  BY <1>5 DEF Reconcile, Diff, Drifted
<1>6. CASE ExecDiff
  BY <1>6, AfterType DEF ExecDiff, Born, Release
<1>7. CASE Fetch
  BY <1>7 DEF Fetch
<1>8. CASE WriteSnapshot \/ RecordRevision \/ Report \/ Seed
  <2>1. snapshot' \in [sum : 0..Len(Desired), state : Schemas]
    BY <1>0, <1>8 DEF WriteSnapshot, RecordRevision, Report, Seed
  <2>2. audited' \subseteq Release /\ seeded' \in 0..Len(Desired)
    BY <1>0, <1>8 DEF WriteSnapshot, RecordRevision, Report, Seed
  <2> QED
    BY <1>8, <2>1, <2>2 DEF WriteSnapshot, RecordRevision, Report, Seed
<1>9. CASE Fail
  BY <1>9 DEF Fail, EndRun
<1>10. ASSUME NEW f \in todo, PartialOverride(f) PROVE TypeOK'
  <2>1. types' \in Schemas
    BY <1>10, ApplyType DEF PartialOverride
  <2> QED
    BY <1>10, <2>1 DEF PartialOverride, EndRun
<1>11. CASE PartialDiff
  <2>1. types' \in Schemas /\ born' \in 0..Len(Desired)
    BY <1>11, AfterType DEF PartialDiff, Born, Release
  <2> QED
    BY <1>11, <2>1 DEF PartialDiff, EndRun
<1>12. CASE Deploy
  BY <1>12 DEF Deploy, Release
<1>13. ASSUME NEW t \in Type, Drift(t) PROVE TypeOK'
  BY <1>13 DEF Drift, Schemas
<1>14. CASE UNCHANGED vars
  BY <1>14 DEF vars
<1> QED
  BY <1>1, <1>2, <1>3, <1>4, <1>5, <1>6, <1>7, <1>8, <1>9, <1>10, <1>11, <1>12,
     <1>13, <1>14 DEF Next, Start, RunStep, RunFault

LEMMA InitType == Init => TypeOK
<1> SUFFICES ASSUME Init PROVE TypeOK
  OBVIOUS
<1> USE SyncAssumption
<1>1. Len(Desired) \in Nat \ {0}
  OBVIOUS
<1>2. 1 \in Release /\ 0 \in 0..Len(Desired)
  BY <1>1 DEF Release
<1>3. NoSnapshot \in [sum : 0..Len(Desired), state : Schemas]
  BY <1>2 DEF NoSnapshot, Schemas
<1>4. NoSnapshot.state \in Schemas
  BY DEF NoSnapshot, Schemas
<1>5. 0 \in 0..MaxFaults /\ 0 \in 0..MaxDrift
  OBVIOUS
<1>6. types \in Schemas /\ final \in Schemas
      /\ snapshot \in [sum : 0..Len(Desired), state : Schemas]
  BY <1>3, <1>4 DEF Init
<1> HIDE SyncAssumption
<1> QED
  BY <1>2, <1>5, <1>6 DEF Init, TypeOK

\* Every variable keeps its type through all runs.
THEOREM TypeCorrect == Spec => []TypeOK
  BY InitType, TypeStep, PTL DEF Spec

-----------------------------------------------------------------------------
(* SnapInv, RunInv and BornInv, one lemma per kind of step. *)

\* The plan: a no-op only if the recorded state is live, and no statement only
\* if nothing is missing.
LEMMA PlanStep ==
  ASSUME SInv, NEW s \in Strategies, Plan(s)
  PROVE  SnapInv' /\ RunInv' /\ BornInv'
<1> USE SyncAssumption DEF SInv, TypeOK, Plan, progress, books, world, past
<1>1. SnapInv' /\ BornInv'
  BY DEF SnapInv, BornInv
<1>2. todo' = Dir(version) \ recorded /\ recorded' = recorded /\ target' = version
      /\ snapshot' = snapshot /\ types' = types
  BY DEF Pending
<1>3. CASE NoOp(version) /\ pc' = "seed" /\ UNCHANGED final
  <2>1. snapshot.sum = version /\ snapshot.state = types /\ todo' = {}
    BY <1>3 DEF NoOp, InSync
  <2> QED
    BY <1>1, <1>2, <1>3, <2>1 DEF RunInv
<1>4. CASE ~NoOp(version) /\ todo' = {} /\ diff' = {} /\ pc' = "snapshot" /\ final' = types
  <2>1. ~InSync(version)
    BY <1>4 DEF NoOp
  <2>2. Diff(version, s, Owned(recorded)) = {}
    BY <1>4, <2>1
  <2>3. Complete(version, types)
    BY <2>2 DEF Complete, Diff
  <2>4. Complete(version, types)'
    BY <1>2, <2>3 DEF Complete
  <2>5. Complete(target, final)'
    BY <1>2, <1>4, <2>3 DEF Complete
  <2> QED
    BY <1>1, <1>2, <1>4, <2>5 DEF RunInv
<1>5. CASE pc' = "overrides"
  <2>1. RunInv'
    BY <1>2, <1>5 DEF RunInv
  <2> QED
    BY <1>1, <2>1
<1> QED
  BY <1>3, <1>4, <1>5

\* The overrides: what leaves todo enters the registry.
LEMMA OverrideStep ==
  ASSUME SInv,
         \/ \E f \in todo : RecordBaseline(f) \/ ExecOverride(f)
                              \/ OverrideError(f) \/ RecordOverride(f)
         \/ Reconcile
  PROVE  SnapInv' /\ RunInv' /\ BornInv'
<1> USE DEF SInv, TypeOK, progress, books, world, run, past
<1>1. ASSUME NEW f \in todo, RecordBaseline(f) \/ RecordOverride(f)
      PROVE  SnapInv' /\ RunInv' /\ BornInv'
  <2>1. /\ pc = "overrides" /\ pc' = pc /\ target' = target /\ snapshot' = snapshot
        /\ born' = born /\ recorded' = recorded \cup {f} /\ todo' = todo \ {f}
    BY <1>1 DEF RecordBaseline, RecordOverride
  <2> QED
    BY <2>1 DEF SnapInv, RunInv, BornInv, Dir, Complete
<1>2. ASSUME NEW f \in todo, ExecOverride(f) \/ OverrideError(f)
      PROVE  SnapInv' /\ RunInv' /\ BornInv'
  <2>1. /\ pc = "overrides" /\ pc' \in {"overrides", "idle"} /\ target' = target
        /\ snapshot' = snapshot /\ born' = born /\ recorded' = recorded /\ todo' = todo
    BY <1>2 DEF ExecOverride, OverrideError
  <2> QED
    BY <2>1 DEF SnapInv, RunInv, BornInv, Dir, Complete
<1>3. CASE Reconcile
  <2>1. /\ pc = "overrides" /\ pc' = "diff" /\ target' = target /\ types' = types
        /\ snapshot' = snapshot /\ born' = born /\ recorded' = recorded
        /\ todo' = todo /\ todo = {}
        /\ diff' = Diff(target, strategy, Owned(recorded))
    BY <1>3 DEF Reconcile
  <2>2. SnapInv' /\ BornInv'
    BY <2>1 DEF SnapInv, BornInv, Dir, Complete
  <2>3. Owned(recorded)' = Owned(recorded)
    BY <2>1 DEF Owned
  <2>4. \A t \in Type :
          /\ Desired[target][t] # Absent /\ types[t] = Absent => t \in diff'
          /\ t \in diff' => Desired[target][t] # Absent \/ t \notin Owned(recorded)
    BY <2>1 DEF Diff
  <2>5. RunInv'
    BY <2>1, <2>3, <2>4 DEF RunInv, Dir
  <2> QED
    BY <2>2, <2>5
<1> QED
  BY <1>1, <1>2, <1>3

\* The diff and the bookkeeping.
LEMMA FinishStep ==
  ASSUME SInv, ExecDiff \/ Fetch \/ WriteSnapshot \/ RecordRevision \/ Report \/ Seed
  PROVE  SnapInv' /\ RunInv' /\ BornInv'
<1> USE DEF SInv, TypeOK, progress, books, world, run, past
<1>1. CASE ExecDiff
  <2>1. /\ pc = "diff" /\ pc' = "fetch" /\ target' = target /\ snapshot' = snapshot
        /\ recorded' = recorded /\ todo' = todo /\ todo = {}
        /\ types' = After(target, diff) /\ born' \in {born, target}
    BY <1>1 DEF ExecDiff, Born, RunInv
  <2>2. SnapInv'
    BY <2>1 DEF SnapInv, Dir, Complete
  <2>3. BornInv'
    BY <2>1 DEF BornInv, RunInv, Dir
  <2>4. Complete(target, types')
    BY <2>1 DEF Complete, After, RunInv
  <2>5. Complete(target, types)'
    BY <2>1, <2>4 DEF Complete
  <2>6. RunInv'
    BY <2>1, <2>5 DEF RunInv, Dir
  <2> QED
    BY <2>2, <2>3, <2>6
<1>2. CASE Fetch
  <2>1. /\ pc = "fetch" /\ pc' = "snapshot" /\ UNCHANGED <<types, target, snapshot, recorded, todo, born>>
        /\ final' = types
    BY <1>2 DEF Fetch
  <2>2. Complete(target, final)'
    BY <2>1 DEF RunInv, Complete
  <2>3. SnapInv' /\ BornInv'
    BY <2>1 DEF SnapInv, BornInv, Dir, Complete
  <2>4. RunInv'
    BY <2>1, <2>2 DEF RunInv, Dir
  <2> QED
    BY <2>3, <2>4
<1>3. CASE WriteSnapshot
  <2>1. /\ pc = "snapshot" /\ pc' = "revision" /\ UNCHANGED <<types, target, recorded, todo, born>>
        /\ snapshot'.sum = target /\ snapshot'.state = final
    BY <1>3 DEF WriteSnapshot
  <2>2. Dir(target) \subseteq recorded /\ final = types /\ Complete(target, final)
    BY <2>1 DEF RunInv
  <2>3. SnapInv' /\ BornInv'
    BY <2>1, <2>2 DEF SnapInv, BornInv, Dir, Complete
  <2>4. RunInv'
    BY <2>1, <2>2 DEF RunInv, Dir
  <2> QED
    BY <2>3, <2>4
<1>4. CASE RecordRevision \/ Report \/ Seed
  <2>1. /\ pc \in {"revision", "report", "seed"} /\ pc' \in {"report", "seed", "idle"}
        /\ UNCHANGED <<types, target, snapshot, recorded, todo, born>>
    BY <1>4 DEF RecordRevision, Report, Seed
  <2> QED
    BY <2>1 DEF RunInv, SnapInv, BornInv, Dir, Complete
<1> QED
  BY <1>1, <1>2, <1>3, <1>4

\* Failures, releases and changes by hand.
LEMMA WorldStep ==
  ASSUME SInv, RunFault \/ Deploy \/ (\E t \in Type : Drift(t))
  PROVE  SnapInv' /\ RunInv' /\ BornInv'
<1> USE DEF SInv, TypeOK, progress, books, world, run, past
<1>1. CASE Fail \/ (\E f \in todo : PartialOverride(f)) \/ (\E t \in Type : Drift(t))
  <2>1. pc' = "idle" /\ UNCHANGED <<snapshot, recorded, born>>
    BY <1>1 DEF Fail, PartialOverride, EndRun, Drift
  <2> QED
    BY <2>1 DEF SnapInv, RunInv, BornInv, Dir, Complete
<1>2. CASE PartialDiff
  <2>1. /\ pc = "diff" /\ pc' = "idle" /\ UNCHANGED <<snapshot, recorded>>
        /\ born' \in {born, target}
    BY <1>2 DEF PartialDiff, EndRun, Born
  <2> QED
    BY <2>1 DEF SnapInv, RunInv, BornInv, Dir, Complete
<1>3. CASE Deploy
  BY <1>3 DEF Deploy, SnapInv, RunInv, BornInv, Dir, Complete, Owned
<1> QED
  BY <1>1, <1>2, <1>3 DEF RunFault

LEMMA InvInit == Init => SInv
<1>1. Init => TypeOK
  BY InitType
<1>2. Dir(0) = {}
  BY SyncAssumption DEF Dir, Release
<1>3. Init => SnapInv /\ RunInv /\ BornInv
  BY <1>2 DEF Init, SnapInv, RunInv, BornInv, NoSnapshot
<1> QED
  BY <1>1, <1>3 DEF SInv

LEMMA InvStep == SInv /\ [Next]_vars => SInv'
<1> SUFFICES ASSUME SInv, [Next]_vars PROVE SInv'
  OBVIOUS
<1>1. TypeOK'
  BY TypeStep DEF SInv
<1>2. CASE Start
  BY <1>1, <1>2, PlanStep DEF Start, SInv
<1>3. CASE RunStep
  BY <1>1, <1>3, OverrideStep, FinishStep DEF RunStep, SInv
<1>4. CASE RunFault \/ Deploy \/ (\E t \in Type : Drift(t))
  BY <1>1, <1>4, WorldStep DEF SInv
<1>5. CASE UNCHANGED vars
  BY <1>5 DEF vars, past, progress, books, world, run, SInv, TypeOK, SnapInv, RunInv,
     BornInv, Dir, Complete, Owned
<1> QED
  BY <1>2, <1>3, <1>4, <1>5 DEF Next

LEMMA Invariant == Spec => []SInv
  BY InvInit, InvStep, PTL DEF Spec

-----------------------------------------------------------------------------
\* A no-op never hides unfinished work, whatever failed or was changed before.
THEOREM NoOpIsDone == Spec => []NoOpMeansDone
<1>1. SInv => NoOpMeansDone
  <2> SUFFICES ASSUME SInv, NoOp(version)
               PROVE  Dir(version) \subseteq recorded /\ Complete(version, types)
    BY DEF NoOpMeansDone, Complete
  <2>1. snapshot.sum = version /\ snapshot.state = types /\ version # 0
    BY DEF NoOp, InSync, SInv, TypeOK, Release
  <2> QED
    BY <2>1 DEF SInv, SnapInv
<1> QED
  BY <1>1, Invariant, PTL

\* The run after a run that ended well has nothing to do.
THEOREM SyncSettles == Spec => SyncIsFixpoint
<1>1. SInv /\ [Next]_vars => [Seed => NoOp(target)']_vars
  <2> SUFFICES ASSUME SInv, Seed PROVE NoOp(target)'
    OBVIOUS
  <2>1. /\ pc = "seed" /\ UNCHANGED <<types, snapshot, recorded, target>>
        /\ todo = {} /\ Dir(target) \subseteq recorded \cup todo
        /\ snapshot.sum = target /\ snapshot.state = types
    BY DEF Seed, run, SInv, RunInv
  <2> QED
    BY <2>1 DEF NoOp, InSync, Pending, Dir
<1> QED
  BY <1>1, Invariant, PTL DEF Spec, SyncIsFixpoint

\* A database never executes an override of the release it was born at, or of
\* an earlier one.
THEOREM BornCurrent == Spec => HistoryNotReplayed
<1> DEFINE A == \A f \in begun' \ begun : f \notin Dir(born)
<1>1. SInv /\ [Next]_vars => [A]_<<begun, born>>
  <2> SUFFICES ASSUME SInv, [Next]_vars PROVE A \/ UNCHANGED <<begun, born>>
    OBVIOUS
  <2>1. ASSUME NEW f \in todo, pc = "overrides" PROVE f \notin Dir(born)
    BY <2>1 DEF SInv, RunInv, BornInv
  <2>2. (\E f \in todo : ExecOverride(f) \/ PartialOverride(f)) => A
    BY <2>1 DEF ExecOverride, PartialOverride
  <2>3. \/ \E f \in todo : ExecOverride(f) \/ PartialOverride(f)
        \/ begun' \subseteq begun
    BY DEF Next, vars, past, progress, Start, Plan, RunStep, RecordBaseline, OverrideError,
       RecordOverride, Reconcile, ExecDiff, Fetch, WriteSnapshot, RecordRevision,
       Report, Seed, RunFault, Fail, PartialDiff, Deploy, Drift
  <2> QED
    BY <2>2, <2>3
<1> QED
  BY <1>1, Invariant, PTL DEF Spec, HistoryNotReplayed

\* A destructive sync never drops what a recorded override left behind.
THEOREM OwnedKept == Spec => OwnedTypesKept
<1> DEFINE A == \A t \in Owned(recorded) :
                  pc = "diff" /\ types[t] # Absent => types'[t] # Absent
<1>1. SInv /\ [Next]_vars => [A]_<<types, pc>>
  <2> SUFFICES ASSUME SInv, [Next]_vars, pc = "diff",
                      NEW t \in Owned(recorded), types[t] # Absent
               PROVE  types'[t] # Absent
    OBVIOUS
  <2>1. t \in Type /\ (t \in diff => Desired[target][t] # Absent)
    BY DEF SInv, RunInv, Owned
  <2>2. ASSUME NEW D \in SUBSET diff, types' = After(target, D)
        PROVE  types'[t] # Absent
    BY <2>1, <2>2 DEF After
  <2>3. CASE ExecDiff \/ PartialDiff
    BY <2>2, <2>3 DEF ExecDiff, PartialDiff
  <2>4. CASE types' = types
    BY <2>4
  <2>5. ExecDiff \/ PartialDiff \/ types' = types
    BY DEF Next, vars, Start, Plan, RunStep, RecordBaseline, ExecOverride,
       OverrideError, RecordOverride, Reconcile, Fetch, WriteSnapshot,
       RecordRevision, Report, Seed, RunFault, Fail, PartialOverride, Deploy, Drift
  <2> QED
    BY <2>3, <2>4, <2>5
<1> QED
  BY <1>1, Invariant, PTL DEF Spec, OwnedTypesKept
=============================================================================
