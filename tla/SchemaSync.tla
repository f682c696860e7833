------------------------------ MODULE SchemaSync ------------------------------
(***************************************************************************)
(* A declarative sync of arcadedb-migrate: Migrator::sync_dir_inner, sync, *)
(* build_plan and diff_statements (migrator/mod.rs), with the snapshot and *)
(* the tables of schema/revisions.                                         *)
(*                                                                         *)
(* Releases of the schema directory are deployed one after the other, and  *)
(* one run at a time (the lock) brings the database to the current one:    *)
(* pending overrides first, then the diff of the desired schema against    *)
(* what the overrides left, then the bookkeeping, then the seeds.  A run   *)
(* can fail or crash between any two statements and part-way through the   *)
(* diff batch; a statement whose reply is lost is that statement, executed,*)
(* followed by a failure.  Someone else may change the schema between runs.*)
(*                                                                         *)
(* Data.  A type is there with a shape (its kind and properties) or not at *)
(* all.  An override is what OverrideContract promises of it: its          *)
(* statements take effect once, whichever runs execute them, and then it   *)
(* is recorded.  If one that cannot be executed twice took effect and its  *)
(* marker was not written, the override is refused from then on.           *)
(***************************************************************************)
EXTENDS Integers, Sequences, FiniteSets

CONSTANTS
  Type, Shape, Absent,
  Desired,     \* Desired[v]: shape of each type in release v, or Absent
  NFile,       \* override files 1..NFile, in filename order
  Since,       \* Since[f]: first release with override f
  Effect,      \* Effect[f]: what f makes of the types it rebuilds or drops
  Needs,       \* Needs[f]: types that must exist for f to run
  Strategies,  \* DropStrategy values the runs are started with
  MaxFaults,   \* bound: failures and crashes
  MaxDrift     \* bound: schema changes by others

File == 1..NFile
Release == 1..Len(Desired)
Schemas == [Type -> Shape \cup {Absent}]
NoSnapshot == [sum |-> 0, state |-> [t \in Type |-> Absent]]

ASSUME SyncAssumption ==
  /\ Absent \notin Shape
  /\ Desired \in Seq(Schemas) /\ Desired # <<>>
  /\ NFile \in Nat
  /\ Since \in [File -> Release]
  /\ \A f \in File :
       /\ DOMAIN Effect[f] \subseteq Type
       /\ Effect[f] \in [DOMAIN Effect[f] -> Shape \cup {Absent}]
       /\ Needs[f] \subseteq Type
  /\ Strategies \subseteq {"Never", "Explicit"} /\ Strategies # {}
  /\ MaxFaults \in Nat /\ MaxDrift \in Nat

VARIABLES
  \* the database
  types,       \* the live schema
  snapshot,    \* schema_snapshot: checksum and introspected state
  recorded,    \* schema_overrides_applied
  journaled,   \* overrides all of whose statements took effect, not recorded
  begun,       \* overrides some of whose statements took effect
  blocked,     \* overrides with a loud statement executed and not journaled
  audited,     \* checksums that have a row in schema_revisions
  seeded,      \* the release whose seeds ran last, 0 before
  \* the world
  version,     \* the release deployed
  faults, drifts,
  \* the run
  pc, target, strategy,
  todo,        \* pending overrides not yet handled
  baseline,
  diff,        \* statements of the diff phase
  final,       \* the state the snapshot will record
  warned,      \* the run found drift it cannot fix
  told,        \* a report with it reached the caller since the snapshot was written
  born         \* release of the last baseline run whose diff created a type

progress == <<journaled, begun, blocked>>
books == <<snapshot, recorded, audited, seeded>>
world == <<version, faults, drifts>>
run == <<target, strategy, todo, baseline, diff, final, warned>>
past == <<told, born>>
vars == <<types, progress, books, world, pc, run, past>>

----------------------------------------------------------------------------
(* What build_plan and diff_statements compute. *)

Dir(v) == {f \in File : Since[f] <= v}

\* compute_pending: the files that are not in the registry.
Pending(v) == Dir(v) \ recorded

\* owned_types: what the recorded statements, in filename order, leave behind.
Owned(files) ==
  {t \in Type : \E f \in files :
     /\ t \in DOMAIN Effect[f] /\ Effect[f][t] # Absent
     /\ \A g \in files : g > f => t \notin DOMAIN Effect[g]}

\* diff_statements: create what is missing, and under Explicit drop what is
\* not desired and not owned.  A type with another shape is left alone.
Diff(v, s, owned) ==
  {t \in Type : Desired[v][t] # Absent /\ types[t] = Absent}
  \cup {t \in Type : s = "Explicit" /\ Desired[v][t] = Absent
                     /\ types[t] # Absent /\ t \notin owned}

\* The schema after the statements on the types of D were executed.
After(v, D) == [t \in Type |-> IF t \in D THEN Desired[v][t] ELSE types[t]]

\* Kind drift: no statement can fix it, the run warns.
Drifted(v) == \E t \in Type :
  Desired[v][t] # Absent /\ types[t] # Absent /\ types[t] # Desired[v][t]

\* Mutant: only the checksums are compared.
InSync_sumOnly(v) == snapshot.sum = v

InSync(v) == snapshot.sum = v /\ snapshot.state = types

\* The warnings of a plan; a no-op has none.
Warns(v) == ~InSync(v) /\ Drifted(v)

NoOp(v) == InSync(v) /\ Pending(v) = {}

Empty == \A t \in Type : types[t] = Absent

----------------------------------------------------------------------------
TypeOK ==
  /\ types \in Schemas
  /\ snapshot \in [sum : 0..Len(Desired), state : Schemas]
  /\ recorded \subseteq File /\ journaled \subseteq File /\ begun \subseteq File
  /\ blocked \subseteq File /\ told \in BOOLEAN
  /\ audited \subseteq Release
  /\ seeded \in 0..Len(Desired) /\ born \in 0..Len(Desired)
  /\ version \in Release /\ target \in Release
  /\ faults \in 0..MaxFaults /\ drifts \in 0..MaxDrift
  /\ pc \in {"idle", "overrides", "diff", "fetch", "snapshot", "revision",
            "report", "seed"}
  /\ strategy \in Strategies
  /\ todo \subseteq File /\ diff \subseteq Type
  /\ baseline \in BOOLEAN /\ warned \in BOOLEAN
  /\ final \in Schemas

Init ==
  /\ types = NoSnapshot.state /\ snapshot = NoSnapshot
  /\ recorded = {} /\ journaled = {} /\ begun = {} /\ blocked = {} /\ audited = {}
  /\ seeded = 0 /\ born = 0 /\ version = 1 /\ faults = 0 /\ drifts = 0
  /\ pc = "idle" /\ target = 1 /\ strategy \in Strategies /\ todo = {} /\ diff = {}
  /\ baseline = FALSE /\ warned = FALSE /\ told = FALSE /\ final = NoSnapshot.state

----------------------------------------------------------------------------
\* sync_dir_inner reads the directory; build_plan reads the database.
Plan(s) ==
  /\ pc = "idle"
  /\ target' = version /\ strategy' = s
  /\ todo' = Pending(version)
  /\ baseline' = (Empty /\ snapshot.sum = 0)
  /\ diff' = IF InSync(version) THEN {} ELSE Diff(version, s, Owned(recorded))
  /\ warned' = Warns(version)
  /\ \/ \* nothing to apply, nothing to record
        NoOp(version) /\ pc' = "seed" /\ UNCHANGED final
     \/ \* no statement to execute: the plan's state is recorded
        ~NoOp(version) /\ todo' = {} /\ diff' = {} /\ pc' = "snapshot" /\ final' = types
     \/ ~(todo' = {} /\ diff' = {}) /\ pc' = "overrides" /\ UNCHANGED final
  /\ UNCHANGED <<types, progress, books, world, past>>

First(f) == f \in todo /\ \A g \in todo : f <= g

\* Mutant: the override is skipped and not recorded.
RecordBaseline_skip(f) ==
  /\ pc = "overrides" /\ First(f) /\ baseline
  /\ todo' = todo \ {f}
  /\ UNCHANGED <<types, progress, books, world, pc, target, strategy, baseline,
                 diff, final, warned, past>>

\* A new database is born at the current schema: overrides are only recorded.
RecordBaseline(f) ==
  /\ pc = "overrides" /\ First(f) /\ baseline
  /\ recorded' = recorded \cup {f} /\ todo' = todo \ {f}
  /\ UNCHANGED <<types, progress, snapshot, audited, seeded, world, pc, target,
                 strategy, baseline, diff, final, warned, past>>

\* Mutant: a statement the journal lists is executed again.
Runs_afresh(f) == f \notin blocked /\ \A t \in Needs[f] : types[t] # Absent

\* The server takes what is left of f: all of it needs the types f is about; of
\* one begun, no statement is left that took effect and that it would refuse.
Runs(f) == f \notin blocked /\ (f \in begun \/ \A t \in Needs[f] : types[t] # Absent)

Apply(f, D) == types' = [t \in Type |-> IF t \in D THEN Effect[f][t] ELSE types[t]]

\* apply_override executes the statements the journal does not list.
ExecOverride(f) ==
  /\ pc = "overrides" /\ First(f) /\ ~baseline
  /\ f \notin journaled /\ Runs(f)
  /\ Apply(f, DOMAIN Effect[f])
  /\ begun' = begun \cup {f} /\ journaled' = journaled \cup {f}
  /\ UNCHANGED <<blocked, books, world, pc, run, past>>

\* The server refuses a statement on a type that is not there, or one that took
\* effect and cannot take it twice.
OverrideError(f) ==
  /\ pc = "overrides" /\ First(f) /\ ~baseline
  /\ f \notin journaled /\ ~Runs(f)
  /\ pc' = "idle"
  /\ UNCHANGED <<types, progress, books, world, run, past>>

\* record_override and clear_progress.
RecordOverride(f) ==
  /\ pc = "overrides" /\ First(f) /\ ~baseline /\ f \in journaled
  /\ recorded' = recorded \cup {f} /\ todo' = todo \ {f}
  /\ journaled' = journaled \ {f} /\ begun' = begun \ {f}
  /\ UNCHANGED <<types, blocked, snapshot, audited, seeded, world, pc, target,
                 strategy, baseline, diff, final, warned, past>>

\* Mutant: what the overrides of this run created is not owned.
Reconcile_unowned ==
  /\ pc = "overrides" /\ todo = {}
  /\ diff' = Diff(target, strategy, {})
  /\ warned' = (warned \/ Drifted(target))
  /\ pc' = "diff"
  /\ UNCHANGED <<types, progress, books, world, target, strategy, todo, baseline,
                 final, past>>

\* After the overrides: ownership and the diff again, from what is there now.
Reconcile ==
  /\ pc = "overrides" /\ todo = {}
  /\ diff' = Diff(target, strategy, Owned(recorded))
  /\ warned' = (warned \/ Drifted(target))
  /\ pc' = "diff"
  /\ UNCHANGED <<types, progress, books, world, target, strategy, todo, baseline,
                 final, past>>

Born(D) == born' = IF baseline /\ \E t \in D : types[t] = Absent THEN target ELSE born

\* The time-series statements one by one, the others as a batch.
ExecDiff ==
  /\ pc = "diff"
  /\ types' = After(target, diff) /\ Born(diff)
  /\ pc' = "fetch"
  /\ UNCHANGED <<progress, books, world, run, told>>

\* Mutant: the snapshot records the state the diff was computed from.
Fetch_before ==
  /\ pc = "fetch"
  /\ final' = [t \in Type |-> IF t \in diff THEN Absent ELSE types[t]]
  /\ pc' = "snapshot"
  /\ UNCHANGED <<types, progress, books, world, target, strategy, todo, baseline,
                 diff, warned, past>>

\* The state after the diff is what the snapshot records.
Fetch ==
  /\ pc = "fetch"
  /\ final' = types
  /\ pc' = "snapshot"
  /\ UNCHANGED <<types, progress, books, world, target, strategy, todo, baseline,
                 diff, warned, past>>

WriteSnapshot ==
  /\ pc = "snapshot"
  /\ snapshot' = [sum |-> target, state |-> final] /\ told' = FALSE
  /\ pc' = "revision"
  /\ UNCHANGED <<types, progress, recorded, audited, seeded, world, run, born>>

\* Mutant: the row has the checksum of the release before.
RecordRevision_previous ==
  /\ pc = "revision"
  /\ audited' = audited \cup {target - 1}
  /\ pc' = "report"
  /\ UNCHANGED <<types, progress, snapshot, recorded, seeded, world, run, past>>

RecordRevision ==
  /\ pc = "revision"
  /\ audited' = audited \cup {target}
  /\ pc' = "report"
  /\ UNCHANGED <<types, progress, snapshot, recorded, seeded, world, run, past>>

\* Only now is there an ApplyReport with the warnings, logged before the seeds and
\* returned with them or with their error.
Report ==
  /\ pc = "report"
  /\ told' = warned
  /\ pc' = "seed"
  /\ UNCHANGED <<types, progress, books, world, run, born>>

\* The seeds, and the run is over.
Seed ==
  /\ pc = "seed"
  /\ seeded' = target
  /\ pc' = "idle"
  /\ UNCHANGED <<types, progress, snapshot, recorded, audited, world, run, past>>

----------------------------------------------------------------------------
EndRun == faults < MaxFaults /\ faults' = faults + 1 /\ pc' = "idle"

\* A statement fails, or the run crashes before it.
Fail ==
  /\ pc # "idle" /\ EndRun
  /\ UNCHANGED <<types, progress, books, version, drifts, run, past>>

\* An override fails after some of its statements; if it fails between a loud one
\* and its marker, every later run executes that statement again and is refused.
PartialOverride(f) ==
  /\ pc = "overrides" /\ First(f) /\ ~baseline
  /\ f \notin journaled /\ Runs(f) /\ EndRun
  /\ \E D \in SUBSET DOMAIN Effect[f] : Apply(f, D)
  /\ begun' = begun \cup {f} /\ blocked' \in {blocked, blocked \cup {f}}
  /\ UNCHANGED <<journaled, books, version, drifts, run, past>>

\* The batch fails: what ran before the failure committed.
PartialDiff ==
  /\ pc = "diff" /\ EndRun
  /\ \E D \in SUBSET diff : types' = After(target, D) /\ Born(D)
  /\ UNCHANGED <<progress, books, version, drifts, run, told>>

Deploy ==
  /\ version < Len(Desired)
  /\ version' = version + 1
  /\ UNCHANGED <<types, progress, books, faults, drifts, pc, run, past>>

\* Someone changes a type by hand, between runs.
Drift(t) ==
  /\ pc = "idle" /\ drifts < MaxDrift
  /\ \E s \in (Shape \cup {Absent}) \ {types[t]} : types' = [types EXCEPT ![t] = s]
  /\ drifts' = drifts + 1
  /\ UNCHANGED <<progress, books, version, faults, pc, run, past>>

----------------------------------------------------------------------------
RunStep ==
  \/ \E f \in todo :
       RecordBaseline(f) \/ ExecOverride(f) \/ OverrideError(f) \/ RecordOverride(f)
  \/ Reconcile \/ ExecDiff \/ Fetch \/ WriteSnapshot \/ RecordRevision \/ Report \/ Seed

RunFault == Fail \/ (\E f \in todo : PartialOverride(f)) \/ PartialDiff

Start == \E s \in Strategies : Plan(s)

Next == Start \/ RunStep \/ RunFault \/ Deploy \/ (\E t \in Type : Drift(t))

Spec == Init /\ [][Next]_vars

\* A run goes on, a failed one is started again, the next release comes.
FairSpec == Spec /\ WF_vars(RunStep) /\ WF_vars(Start) /\ WF_vars(Deploy)

----------------------------------------------------------------------------
(* Properties *)

\* What a run that ended well leaves is in sync: the next one is a no-op
\* ("recording pre-diff state would make the next sync detect false drift
\* forever", mod.rs).
SyncIsFixpoint == [][Seed => NoOp(target)']_vars

\* A no-op never hides unfinished work, whatever failed or was changed before:
\* every declared type is there and every override is recorded.
NoOpMeansDone ==
  NoOp(version) =>
    /\ Dir(version) \subseteq recorded
    /\ \A t \in Type : Desired[version][t] # Absent => types[t] # Absent

\* A database born at a release never executes the overrides of that release or
\* of earlier ones, even if the run that created it did not end.
HistoryNotReplayed ==
  [][\A f \in begun' \ begun : f \notin Dir(born)]_<<begun, born>>

\* A destructive sync never drops what an override left behind.
OwnedTypesKept ==
  [][\A t \in Owned(recorded) :
       pc = "diff" /\ types[t] # Absent => types'[t] # Absent]_<<types, pc>>

\* After a sync that may drop, nothing is left that is neither desired nor
\* owned ("Emit drop actions for objects in actual-but-not-desired", diff.rs).
ExplicitDropsLeftovers ==
  [][Seed /\ strategy = "Explicit" =>
       \A t \in Type : Desired[target][t] = Absent /\ t \notin Owned(recorded)
                         => types[t] = Absent]_vars

\* A run that ends well on a schema with kind drift has told of it, or an earlier
\* run did since the snapshot was written: the drift is "detected here so it can't
\* stay invisible" (mod.rs).
DriftReported == [][Seed /\ Drifted(target) => told]_vars

\* f needs a developer.  It was interrupted behind a statement that cannot be
\* executed twice; or none of its statements ran and it needs a type that is not
\* there, because the release that would have created it was skipped.
Blocked(f) ==
  \/ f \in blocked
  \/ f \notin begun /\ \E t \in Needs[f] : types[t] = Absent

\* The last release is synced and its seeds run, through any failures, unless an
\* override of it needs a developer for good.
EventuallySynced ==
  \/ <>[](NoOp(Len(Desired)) /\ seeded = Len(Desired))
  \/ <>[](\E f \in Pending(version) : Blocked(f))
=============================================================================
