# Verification of arcadedb-tools

TLA+ specifications of the ArcadeDB tools: the migration library and tool
(`crates/arcadedb-migrate`) and the client library (`crates/arcadedb-protocol`).
TLC checks them on small instances, TLAPS proves the central theorems for every
value of the constants. Paths below are relative to `crates/`; `mod.rs` is
`arcadedb-migrate/src/migrator/mod.rs` unless it has a path.

    tlc -config migrate_parts.cfg MCMigrateParts.tla      # a run
    tlapm MigrationLock_proofs.tla                        # a proof

`PROJECT.json` lists the components, the runs, a mutant of the model for every
property of a run, the source lines of every definition, the findings, the
hazards and the theorems.

## 1. Inventory

### arcadedb-migrate

| part | state | operations | talks to |
|---|---|---|---|
| **schema lock** (`schema/revisions/lock.rs`) | one row of `schema_migrate_lock`: holder, expiry | `acquire_lock` (SELECT, then INSERT or compare-and-set UPDATE), `release_lock` | taken around `sync_dir` and `apply_rollout` |
| **override engine** (`mod.rs` `apply_override`, `schema/revisions/progress.rs`) | journal `schema_override_progress`, registry `schema_overrides_applied` | copy phase in a transaction, verified by counts; swap phase, statement by statement with a marker; record; clear | called by a sync and by a rollout |
| **declarative sync** (`mod.rs` `sync_dir_inner`, `build_plan`, `sync`) | `schema_snapshot`, `schema_revisions` | plan, overrides or baseline, diff batch, snapshot, revision row, seeds | engine, diff, registry |
| **schema diff** (`schema/diff.rs`, `schema/introspect.rs`, `schema/model`) | none of its own; compares source, live schema and snapshot | statements and warnings | executed by a sync |
| **rollouts** (`migrator/rollout.rs`, `cli/rollout.rs`) | rollout files; "applied" is read off the snapshot's checksum | write, select, apply | engine |
| **override registry and manifest** (`migrator/fs.rs`, `migrator/manifest.rs`) | the directory, `overrides.sum`, registry | `compute_pending`, `verify_manifest`, what developers do to files | sync |
| **override classification** (`migrator/classification.rs`) | none | split into copy and swap, order check, copy pairs, owned types | engine, sync |
| parser, TimeSeries model, checksums, CLI | none | text to model, hashing, arguments | |

### arcadedb-protocol

| part | state | operations |
|---|---|---|
| **transactions** (`client/transaction.rs`) | transaction ids held by the client | `run_transaction` with retries; the guard: commit, rollback, background rollback on drop |
| **test pool** (`testutil.rs`), **connecting** (`client/mod.rs`) | semaphore and list of slots per process; databases on the server | sweep, checkout, return; `open_or_create` |
| **cache** (`cache.rs`) | keys on the server, each with an envelope of its own expiry | `set`, `get` with its heal, `getdel`, raw values |
| **script buffer, batch writes** (`batch.rs`) | statements not sent yet | push, flush, finish; `upsert_edge`, `apply_ddl` |
| **typed records** (`client/records.rs`, `client/query.rs`) | what the caller read | create, partial update, delete, lookup, bulk insert and upsert |
| **values and records** (`encode.rs`, `decode.rs`, `record/`), **record macros** (`arcadedb-record-macros`) | none | encode, decode, changed columns, params |
| **statement builders** (`filter.rs`, `SetClause` in `encode.rs`, `client/execute.rs`) | fragments and parameters | the calls of both builders; execute with the merged parameters |
| **DTO drift helper** (`arcadedb-migrate` `schema/dto_drift.rs`) | none | `assert_dto_wires`, `assert_dto_kinds` against the live schema |
| **streaming** (`stream.rs`, `client/streaming.rs`) | a stream | next, stop |
| admin, options, `sql!` | none | conversions and single requests |

The client parts share the connection and nothing else: the row of a typed write is
not the entry of a cache. Records meet values and macros in every call, and the
drift helper meets the decoders in every row it speaks about.

### What is hard

* Every statement is a request of its own. It may be lost, executed with its
  reply lost, or be the last one before the process dies; nearly all protocols
  here are "do, then write down that it was done".
* Two processes may migrate at once; the lock is a lease, its row is read and
  claimed in two requests, and clocks differ.
* Decisions are made by comparing with what an earlier run wrote down (snapshot,
  registry, journal, manifest), and developers and operators change files and
  schema in between.
* `MOVE VERTEX` and DDL commit as they run; only `INSERT ... FROM SELECT` joins
  the copy transaction.
* Transactions conflict, the commit may be answered late or never; futures may be
  dropped at any await.
* A row outlives the value it was written from: a partial update says only what
  changed, an option that is None says nothing, and other clients write in between.
* The parts of a statement are built apart and meet in one map of parameters.

The correctness properties of each part are those of its section below.

## 2. Modules

| module | models | composed of |
|---|---|---|
| `MigrationLock` | the lock and the runs it serializes | |
| `OverrideContract` | what the engine promises, without failures | |
| `OverrideEngine` | `apply_override`, `apply_copy_phase` and the journal | implements `OverrideContract` |
| `SchemaSync` | a declarative sync over releases | an override is what `OverrideContract` promises |
| `SchemaDiff` | the diff inside a type, and its snapshot | finer view of the diff step of `SchemaSync` |
| `RolloutApply` | rollouts | EXTENDS `OverrideEngine` |
| `OverrideRegistry` | override files through the hands of developers | |
| `OverrideFiles` | one file: classification and the two phases | |
| `ClientTransaction` | `run_transaction` and the guard against a server | |
| `TestPool` | pool, sweep and connecting | |
| `Option` | Rust's Option | |
| `WireValues` | the values of the wire: encoders and decoders of the scalars | |
| `RecordTypes` | Rust types and record shapes, as the derives classify them | EXTENDS `WireValues` |
| `RecordCodec` | encoders, decoders and change detection of values and records | EXTENDS `RecordTypes` |
| `TypedRows` | what typed writes promise, in Rust values | EXTENDS `RecordTypes` |
| `RecordStore` | typed reads and writes of clients on one row | EXTENDS `RecordCodec`, implements `TypedRows` |
| `SqlClauses` | `SetClause`, `FilterClause` and the UPDATE they make | EXTENDS `WireValues` |
| `StatementStore` | clients that run such statements | EXTENDS `SqlClauses` |
| `ClientCache` | the key-value calls of `Cache` | |
| `ScriptBuffer` | `ScriptBuffer` and its caller | |
| `DtoDrift` | the drift checks, migrations and readers | EXTENDS `RecordCodec` |
| `*_proofs` | theorems: `MigrationLock`, `OverrideEngine` (with `RolloutApply`), `SchemaSync`, `SchemaDiff`, `OverrideRegistry`, `OverrideFiles`, `TestPool`, and `ClientData` for the client parts (`ClientTransaction`, `ClientCache`, `ScriptBuffer`, `WireValues`, `StatementStore`, `RecordCodec`, `RecordStore`, `DtoDrift`) | EXTENDS the module |
| `MC*` | instances; `MCMigrateParts` puts lock, registry, files and diff side by side, `MCClientData` the client parts; `MCOverrideEngine`, `MCRolloutApply`, `MCSchemaSync`, `MCSchemaDiff` and `MCDtoDrift` have one part each | EXTENDS the modules |

Definitions named `X_something` that follow a comment "Mutant" are `X` with a
plausible bug. Nothing uses them; they are there to be put in the place of `X`, and
the properties must then fail.

### MigrationLock

`ReadLock`, `RefuseClaim`/`SendClaim` and `ExecClaim` are the three parts of
`acquire_lock`, with the claim taking effect iff the row still has the holder that
was read (`ClaimTakes`). A run is `working` until `FinishRun`; the release may come
late or never. `Crash` and `LoseRequest` may strike anywhere. Instead of clock
readings the model stores the time an expiry stamp has left, counted down by
`Tick`, so that time is unbounded and the state space finite; `Ahead[r]` is how far
the clock of `r` is ahead.

Promised: two runs whose leases are running never work together
(`AtMostOneLiveRun`), a live run owns the row, a fresh claim is never overwritten
(`FreshClaimKept`), and a crashed holder is taken over (`CrashedLockTakenOver`).
A run that outlives its lease is not protected by the code and not by the
properties: `LiveRun` says "while even the fastest clock sees the lease running".

### OverrideEngine and OverrideContract

One action per statement of `apply_override`: begin and count, copy, verify, commit
with the marker, each swap and its marker, record, clear. `EngineFault` has, for
each of them, the failure before it is executed and the loss of its reply. A crash
leaves the same state behind as an error, so they are one action. An override has
one source and one new target; `Selects` says how many rows its copy takes; `Loud`
says which swap statements the server refuses to execute twice.

Promised: no row lost or copied twice over any number of retries; a recorded
override is done; a marked swap statement is never repeated; the whole implements
`OverrideContract`, in which the copy is made once, swaps take effect one after the
other and only a finished override is recorded; and a failed migration that is run
again gets through, except for the two cases that need a developer (`Blocked`).

### SchemaSync

`Plan` is the reading half of `sync_dir_inner` with `build_plan`; then come
overrides (executed and recorded, or only recorded in a baseline run), `Reconcile`
(the second introspection and diff after overrides ran), the diff batch, the final
introspection, snapshot, revision row, the report and seeds. The batch and each override
may fail part-way. An override that fails between a statement the server does not take
twice and its marker is `blocked`: every later run executes that statement again and is
refused (`mod.rs:402-416`). A run warns of drift when it plans or reconciles (`warned`),
but the caller sees it in the `ApplyReport` only, which a run that fails before
`Report` does not have (`told`). A run may drop or not (`Strategies`). `Deploy` brings
the next release, possibly before the last one was synced, and `Drift` is someone
else's change between runs.

### SchemaDiff

The live schema, the source and the snapshot with types, properties, super-types,
indexes, constraints and defaults; `Diff` is the set of statements and `Place` their
order in the script. The three-way rule for defaults (`DefaultDiffers`) is the
heart: the text of a default is not what introspection shows of it (`Shown`), so
the diff must compare with what an earlier run recorded: `snapshot` holds the source
applied last and the live schema after it, once a run was recorded (`taken`).

### RolloutApply

Rollouts are written from a plan, one per release; the newest whose checksum is not
the recorded one is selected; its sections go through the engine one by one, then
the diff, the snapshot and the revision row. `left` are the sections an apply has
still before it; `Place` is the order of their names, in which they are taken. `Sum`
is the checksum of a release: one that adds an override and leaves the schema alone has
the checksum of the one before, and its rollout no diff.

### OverrideRegistry

Developers put, edit, rename and delete files and rewrite the manifest at any time;
a run reads the directory, verifies it and executes what is pending, with the journal
by file name and ordinal. Statement and marker are one step here: `OverrideEngine`
has the window between them.

### OverrideFiles

A developer writes any file of a few statements; the order check, the split
(`SplitAfter`, statement by statement), the counts and the phases follow. It shows
that the split never reorders an accepted
file, and that the ownership computed from the text of a file is what the file
leaves behind. What a refusal leaves behind is the engine's matter.

### ClientTransaction

The server keeps open transactions and the version each began at; a write or a
commit of an outdated one is a conflict. `run_transaction` retries on conflicts
only; a commit may be lost, executed with its reply lost or executed late; a guard
rolls back in the background when dropped; the future may be cancelled. The reply to a
commit has two flags, `success` and `committed`, and the client looks at the first: a
server that has the transaction no longer may answer with an error (`CommitFails`) or
with a success that committed nothing (`CommitNothing`), which the client returns as
Ok. `err` is "gone" then, and `AtMostOnce` says that this is the only Ok without effect.

### TestPool

The semaphore and the list of slots are separate (a permit is taken, then a slot
popped; a slot is pushed, then the permit given back), every request of a checkout
is a step, the first checkout of a process sweeps the databases of dead ones, and
processes die. The free slots are a set: the order in which the list hands them
out is abstracted.

### WireValues, RecordTypes, RecordCodec

A record type is data: fields with their attributes (rename, default, flatten,
skip, key) and their types. `Encode`, `Decode` and `PropsDiff` are the derived
impls as functions of that data, one operator per branch of the macro: `Pushed` and
`Held` for the two ways a field is written, `StructField`, `FlattenedField`,
`SyntheticField` and `VariantField` for the ways one is read. The scalars are in
`WireValues`: one arm of `EncodeScalar` and `DecodeScalar` per impl of `IntoGrpcValue`
and `FromValue`. Widths are constants (an i8 is -`Half8` .. `Half8` - 1), scaled down
for TLC; `WidthAssumption` asks that each is at least twice the one before. Floats are
numbers of halves, and a string is a tuple that says what it spells, so that a String
that spells a link, a date or a decimal decodes as the code decodes it.

Types nest. `Encode` and `Decode` are one layer of the conversion, the one a derive or
an impl for a container writes, and what the type nests is converted by the constants
`EncodePart` and `DecodePart` (its default by `DefaultPart`), as the generated code calls
the trait of the field's type. `MCClientData` closes the circle: its `EncodeNested`,
`DecodeNested` and so on, which the cfgs give for the constants, are
`Encode`, `Decode` and so on again, so TLC converts types of any depth. Nothing is
RECURSIVE, so the layer can be reasoned about.

Two snapshots are compared twice: `PropsDiff` compares what they encode to and
`ChangedWires` their fields, as Rust compares them (`Same`, with `SamePart` for what is
nested). The two differ in two places. A Decimal is equal to itself at another scale,
and its encoding is not. And a HashSet has an order of its own: `Encode` gives one of the
lists of a set, `Shuffled` (with `ShuffledPart`) says where there are others, and the
argument `again` of `PropsDiff` is any set of such columns that a diff takes for changed
although they are not. A flattened field is spliced into its
record by the record itself (`FlatProps`, `FlatFrom`); a flattened record that flattens
another is not modelled.

### TypedRows and RecordStore

`RecordStore` has two clients, one row and every typed call. A request may be lost,
its reply may be lost, it may be carried out after the client gave up, and the
caller may repeat it. `TypedRows` says what that may amount to in terms of Rust
values alone: a write that is asked for takes effect, possibly again, or never, and
does to the record, field by field, what its value says (`Over`); a partial update may
say again what it did not change (`again`, see the codec). The refinement
`WritesMeanTheirTypes` decodes the row: encoding, the changed columns, the merge on the
server and decoding together must come to that. TLC checks it for five record types
that between them have every attribute and kind of value. It cannot hold for every type a
derive accepts (a field written under one name and read under another does not come back),
and `Faithful` says for which it does: fields have columns of their own; one that is
read is read from where it is written; one that may be left out has a default; and what is
written of a value is read as that value (`ComesBack`). `RecordsFaithful`, which TLC evaluates,
says that four of the five types have this. The fifth, `Spread`, is an enum flattened into
the row, whose columns mean what its discriminator says; it has no column for every field.

### SqlClauses and StatementStore

A statement is its calls. `Setting` and `Filtering` build fragments and parameters
as the two builders do, with the names they choose, and `Execute` is what the server
does with the merged map. A name is its column, its tag and its number, so a column
whose own name ends like a tag (`n__gte`) is not modelled as colliding with it.
`Meant` is the same statement read call by call without
names. `StatementMeansItsCalls` says both do the same to the row at any time the
request may arrive. `AppendOnce` is about the idiom of `encode.rs`, an append
guarded by its own element's absence.

### ClientCache

`set` makes an envelope with the clock of its host and sends it; `get` is a request, a
judgement with the clock of its own host, and a GETDEL if the entry is expired or does
not decode, with anything of anybody in between; raw writers put what does not decode.
The server may restart. `now` is the time nobody sees; what a host reads is any of
`UnixNow`, up to `Skew` seconds ahead, another one at every reading. `AnswersAreTimely`
is what is left of the time to live then: it holds up to the skew, at both ends.

### ScriptBuffer

`Push` flushes at the limit, a script runs statement by statement and may stop at an
error or lose its reply, and the caller goes on or finishes.

### DtoDrift

Migrations give a type any columns or drop it, a writer stores a row of the values the
server may hold under them, and services check their record types: `AssertWires` on the
schema it fetches, then `AssertKinds` on the schema it fetches, with any migration
between the two. What was checked must decode, by the decoder of `RecordCodec`,
save for a value that does not fit (`Fits`) and a column that went away. It does not:
see the run `drift_undecodable`. `Undecoded` is the table of the scalar fields and
columns that the second check accepts together and that do not go together;
`CheckedColumnsDecode` proves that it is the whole table.

### MCClientData

The client parts share nothing, so a behaviour of `ClientSpec` is one of one part
(`part`), and the states of the parts add up. The variables of the others keep
their initial state, where their properties hold. The parts may stop anywhere
(`Rest`), but for a transaction, so a runner that hangs would be reported
as a deadlock. `Exchanged` permutes the clients, and the two tasks of one process:
neither has an identity in the code or in a property. All properties of the run are
safety properties, for which this is sound.

### MCMigrateParts

The same for four parts of the migration library: lock, registry, files and diff. The
engine, the sync and the rollouts, which take them for granted, have runs of their own.
The fairness of a part is asked of the behaviours of that part (`InLock`, `InRegistry`).
There is no symmetry, because two of the properties are liveness properties.

## 3. Runs

All runs are exhaustive for their instance. Bounds on failures, edits, claims and
cancellations are in the guards of the actions they bound, under the names
`Max...`.

| run | instance | what it shows |
|---|---|---|
| `migrate_parts` | lock: 3 runners, one clock a tick ahead, lease 2, one claim each; registry: 3 names, 3 contents, 4 edits, 2 failed runs; files: every file of up to 4 statements out of 12; diff: 5 sources over 3 types, 2 edits, 1 change by hand, 1 failed run | the lease, and the takeover of a crashed holder; each statement once, a recorded file in full; the split keeps the order, ownership is exact; the diff settles on what was declared |
| `engine_faults` | 4 files (INSERT, filtered INSERT, MOVE, silent swaps), 3 faults | nothing lost, repeated or wrongly recorded; implements the contract; gets through |
| `sync_faults` | 3 releases, 4 types, 2 overrides, 2 faults, 1 drift, runs that may drop and runs that may not | a sync is a fixpoint and hides no work; releases are reached |
| `rollout_faults` | rollouts of 3 releases, two of one checksum, 3 faults | what was applied was applied whole; a recorded checksum stands for such a rollout |
| `client_data` | 2 clients, 5 record types, 3 menus of statements, 1 cache key and clocks a second apart, a buffer of 5 statements; 2 runners and a guard with 2 retries and 2 faults; processes of 2 tasks and of 1 on 2 slots, 1 trouble | writes do what their values say, statements what their calls say, gets answer in time, nothing is lost unreported, a unit of work takes effect at most once, slots are exclusive and databases fresh |
| `engine_move_filtered` | a MOVE that leaves a row out, no faults | *violation* of `NoRowLost` |
| `sync_late_drop` | 2 releases, a sync that may not drop and one that may, no faults | *violation* of `ExplicitDropsLeftovers` |
| `sync_untold_drift` | 2 releases, 1 fault | *violation* of `DriftReported` |
| `rollout_passed_over` | rollouts of 2 releases of one checksum, no faults | *violation* of `PassedOverIsRecorded` |
| `diff_reverted` | the diff of `migrate_parts`, without changes by hand | *violation* of `CallsApplied` |
| `records_guarded_update` | `client_data` with a statement that tests the column it sets | *violation* of `StatementMeansItsCalls` |
| `drift_undecodable` | one record type with a NaiveDate, one column, three types for it | *violation* of `CheckedReadsDecode` |

The violations are the findings of section 6.

Why the bounds are enough. *Lock*: a third runner is needed for a claimant that read the
row before a takeover and writes after it; a clock difference of one against a lease of
two gives leases that run out for one and not for another. *Engine*: three faults
interrupt the copy, a swap and the record of one file, or one of them three times; each
kind of statement is in some file. *Sync*: with two overrides one can be done and the
next fail; three releases let one be skipped; two faults fail a run and its retry.
*Diff*: an edit and its reversal need two edits, with the failed run between them.
*Registry*: a rename, an edit and a manifest need three edits, the fourth puts something
back. *Files*: the rebuild recipe (create, copy, drop, rename) has four statements.
*Transactions*: with two retries and three clients each may lose to each of the others.
*Records*: two writes of two clients give an update of what another one changed; one
fault is enough for a request that is lost, late or repeated, and two values per width
lie on both sides of every range check. *Statements*: three statements from one menu let
two interleave and one be repeated. *Cache*: times to live of nothing, one second and
for ever against a second that passes and clocks a second apart give every order of
stamp, end and reading, and sums that saturate; two entries let one replace the other
between a get and its heal. *Buffer*: with a limit of two and five statements a flush
fails, another one follows, and a tail is left. *Rollouts*: three faults interrupt two
sections and what follows them; the second release shares the checksum of the first, the
third has its own. *Pool*: the two tasks share one list of slots, the other process
competes for what is stale. Each of them finds a slot, so that no task waits for a
permit: the order of slot and permit on the way back is left to the theorems.

CHECK_DEADLOCK is off where the system may really stop: an override that is recorded,
no rollout left, a schema in sync. In the others a state without a next step is an
error. `ClientTransaction` has a `Finished` step for its good end and the lock always
has a step to take, which leaves the other parts of `client_data` and `migrate_parts` to
`Rest`: a file that is done, a directory that is refused, processes that died.

A type invariant is checked where a run has one (`engine_faults`, `sync_faults`) and
proved for the lock, the engine, the sync and the pool; the inductive invariants of
the other proofs contain theirs. The strengthenings are in the proof modules, with
the theorems.

### Fairness

* `MigrationLock`: time passes, and a client or server that can go on does. A lost
  request and a crash are never required.
* `OverrideEngine`: the engine goes on (weak), and each file is called again and
  again (strong): a run starts with the first pending file, so this assumes that a
  file refused for good is taken out of the directory, which is what the tool's
  error asks for. `Resumes` exempts just those files.
* `SchemaSync`: a run goes on, a failed one is started again (deployments run the tool
  each time), and the next release comes. `EventuallySynced` exempts an override that
  needs a developer for good (`Blocked`): it was interrupted behind a statement that
  the server does not take twice, or nothing of it ran and a type it needs is not there.
* `OverrideRegistry`: a run that was started goes on.

No run assumes that a fault ends or that a request succeeds at last other than by
the bound on faults.

## 4. Proofs

TLAPS checks these for every value of the constants that the module's assumption
admits, so in particular for any number of runners, files, types, releases, rows,
faults and retries.

**MigrationLock_proofs.** `TypeCorrect`; `LeaseSafety` and `FreshClaimSafe` under
`OneShot` (each binary has its own Migrator and claims once, as `bin/migrate.rs`
does). `AtMostOneLiveRun` follows from `LiveRunOwnsRow`, since a row has one holder,
but `LiveRunOwnsRow` is not inductive: a claim in flight might take the row from a
live run. `IInv` adds that a stamp in the row is that of its holder's claim
(`RowAgrees`), that what was read is no fresher than that (`SeenAgrees`), and that
whoever is about to replace a holder read a lease that had run out for every clock,
whose holder will never claim again (`PendingSteal`).

**OverrideEngine_proofs.** `TypeCorrect`, `CopiedOnce` (`NoRowTwice`),
`NothingLost` (`NoRowLost`, if every MOVE selects all rows; the run
`engine_move_filtered` shows why this is needed), `RecordIsTrue`,
`NeverRepeated` and the refinement `KeepsContract`. The invariant `EInv` has four
parts: `Book` relates the journal and the registry to what took effect (swaps that
took effect are a prefix, at most one of them not marked), `Run` the list of a run
to the journal, `Stock` the rows of source and target, `Pending` the open copy
transaction. The refinement maps every step to a step of the contract or to a
stutter. The module is also about the rollouts that call the engine: `AppliedIsDone`
(`AppliedSumIsDone`), for any checksums, also of releases that share one. A rollout counts
as applied by the snapshot's checksum, so the invariant says what must have been done
for a stage to be reached: what is not in `left` is recorded, from the snapshot on the
diff was executed, and the checksum of the snapshot is one of a rollout for which both
are so. That this rollout is the one asked about cannot be proved: it is false (the run
`rollout_passed_over`).

**SchemaSync_proofs.** `TypeCorrect`, `NoOpIsDone`, `SyncSettles`, `BornCurrent` and
`OwnedKept`, for syncs of any strategies. The invariant `SInv` says what a snapshot
stands for: whenever the recorded state is the live one, every declared type is there,
which must hold also for the snapshot a run is about to write.

**OverrideRegistry_proofs.** `ExecutedOnce` (`OnceEach`) and `RecordsAreTrue`
(`RecordedMeansExecuted`), under `Careful` and `Distinct` (a statement is identified by
its content and ordinal). Neither is inductive: `RInv` adds where an executed
statement is written down (`Counted`: once if by its content's checksum in the
registry, or in the journal under the name of the one file with that content, and
not at all otherwise), that what a run plans or has begun is still in the directory
and in no row (`Planned`, `Begun`), and that a content is in one file (`OnePlace`).

**TestPool_proofs.** `SlotsAreExclusive`, `DatabasesAreFresh`, `CheckoutsSucceed` and
`TypeCorrect`. Permits and slots are conserved: as many tasks are between acquire
and release as permits are missing, a slot is free or with the one task that holds
it, and the slot is there before the permit. So a task with a permit finds a slot,
by counting (`FiniteSetTheorems`). For `FreshDatabases`, `DbInv` follows the database of
a held slot, which the sweeps of others do not touch while its process lives.

**SchemaDiff_proofs.** `NoFalseDrift` (`Settles`) and `SyncedAsDeclared` (`SourceWins`):
a run that succeeded leaves what the source declares, and the next diff is empty.
Neither says anything about the middle of a run, so `DInv` does: what still differs
has its statement in `todo` (`Pending`); every statement in `todo` says what the
source declares, of something that is there or that an earlier one creates (`Meant`),
which is where the order of the script comes in; and the snapshot shows what its
source declares (`Recorded`), which is what defaults are compared with. Each
statement of the script is a lemma.

**OverrideFiles_proofs.** `RunsAsWritten` (`OrderKept`) and `OwnsWhatItLeaves`
(`LeftBehindIsOwned`), for files of any length. The split and the owned types are
recursive functions of a file's prefixes; in a file that passes the order check, the
copies of every prefix followed by its swaps are the prefix, and what the first i
swaps leave is what the ownership of the first i says.

**ClientData_proofs**, the client parts:

* Transactions: `EffectOnce` (`AtMostOnce`), `ErrorMeansNothing` (`NoEffectOnError`),
  `RetriesAreEnough` (`EnoughRetries`). The invariant says where an attempt can still
  take effect: the server keeps at most one transaction of an attempt, none once it
  took effect, and a late commit belongs to the last attempt of a client whose error
  was that of a commit. That the retries are enough is a count: whoever conflicts in
  attempt n was overtaken by n others, each of which took effect once (`Overtaken`).
  `CommitNothing` changes nothing at the server, and marks the error it hides.
* Cache: `GetsAreTimely` (`AnswersAreTimely`), for any skew. The invariant follows an
  entry from its maker through the store to its reader; wherever it is, its stamp is at
  most the skew ahead of the moment it was made, and its times are numbers no larger
  than `Forever`, which no clock reaches.
* Script buffer: `NothingUnreported` (`AllRunOrReported`). What was pushed and is
  neither executed nor refused is waiting, in the buffer or in the script on its way,
  in order and after everything executed.
* Values: `IntegersKeepTheirValue` (an integer read under any integer type is the value
  or an error), `ScalarsComeBack` (every scalar comes back, but for a u64 above
  i64::MAX, which is an error), `NumbersAreReadAlike` (two readers of number types
  agree on every value both accept), for any widths that `WidthAssumption` admits; hence
  `ColumnsAreReadAlike` (`ReadersAgree`). `ValuesComeBack` is the step from a type to the
  types it nests: a list, set, map, JSON value, record or enum comes back if its parts do
  (`PartsBack`), and the scalars do; `FieldsComeBack` takes it on to a field behind its
  attributes, which is what `Faithful` asks for. Each construct has its lemma: `ElementsRead`
  and `SetInOrder` for containers, `RecordsComeBack` for a record with its plain, renamed,
  optional and flattened fields, `VariantsComeBack` for the variant beside its tag. Bytes
  inside a container and unit variants of tagged enums do not come back and are not
  claimed (see the divergences).
* Records: `WritesMean`, the refinement of `TypedRows` by the typed calls, and
  `ReportsAreWritten` (`ReportsWhatItWrites`), for any clients, writes, faults and any
  scenarios that are `Faithful` (`AllFaithful`). The latter also asks that record types
  are `Comparable`: their equality in Rust is reflexive, and a flattened field has no
  `skip_serializing_if`, encodes as its type does, and has a name that no column has. It
  is exact for a plain column: reported if and only if it is sent and unequal in Rust,
  so what the two comparisons disagree on is what a set or a decimal may look
  like on the wire. The proof looks at a record as its
  `Leaves`, the fields that are a column, each with the field it is flattened through: a
  column of the row is written by one leaf and read by that one. The invariant `WInv` says
  that the row shows for every leaf a value that comes back, hence decodes; that what a
  client holds, knew, or has on its way is of the scenario or was shown by a row, with
  the key columns of the scenario; and that a request carries the columns its value
  and the known one give. A write is then followed leaf by leaf: what it states replaces
  what the row shows, what it does not state stays, and a new row starts with
  the defaults, which is what `Over` and `Born` say of the Rust values.
* Drift checks: `CheckedColumnsDecode`. `CheckedReadsDecode` is false of the code, so
  there is nothing to prove of it; the theorem says how far it is from true. For a
  scalar field and a column whose types the kind check takes together, the decoder takes
  every value of the column that fits if and only if the pair is not in `Undecoded`. The
  proof is the matrix: for each type the renderer gives and each column, the
  kinds of value stored there (`Samples`) against the decoder's arms.
* Statements: `StatementsMeanTheirCalls` (`StatementMeansItsCalls`) and
  `GuardedAppendsOnce` (`AppendOnce`), for statements of any number of calls, any
  columns and values, and any clients, losses, delays and repeats. The hypotheses are what
  the builders leave to their caller, `Apart`: a column whose own parameter the WHERE
  takes is not set, a `bind` takes a free name, and a column is appended to or changed
  otherwise, not both; the rest says that calls are calls of the builders and that
  lists are sequences. `StatementsApart`, which TLC evaluates, says that the menus of
  `client_data` meet `Apart` and the one of `records_guarded_update` does not. The proof
  is an induction over the calls of a builder: its fragments say what its calls say
  under every map of parameters that holds at least the builder's own
  (`FilterBuilt`, `SetBuilt`), so it does not matter what else is merged in as long as
  no name is shared; that names are not shared is `FreshName`, a pigeonhole argument
  about `param_name`, and `Apart` between the two sides. `AppendOnce` follows
  from that and the invariant that no list has an element twice.

The prover has no induction for recursive functions that can be cited, so the
modules that need one start from `WFMin` of the library: a set of numbers has a
least member (`LeastNat`), hence induction for a set (`Induction`), hence that a
recursive function does what its equation says.

Only model-checked:

* the liveness properties (`CrashedLockTakenOver`, `Resumes`, `EventuallySynced`,
  `AcceptedIsApplied`), which need fairness and ENABLED, which the prover has not;
* `WritesMeanTheirTypes` for `Spread`, the enum flattened into its row, which the
  hypothesis of `WritesMean` leaves out;
* that the record types of `client_data` are faithful: TLC evaluates `RecordsFaithful`.
  From `ValuesComeBack` it follows layer by layer, but the induction over the depth of a
  type is one over data.

## 5. Assumptions

* A Migrator is used for one run at a time (`OneShot`), clocks differ by at most
  `MaxAhead`.
* A request that a client gave up on is executed at once or never in
  `OverrideEngine`; late execution is in `MigrationLock` and `ClientTransaction`.
* The application does not write to a type while an override rebuilds it.
* Statements are classified already in `OverrideFiles`; a verified MOVE is the form
  `MOVE VERTEX (SELECT FROM src) TO ...`.
* Two sources are not copied into one target (`OverrideEngine`); an override has at
  least one statement (`SchemaSync`).
* A super-type comes before its sub-types by name (`SchemaDiff`), because the diff
  creates types in that order; an index keeps its kind.
* Changes of the schema by hand happen between runs. One made during a run is
  absorbed by the snapshot at the end of it (`mod.rs:341`).
* The registry part of `migrate_parts` leaves files alone whose statements ran in part
  (`Careful`), and never has one content under two names; see the divergences for what
  happens otherwise.
* Bulk upserts have key columns whose values do not change between the values of a
  scenario; a row is found by them (`ScenarioAssumption`).
* Record types are `Faithful` where `WritesMean` and `ReportsAreWritten` speak of them, and
  `Comparable` where the latter does.
* The clocks of the hosts that share a cache are at most `Skew` apart, and do not reach the
  end of their range (`ClientCache`). The code has no such bound; without one, nothing can
  be said of its times to live.
* Statements keep apart what the builders leave to their caller (`Apart`), in
  `client_data`; the run `records_guarded_update` shows what happens otherwise.

## 6. Findings

Seven are runs that TLC finds violated:

1. `engine_move_filtered`. The comment at `mod.rs:441-443` says that the
   verification protects copies that a rollback cannot undo, because it comes before
   any drop. A `MOVE VERTEX` that leaves rows out fails its verification once
   (`RejectCopy`), and nothing else fails in the run; the retry counts a smaller source
   against a fuller target, passes (`Verify`), and the drop removes the rows that were
   never moved.
2. `sync_late_drop`. `DropStrategy::Explicit` is there to "Emit drop actions for objects in
   actual-but-not-desired" (`schema/diff.rs:219-220`). A run without it, the default,
   leaves the type that is no longer declared and records the state as in sync; a run
   with it is a no-op (`mod.rs:626`).
3. `sync_untold_drift`. Kind drift is "detected here so it can't stay invisible"
   (`mod.rs:704-706`). A run that met it writes the snapshot, fails at the revision row
   (`mod.rs:351`) and so returns no report; the next one finds itself in sync, is silent
   (`mod.rs:632`) and ends well.
4. `rollout_passed_over`. `--apply-rollout` takes "the latest (highest-named) rollout
   file ... that hasn't been applied yet" (`cli/rollout.rs:32-33`). Applied means having
   the checksum of the last snapshot (`cli/rollout.rs:57`), which is that of the
   schema: a rollout that adds an override and leaves the schema alone counts as applied
   before it was, and its override never runs.
5. `diff_reverted`. "source edits and DB drift both re-apply the desired expression"
   (`schema/diff.rs:23-24`). A run alters a default that is a call, fails before its
   snapshot, and the edit is taken back: source and snapshot agree, and the database
   keeps the default that was withdrawn.
6. `records_guarded_update`. The test at `arcadedb-protocol/tests/filter_clause.rs:185`
   says of UPDATE ... SET ... WHERE ...: "merge the two namespaces (generated names
   never collide across the two builders)". Both name a parameter after its column
   (`filter.rs:141`, `encode.rs:571`), so `SET note = :note WHERE note = :note` has one
   value for both, and tests the row for the value it is about to write.
7. `drift_undecodable`. "the drift check asserts DECODABILITY, not storage equality"
   (`dto_drift.rs:66-67`). A NaiveDate on a STRING column passes both checks, and a text
   there does not decode as a date, not even one that is a timestamp. `Undecoded` in
   `DtoDrift` is the list of such pairs of scalars: `char`, links and a borrowed
   `&str` on temporal columns, `char` and links on STRING, a DateTime on LINK, and a Decimal
   or a column of DECIMAL beside most others. A pair with an EMBEDDED side passes as well.

### Divergences

Met while modelling, and kept out of the runs by the assumptions above.

* **Shared or reused Migrator.** The holder id is per Migrator and `decide` lets the
  same holder through (`lock.rs:52`), so two tasks on one Migrator run together; and
  the UPDATE matches on the holder, not on the expiry (`lock.rs:135`), so a claimant
  that read an expired first claim overwrites the fresh second one.
  `migrator/mod.rs:99-100` says that the whole run is serialized.
* **Silent swaps.** An UPDATE or DELETE whose marker was not written is executed
  again by the retry (`mod.rs:416`), and takes effect twice without an error;
  `progress.rs:18-22` says that the retry fails loudly. In `engine_faults`, `tidy`
  has such statements, and `MarkedSwapNotRepeated` speaks of marked ones only.
* **Missing revision row.** The snapshot comes before the row (`mod.rs:351`); after a
  crash between them the release never gets one, against `revisions/mod.rs:6`.
* **Rollouts are selected again.** Applied means having the checksum of the last
  snapshot (`cli/rollout.rs:57`), so an older applied rollout is selected after the
  newest; and sections are applied without asking the registry
  (`migrator/rollout.rs:257`), so an override that a sync recorded is copied again
  before its record fails.
* **Registry.** A deleted applied file is not noticed without a manifest
  (`fs.rs:213`, against `manifest.rs:7`); duplicates already recorded are never
  rejected (`fs.rs:227`, against the test at `fs.rs:441-442`); a file with a name
  before an applied one is applied late (`fs.rs:239`, against `mod.rs:91-92`); a
  statement edited after it ran, in a file that failed later, is skipped by the
  retry and recorded as applied (`mod.rs:399`).
* **Classification.** A rename makes its new name owned even if the file only rebuilt
  a type (`classification.rs:287`, against `:272`); two sources copied into one
  target hide each other's shortfall (`mod.rs:514`); `MOVE VERTEX t TO ...` without a
  FROM is not counted (`classification.rs:173`, against `:124`).
* **Order of types.** Types are created in the order of their names (`diff.rs:249`): one
  whose super-type has a later name is refused by the server, on every run.
* **Confirmed plan.** The destructive plan the operator confirms is made before the lock
  is taken (`cli/mod.rs:143`); another run may change what is dropped.
* **Writes during a rebuild.** Rows that the application writes between the
  verification and the drop are dropped (`mod.rs:514`).
* **First sync.** Without a snapshot a different default in the database is left
  alone, as documented, but the snapshot then records the source's text as applied
  (`diff.rs:450`). `SourceWins` leaves such defaults out (`adopted`).
* **Transactions.** A commit whose reply is lost is returned as an error though it
  took effect; the doc of `run_transaction` says "transaction rolled back". The
  property `NoEffectOnError` exempts unanswered commits. A commit whose reply says
  `success` but not `committed` is returned as Ok though nothing took effect
  (`transaction.rs:142-150`); `AtMostOnce` exempts it. A guard that hits a conflict
  and whose rollback is lost leaves its transaction to the reaper (`transaction.rs:396`).
* **Test pool.** A checkout that is dropped while it waits for the server loses its
  slot, and a later one meets the empty list that `testutil.rs:232` calls
  unreachable; a drop that fails is ignored (`testutil.rs:251`) and the next user
  gets the database as it was left. Both are in `TestPool`, and exempted by
  `CheckoutSucceeds` and `FreshDatabases`.

* **Drift helper.** `WIRE_KINDS` has a flattened map, which the doc says is left out. The
  two checks fetch the schema each for itself (`dto_drift.rs:48`, `:202`), and the second
  finds no drift in a type or a column that is missing (`:175`, `:181`): one dropped in
  between passes.
* **Round trips.** A unit variant of a tagged enum is encoded as a string and decoded
  only from a map; `Vec<u8>` inside an enum or a container is encoded as bytes and
  decoded only from a list; a field whose names for writing and reading differ does not
  come back; a decimal wider than 64 bits reads as `0e-s` as String or JSON; a
  u64 above i64::MAX wraps, as documented. The five record types have none of these
  but the wrap.
* **Changed columns.** "Semantics match `props_diff`" (`record/mod.rs:324`), but
  `changed_wires` compares fields and `props_diff` what they encode to. A Decimal that
  changes its scale only is sent and not reported. A HashSet that did not change may be
  sent, since the order of its elements differs from one encoding to the next; "Re-scrapes
  that change nothing produce an empty diff" (`record/mod.rs:353-354`) is not so then, and
  the write of a client that changed nothing may undo that of another one. A
  flattened field is reported under its own name, not the columns that are sent, and its
  `skip_serializing_if` is asked by `diff_cond` and not by the push. `ReportsWhatItWrites`
  says what remains. A partial update of `RecordStore` sends any such set again, and
  `TypedRows` has it as part of what was asked for (`again`).
* **Columns shared in a flattened enum.** Two variants with the same optional column:
  the new variant reads the value the old one left.
* **SetClause.** An append after `set_or_null` of None is put together with the fragment
  before it; the docs of `SetClause::append` and of `filter.rs` disagree about CONTAINS.
* **Cache.** The heal of an expired entry is a GETDEL after the get, and may take a value
  that was stored meanwhile (`cache.rs:325`). It is in `ClientCache`; a cache may lose
  entries, so no property forbids it.
* **Script buffer.** `flush` empties the buffer before it sends (`batch.rs:180`), so the
  statements of a failed flush are the caller's to push again. `AllRunOrReported`
  counts them as reported.
* **Streams.** The summary counts whole batches, though the consumer stopped inside one.

## 7. Not modelled

* `stream.rs`, `client/streaming.rs`: one consumer of one stream, without state beside
  it; `upsert_edge` (a read, then a write: two callers create the edge twice unless
  the application's schema has a unique index, `batch.rs:63`); `apply_ddl`.
* `schema/parser.rs`, `schema/ddl`, `model/timeseries.rs`, `sql!`, checksums: text in,
  value out, without state; their unit tests enumerate the forms. The rendering of statements
  and the text of rollout files belong here too.
* `like`, `ilike`, raw fragments and `with` of the builders, an optional flattened
  record, a flattened record inside a flattened one, borrowed record types, and the
  compile errors of the derives.
* `--apply-rollout` with an explicit path; the confirmation prompt of the tool, whose
  plan is made before the lock is taken (`cli/mod.rs:143`).
* What two runs do to each other once a lease ran out.
* The ArcadeDB server itself, beyond how the code relies on it: each module says
  what a statement does.

## 8. Plan

Done, in this order: the lock, the engine with its contract, the sync, rollouts,
registry and files, transactions, the pool, the diff; typed records with their
codec and abstract specification, statements, the cache, the script buffer, the drift
helper, and the composition of the client parts; proofs of every safety and action
property the runs check; the codec by layers, without RECURSIVE operators, and the proofs
that needed it.

Next:

1. The composition of lock and engine: two runners, a lease that runs out, a commit
   that arrives late.
2. The text of a rollout (`migrator/rollout.rs`): `Write` renders sections and
   `Begin` parses them, in `RolloutApply`; what is parsed must be what was planned.
3. The source schema built statement by statement (`schema/parser.rs`, `schema/ddl`),
   in the run of `SchemaDiff`.
4. The confirmation of destructive plans as an action of `SchemaSync`; `TestDatabase`
   and the connection retries in `TestPool`.
5. `Faithful` for an enum flattened into its row: columns that belong to one variant,
   and what the old variant leaves behind (the divergence on shared columns).
