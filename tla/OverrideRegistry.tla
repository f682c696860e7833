--------------------------- MODULE OverrideRegistry ---------------------------
(***************************************************************************)
(* The life of the override files of arcadedb-migrate: developers add,     *)
(* edit, rename and delete files and regenerate overrides.sum              *)
(* (migrator/manifest.rs); every run reads the directory, checks it        *)
(* against the manifest and the registry (migrator/fs.rs, build_plan in    *)
(* migrator/mod.rs) and executes what is pending, in filename order, with  *)
(* the resume state that schema/revisions/progress.rs keeps BY FILENAME.   *)
(*                                                                         *)
(* Names are 1..NName in filename order; a content stands for its          *)
(* checksum.  Statement 0 of a content is its copy phase, the others are   *)
(* its swap statements in order.  Statements are executed together with    *)
(* their marker (OverrideEngine has the window between the two), on a      *)
(* database that is not new (SchemaSync has the baseline).                 *)
(***************************************************************************)
EXTENDS Integers

CONSTANTS
  NName,         \* filenames 1..NName
  Content,       \* what a file can hold
  NoFile,        \* no file, no row
  Statements,    \* Statements[c]: the statements of c, by ordinal
  Interleaved,   \* contents with an additive statement after a destructive one
  Careful,       \* TRUE: developers leave interrupted files alone and add no
                 \* content that is in the directory already
  MaxDirEdits,   \* bound: changes of the directory or the manifest
  MaxRunFaults   \* bound: failures of a run

FileName == 1..NName
Files == [FileName -> Content \cup {NoFile}]
Op == UNION {{Statements[c][i] : i \in DOMAIN Statements[c]} : c \in Content}

ASSUME RegistryAssumption ==
  /\ NName \in Nat /\ NoFile \notin Content
  /\ \A c \in Content : DOMAIN Statements[c] \subseteq Nat
  /\ Interleaved \subseteq Content
  /\ Careful \in BOOLEAN
  /\ MaxDirEdits \in Nat /\ MaxRunFaults \in Nat

VARIABLES
  dir,        \* the overrides directory: name -> content
  manifest,   \* overrides.sum: the directory it was written for
  listed,     \* overrides.sum is there
  registry,   \* schema_overrides_applied: name -> checksum
  progress,   \* schema_override_progress: name -> ordinals executed
  times,      \* how often each statement was executed
  running,    \* a run is under way
  plan,       \* the directory as the run read it
  waiting,    \* pending overrides the run has not recorded yet
  dirEdits, runFaults

database == <<registry, progress, times>>
runState == <<running, plan, waiting>>
registryVars == <<dir, manifest, listed, database, runState, dirEdits, runFaults>>

RegistryTypeOK ==
  /\ dir \in Files /\ manifest \in Files /\ plan \in Files /\ registry \in Files
  /\ listed \in BOOLEAN /\ running \in BOOLEAN
  /\ progress \in [FileName -> SUBSET Nat]
  /\ times \in [Op -> Nat]
  /\ waiting \subseteq FileName
  /\ dirEdits \in 0..MaxDirEdits /\ runFaults \in 0..MaxRunFaults

Nothing == [n \in FileName |-> NoFile]

RegistryInit ==
  /\ dir = Nothing /\ manifest = Nothing /\ plan = Nothing /\ registry = Nothing
  /\ listed = FALSE /\ running = FALSE /\ waiting = {}
  /\ progress = [n \in FileName |-> {}]
  /\ times = [o \in Op |-> 0]
  /\ dirEdits = 0 /\ runFaults = 0

----------------------------------------------------------------------------
(* The developers *)

DirEdit ==
  /\ dirEdits < MaxDirEdits /\ dirEdits' = dirEdits + 1
  /\ UNCHANGED <<database, runState, runFaults>>

Touchable(n) == Careful => progress[n] = {} /\ n \notin waiting
NewContent(c) == Careful => \A n \in FileName : dir[n] # c

Put(n, c) ==
  /\ Touchable(n) /\ NewContent(c) /\ dir[n] # c
  /\ dir' = [dir EXCEPT ![n] = c]
  /\ DirEdit /\ UNCHANGED <<manifest, listed>>

Delete(n) ==
  /\ Touchable(n) /\ dir[n] # NoFile
  /\ dir' = [dir EXCEPT ![n] = NoFile]
  /\ DirEdit /\ UNCHANGED <<manifest, listed>>

Rename(n, m) ==
  /\ Touchable(n) /\ Touchable(m) /\ dir[n] # NoFile /\ dir[m] = NoFile
  /\ dir' = [dir EXCEPT ![m] = dir[n], ![n] = NoFile]
  /\ DirEdit /\ UNCHANGED <<manifest, listed>>

\* --write-manifest.
WriteManifest ==
  /\ ~listed \/ manifest # dir
  /\ manifest' = dir /\ listed' = TRUE
  /\ DirEdit /\ UNCHANGED dir

----------------------------------------------------------------------------
(* A run *)

\* verify_manifest: both list the same files with the same hashes.
ManifestHolds == listed => manifest = dir

\* Mutant: the name decides, whatever the content.
Intact_byName ==
  \A n \in FileName : dir[n] # NoFile /\ registry[n] # NoFile => registry[n] = dir[n]

\* compute_pending: an applied file is unchanged, and a file that is not
\* applied has no content that is.
Intact ==
  \A n \in FileName : dir[n] # NoFile =>
    IF registry[n] # NoFile THEN registry[n] = dir[n]
    ELSE \A m \in FileName : registry[m] # dir[n]

\* Mutant: only what sorts after the last applied file.
Pending_newest ==
  {n \in FileName : dir[n] # NoFile /\ \A m \in FileName : registry[m] # NoFile => m < n}

Pending == {n \in FileName : dir[n] # NoFile /\ registry[n] = NoFile}

\* What read_overrides_checked and build_plan let through.
Accepts == ManifestHolds /\ Intact /\ \A n \in Pending : dir[n] \notin Interleaved

StartRun ==
  /\ ~running /\ Accepts
  /\ running' = TRUE /\ plan' = dir /\ waiting' = Pending
  /\ UNCHANGED <<dir, manifest, listed, database, dirEdits, runFaults>>

First(n) == n \in waiting /\ \A m \in waiting : n <= m

\* Mutant: the ordinals that are in the journal are counted, not looked up.
Left_counted(n) ==
  {i \in DOMAIN Statements[plan[n]] : \E j \in progress[n] : i < j}
  \cup IF progress[n] = {} THEN DOMAIN Statements[plan[n]] ELSE {}

\* apply_override: the statements whose ordinal is not in the journal.
Left(n) == DOMAIN Statements[plan[n]] \ progress[n]

Exec(n, i) ==
  /\ running /\ First(n)
  /\ i \in Left(n) /\ \A j \in Left(n) : i <= j
  /\ times' = [times EXCEPT ![Statements[plan[n]][i]] = @ + 1]
  /\ progress' = [progress EXCEPT ![n] = @ \cup {i}]
  /\ UNCHANGED <<dir, manifest, listed, registry, runState, dirEdits, runFaults>>

\* record_override and clear_progress.
Record(n) ==
  /\ running /\ First(n) /\ Left(n) = {}
  /\ registry' = [registry EXCEPT ![n] = plan[n]]
  /\ progress' = [progress EXCEPT ![n] = {}]
  /\ waiting' = waiting \ {n}
  /\ UNCHANGED <<dir, manifest, listed, times, running, plan, dirEdits, runFaults>>

Finish ==
  /\ running /\ waiting = {}
  /\ running' = FALSE
  /\ UNCHANGED <<dir, manifest, listed, database, plan, waiting, dirEdits, runFaults>>

\* A statement fails or the process dies.
RunFails ==
  /\ running /\ runFaults < MaxRunFaults /\ runFaults' = runFaults + 1
  /\ running' = FALSE /\ waiting' = {}
  /\ UNCHANGED <<dir, manifest, listed, database, plan, dirEdits>>

RunStep ==
  \/ StartRun
  \/ \E n \in waiting : (\E i \in Left(n) : Exec(n, i)) \/ Record(n)
  \/ Finish

Author ==
  \/ \E n \in FileName :
       (\E c \in Content : Put(n, c)) \/ Delete(n) \/ \E m \in FileName : Rename(n, m)
  \/ WriteManifest

RegistryNext == RunStep \/ RunFails \/ Author

RegistrySpec == RegistryInit /\ [][RegistryNext]_registryVars

\* Deployments keep running the migrator.
RegistryFairness == WF_registryVars(RunStep)

RegistryFairSpec == RegistrySpec /\ RegistryFairness

----------------------------------------------------------------------------
(* Properties *)

\* However files are renamed, edited, deleted or put back, and however runs
\* fail, no statement is executed twice ("renaming an applied migration would
\* re-execute it", fs.rs).
OnceEach == \A o \in Op : times[o] <= 1

\* A content in the registry was executed in full ("a re-run skips
\* already-applied swaps and resumes at the failure point", progress.rs).
RecordedMeansExecuted ==
  \A n \in FileName : registry[n] # NoFile =>
    \A i \in DOMAIN Statements[registry[n]] : times[Statements[registry[n]][i]] >= 1

\* A directory that stays acceptable is applied in full.
AcceptedIsApplied ==
  []<>(~Accepts \/ \A n \in FileName : dir[n] # NoFile => registry[n] = dir[n])
=============================================================================
