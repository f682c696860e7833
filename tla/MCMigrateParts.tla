---------------------------- MODULE MCMigrateParts ----------------------------
(***************************************************************************)
(* Instances for TLC of the parts of arcadedb-migrate that OverrideEngine, *)
(* SchemaSync and RolloutApply take as given: the lock around a run, the   *)
(* override files and their registry, one file and its two phases, and the *)
(* diff.  A behaviour is one of one part, so their states add up and do    *)
(* not multiply.                                                           *)
(***************************************************************************)
EXTENDS MCSchemaDiff, MigrationLock, OverrideRegistry, OverrideFiles

CONSTANTS r1, r2, r3, rebuild, purge, mixed, item, note, fresh

VARIABLE part

-----------------------------------------------------------------------------
\* The lock: every runner on a Migrator of its own, the clock of one a tick ahead.

OwnMigrator == [r \in Runner |-> r]
OneAhead == [r \in Runner |-> IF r = r1 THEN 1 ELSE 0]

-----------------------------------------------------------------------------
\* What the override files hold.  rebuild: a copy and two swaps.  purge: one swap.
\* mixed: an additive statement after a destructive one.

StatementsOf ==
  rebuild :> (0 :> "copy" @@ 1 :> "drop" @@ 2 :> "rename")
  @@ purge :> (1 :> "delete")
  @@ mixed :> (0 :> "audit" @@ 1 :> "update")

-----------------------------------------------------------------------------
\* The statements of one file: a rebuild of item, and others on the same types.  item
\* and note are there with two rows and one; fresh is not there.

BaseRows == item :> 2 @@ note :> 1 @@ fresh :> Missing

S(op, from, to) == [op |-> op, from |-> from, to |-> to, all |-> TRUE]
Partly(s) == [s EXCEPT !.all = FALSE]

Rebuild == {S("create", fresh, fresh), S("insert", item, fresh),
            S("drop", item, item), S("rename", fresh, item)}
Mixture == Rebuild \cup {S("moveSelect", item, fresh), S("update", item, item),
                         S("rename", note, fresh), S("record", note, note),
                         S("drop", fresh, fresh), S("insert", fresh, note),
                         S("moveType", note, fresh), Partly(S("insert", note, fresh))}

-----------------------------------------------------------------------------

partsVars == <<part, lockVars, registryVars, fileVars, vars>>

PartsInit ==
  /\ part \in {"lock", "registry", "files", "diff"}
  /\ LockInit /\ RegistryInit /\ FilesInit /\ Init
  /\ part = "diff" \/ source = CHOOSE d \in Sources : TRUE

LockStep == part = "lock" /\ LockNext /\ UNCHANGED <<part, registryVars, fileVars, vars>>
RegistryStep == part = "registry" /\ RegistryNext /\ UNCHANGED <<part, lockVars, fileVars, vars>>
FilesStep == part = "files" /\ FilesNext /\ UNCHANGED <<part, lockVars, registryVars, vars>>
DiffStep == part = "diff" /\ Next /\ UNCHANGED <<part, lockVars, registryVars, fileVars>>

\* The lock always has a step to take.  The others stop: when the directory is refused
\* and nobody changes it, when a file is applied or refused, when a schema is in sync.
Rest == part # "lock" /\ UNCHANGED partsVars

PartsNext == LockStep \/ RegistryStep \/ FilesStep \/ DiffStep \/ Rest

\* The fairness of MigrationLock and of OverrideRegistry, for the behaviours of each.
InLock(A) == part = "lock" /\ A /\ UNCHANGED <<part, registryVars, fileVars, vars>>
InRegistry(A) == part = "registry" /\ A /\ UNCHANGED <<part, lockVars, fileVars, vars>>

PartsSpec ==
  /\ PartsInit /\ [][PartsNext]_partsVars
  /\ WF_partsVars(InLock(Tick))
  /\ \A r \in Runner : WF_partsVars(InLock(Served(r)))
  /\ WF_partsVars(InRegistry(RunStep))
=============================================================================
