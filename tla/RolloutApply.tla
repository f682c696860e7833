----------------------------- MODULE RolloutApply -----------------------------
(***************************************************************************)
(* Reviewed rollouts: written from a plan (cli/mod.rs), selected by        *)
(* latest_unapplied_rollout (cli/rollout.rs) and applied by                *)
(* Migrator::apply_rollout_inner (migrator/rollout.rs), which runs every   *)
(* override of the file through the phase engine of OverrideEngine, with   *)
(* all its failures, then the diff batch and the bookkeeping.              *)
(*                                                                         *)
(* Rollouts are numbered as their timestamps order them.  The operator     *)
(* applies the one the tool selects, and again after a failure.  A batch   *)
(* or a bookkeeping statement whose reply is lost is that statement        *)
(* followed by Abort.                                                      *)
(***************************************************************************)
EXTENDS OverrideEngine, Sequences

CONSTANTS
  Dir,         \* Dir[v]: override files of release v
  Place,       \* Place[f]: the place of f's name in filename order
  Sum          \* Sum[v]: checksum of the desired schema of release v

ASSUME RolloutAssumption ==
  /\ Dir \in Seq(SUBSET File)
  /\ Place \in [File -> Nat] /\ \A f, g \in File : Place[f] = Place[g] => f = g
  /\ Sum \in [DOMAIN Dir -> Nat \ {0}]

VARIABLES
  release,     \* releases a rollout was asked for
  rollouts,    \* the files written: checksum, override sections, diff or none
  at,          \* the rollout being applied, 0 if none
  stage,       \* "overrides", "diff", "snapshot", "revision"
  left,        \* the override sections not yet applied
  diffed,      \* rollouts whose diff batch was executed
  last,        \* checksum in the snapshot, 0 before there is one
  revised,     \* checksums that have a row in schema_revisions
  completed    \* rollouts an apply of which ended well

files == <<release, rollouts>>
outcome == <<diffed, last, revised, completed>>
apply == <<at, stage, left>>
rvars == <<vars, files, outcome, apply>>

RInit ==
  /\ Init
  /\ release = 0 /\ rollouts = <<>>
  /\ at = 0 /\ stage = "overrides" /\ left = {}
  /\ diffed = {} /\ last = 0 /\ revised = {} /\ completed = {}

----------------------------------------------------------------------------
\* --write-rollout: the plan's pending overrides, and its diff unless the
\* schema is the recorded one.  A plan without work writes no file.
Write ==
  /\ release < Len(Dir) /\ release' = release + 1
  /\ LET v == release + 1
         pending == Dir[v] \ recorded
     IN rollouts' = IF pending = {} /\ Sum[v] = last THEN rollouts
                    ELSE Append(rollouts, [sum   |-> Sum[v],
                                           files |-> pending,
                                           diff  |-> Sum[v] # last])
  /\ UNCHANGED <<vars, outcome, apply>>

\* "Applied" is having the checksum the snapshot records.
Unapplied(r) == rollouts[r].sum # last

\* latest_unapplied_rollout: the newest of them.
Selected(r) == Unapplied(r) /\ \A q \in DOMAIN rollouts : Unapplied(q) => q <= r

Begin(r) ==
  /\ at = 0 /\ Selected(r)
  /\ at' = r /\ stage' = "overrides" /\ left' = rollouts[r].files
  /\ UNCHANGED <<vars, files, outcome>>

\* The sections are in filename order.
NextSection(f) == f \in left /\ \A g \in left : Place[f] <= Place[g]

\* The next override section goes to the engine; the registry is not asked.
CallEngine ==
  /\ at # 0 /\ stage = "overrides"
  /\ \E f \in left : NextSection(f) /\ Call(f)
  /\ UNCHANGED <<files, outcome, apply>>

\* The engine goes on, returns, or fails.
EngineGoesOn ==
  /\ at # 0 /\ EngineStep /\ pc' # "idle"
  /\ UNCHANGED <<files, outcome, apply>>

\* A failed clear_progress is only logged.
EngineReturns ==
  /\ at # 0 /\ left' = left \ {cur}
  /\ Clear \/ LostClear \/ (pc = "clear" /\ Fail)
  /\ UNCHANGED <<files, outcome, at, stage>>

\* It was recorded by a sync or by an attempt that failed later: the UNIQUE index
\* refuses a second row.
RecordError ==
  /\ pc = "swap" /\ todo = {} /\ cur \in recorded
  /\ pc' = "idle"
  /\ UNCHANGED <<data, journal, swaps, recorded, client, faults>>

EngineFails ==
  /\ at # 0 /\ at' = 0
  /\ RejectCopy \/ (\E i \in todo : SwapError(i)) \/ RecordError \/ EngineFault
  /\ UNCHANGED <<files, outcome, stage, left>>

\* Mutant: the last section is taken for the end of the file.
SectionsDone_early ==
  /\ at # 0 /\ pc = "idle" /\ stage = "overrides" /\ \A f, g \in left : f = g
  /\ stage' = IF rollouts[at].diff THEN "diff" ELSE "snapshot"
  /\ UNCHANGED <<vars, files, outcome, at, left>>

\* After the last section.
SectionsDone ==
  /\ at # 0 /\ pc = "idle" /\ stage = "overrides" /\ left = {}
  /\ stage' = IF rollouts[at].diff THEN "diff" ELSE "snapshot"
  /\ UNCHANGED <<vars, files, outcome, at, left>>

ExecDiff ==
  /\ stage = "diff" /\ at # 0
  /\ diffed' = diffed \cup {at}
  /\ stage' = "snapshot"
  /\ UNCHANGED <<vars, files, last, revised, completed, at, left>>

WriteSnapshot ==
  /\ stage = "snapshot" /\ at # 0
  /\ last' = rollouts[at].sum
  /\ stage' = "revision"
  /\ UNCHANGED <<vars, files, diffed, revised, completed, at, left>>

RecordRevision ==
  /\ stage = "revision" /\ at # 0
  /\ revised' = revised \cup {rollouts[at].sum}
  /\ completed' = completed \cup {at} /\ at' = 0
  /\ UNCHANGED <<vars, files, diffed, last, stage, left>>

\* A statement outside the engine fails, or the client crashes there.
Abort ==
  /\ at # 0 /\ pc = "idle"
  /\ faults < MaxFaults /\ faults' = faults + 1
  /\ at' = 0
  /\ UNCHANGED <<data, journal, swaps, recorded, pc, client, files, outcome, stage, left>>

ApplyStep ==
  \/ CallEngine \/ EngineGoesOn \/ EngineReturns \/ EngineFails
  \/ SectionsDone \/ ExecDiff \/ WriteSnapshot \/ RecordRevision \/ Abort

RNext == Write \/ (\E r \in DOMAIN rollouts : Begin(r)) \/ ApplyStep

RSpec == RInit /\ [][RNext]_rvars

----------------------------------------------------------------------------
(* Properties *)

\* All overrides of r are recorded and its diff was executed, whichever attempts
\* did it.
Done(r) == rollouts[r].files \subseteq recorded /\ (rollouts[r].diff => r \in diffed)

\* An apply that ended well has applied its rollout whole; and the snapshot records
\* a checksum only once some rollout with it is applied whole ("lets a subsequent
\* run recognize the rollout as applied", rollout.rs).  A rollout that is the only
\* one with its checksum and counts as applied is thus done.
AppliedSumIsDone ==
  /\ \A r \in completed : Done(r)
  /\ \A r \in DOMAIN rollouts : ~Unapplied(r) =>
       \E q \in DOMAIN rollouts : rollouts[q].sum = rollouts[r].sum /\ Done(q)

\* The tool passes over a rollout only if its overrides are applied: it takes the
\* latest one "that hasn't been applied yet" (cli/rollout.rs).
PassedOverIsRecorded ==
  \A r \in DOMAIN rollouts : ~Unapplied(r) => rollouts[r].files \subseteq recorded
=============================================================================
