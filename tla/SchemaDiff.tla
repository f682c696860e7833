------------------------------ MODULE SchemaDiff ------------------------------
(***************************************************************************)
(* The diff of arcadedb-migrate (schema/diff.rs, and diff_statements in    *)
(* migrator/mod.rs): the statements that bring a live schema to the one in *)
(* the source, property by property, and the warnings about what no        *)
(* statement can change.  SchemaSync has the run around it, with types as  *)
(* a whole; this module has what is inside a type, and above all the       *)
(* three-way rule for defaults, for which the diff needs the snapshot of   *)
(* the last run (schema/model).                                            *)
(*                                                                         *)
(* Data.  Types are numbered in the order of their names, which is the     *)
(* order in which the diff visits them.  A default is a literal or a call  *)
(* (a text with a parenthesis); Shown is the text that introspection gives *)
(* for it.  min, max and regexp are one limit.  A TimeSeries type has a    *)
(* spec and no properties.  The checksum of a source is the source.        *)
(***************************************************************************)
EXTENDS Integers, FiniteSets, Functions

CONSTANTS
  NType, Prop, DataType, Flag, Limit, Literal, Call, Index, TsSpec, None,
  Shown,       \* Shown[e]: what introspection shows of default e
  Sources,     \* the schemas that the source may declare
  Owned,       \* the types that overrides own
  Strategy,    \* the DropStrategy of the runs
  MaxEdits,    \* bound: edits of the source
  MaxDrift,    \* bound: changes of the live schema by others
  MaxFaults    \* bound: runs that fail

Name == 1..NType
Expr == Literal \cup Call

Property == [type : DataType, flags : SUBSET Flag,
             limit : Limit \cup {None}, default : Expr \cup {None}]

IsType(t) ==
  /\ DOMAIN t = {"kind", "supers", "props", "indexes", "spec"}
  /\ t.kind \in {"document", "vertex", "timeseries"}
  /\ t.supers \subseteq Name /\ t.indexes \subseteq Index
  /\ DOMAIN t.props \subseteq Prop
  /\ t.spec \in TsSpec \cup {None}
  /\ t.spec # None <=> t.kind = "timeseries"
  /\ t.kind = "timeseries" => DOMAIN t.props = {} /\ t.indexes = {} /\ t.supers = {}

\* A type is declared after its super-types, in the order of names.
IsSource(d) ==
  /\ DOMAIN d \subseteq Name
  /\ \A t \in DOMAIN d :
       /\ IsType(d[t]) /\ \A p \in DOMAIN d[t].props : d[t].props[p] \in Property
       /\ \A u \in d[t].supers : u < t /\ u \in DOMAIN d

ASSUME DiffAssumption ==
  /\ NType \in Nat
  /\ Literal \cap Call = {} /\ None \notin Limit \cup Expr \cup TsSpec
  /\ DOMAIN Shown = Expr /\ None \notin Range(Shown)
  /\ \A d \in Sources : IsSource(d)
  /\ Owned \subseteq Name /\ Strategy \in {"Never", "Explicit"}
  /\ {MaxEdits, MaxDrift, MaxFaults} \subseteq Nat

VARIABLES
  source,      \* the schema the .sql files declare
  live,        \* the live schema, as introspection shows it
  snapshot,    \* the source applied last and the live schema after it, once taken
  pc, todo,    \* the run, and its statements that are still to be executed
  warned,      \* the warnings of the run
  clean,       \* no edit and no drift since a run recorded its snapshot
  adopted,     \* defaults that a run without a snapshot found and no run replaced
  edits, drifts, faults

Empty == [t \in {} |-> None]
NoSnapshot == [taken |-> FALSE, source |-> Empty, live |-> Empty]

run == <<pc, todo, warned>>
vars == <<source, live, snapshot, run, clean, adopted, edits, drifts, faults>>

----------------------------------------------------------------------------
(* The engine *)

Show(e) == IF e = None THEN None ELSE Shown[e]

Without(f, x) == Restrict(f, DOMAIN f \ {x})
With(f, x, v) == [y \in DOMAIN f \cup {x} |-> IF y = x THEN v ELSE f[y]]

ShownProp(q) == [q EXCEPT !.default = Show(@)]

\* A type just created; its properties and indexes have statements of their own.
Bare(t) == [t EXCEPT !.props = [p \in {} |-> None], !.indexes = {}]

\* The whole type as introspection shows it.
ShownType(t) == [t EXCEPT !.props = [p \in DOMAIN t.props |-> ShownProp(t.props[p])]]

\* Without a type, which is then no super-type either.
Dropped(t) == [u \in DOMAIN live \ {t} |-> [live[u] EXCEPT !.supers = @ \ {t}]]

\* The live schema after a statement, with its IF NOT EXISTS or IF EXISTS.
Effect(a) ==
  LET t == a.on IN
  CASE a.op = "CreateType" /\ t \notin DOMAIN live -> With(live, t, a.type)
    [] a.op = "CreateProperty" /\ a.prop \notin DOMAIN live[t].props ->
         [live EXCEPT ![t].props = With(@, a.prop, ShownProp(a.def))]
    [] a.op = "CreateIndex" -> [live EXCEPT ![t].indexes = @ \cup {a.index}]
    [] a.op = "AlterFlag" ->
         [live EXCEPT ![t].props[a.prop].flags =
            IF a.set THEN @ \cup {a.flag} ELSE @ \ {a.flag}]
    [] a.op = "AlterLimit" -> [live EXCEPT ![t].props[a.prop].limit = a.limit]
    [] a.op = "AlterDefault" -> [live EXCEPT ![t].props[a.prop].default = Show(a.expr)]
    [] a.op = "AlterSupers" -> [live EXCEPT ![t].supers = (@ \ a.remove) \cup a.add]
    [] a.op = "DropType" -> Dropped(t)
    [] OTHER -> live

----------------------------------------------------------------------------
(* The diff *)

Both == DOMAIN source \cap DOMAIN live

\* Types of which properties, super-types and indexes are compared.
Compared == {t \in Both : "timeseries" \notin {source[t].kind, live[t].kind}}

BothProps == {x \in Compared \X Prop :
                x[2] \in DOMAIN source[x[1]].props \cap DOMAIN live[x[1]].props}

NewTypes ==
  {[op |-> "CreateType", on |-> t, type |-> Bare(source[t])] : t \in DOMAIN source \ DOMAIN live}

\* The properties and indexes of a type that is missing, or those it misses.
Lacking(t) == IF t \in DOMAIN live THEN live[t] ELSE Bare(source[t])

NewProps ==
  UNION {{[op |-> "CreateProperty", on |-> t, prop |-> p, def |-> source[t].props[p]] :
            p \in DOMAIN source[t].props \ DOMAIN Lacking(t).props} :
         t \in (DOMAIN source \ DOMAIN live) \cup Compared}

\* diff_indexes; an index that is not declared stays.
NewIndexes ==
  UNION {{[op |-> "CreateIndex", on |-> t, index |-> i] :
            i \in source[t].indexes \ Lacking(t).indexes} :
         t \in (DOMAIN source \ DOMAIN live) \cup Compared}

\* diff_supers
Supers ==
  {[op |-> "AlterSupers", on |-> t, add |-> source[t].supers \ live[t].supers,
    remove |-> live[t].supers \ source[t].supers] :
     t \in {u \in Compared : source[u].supers # live[u].supers}}

Declared(x) == source[x[1]].props[x[2]]
Found(x) == live[x[1]].props[x[2]]

\* diff_constraints: a flag is set and cleared, a limit cannot be cleared.
Flags ==
  {[op |-> "AlterFlag", on |-> y[1][1], prop |-> y[1][2], flag |-> y[2],
    set |-> y[2] \in Declared(y[1]).flags] :
     y \in {z \in BothProps \X Flag :
              (z[2] \in Declared(z[1]).flags) # (z[2] \in Found(z[1]).flags)}}

Limits ==
  {[op |-> "AlterLimit", on |-> x[1], prop |-> x[2], limit |-> Declared(x).limit] :
     x \in {y \in BothProps : Declared(y).limit \notin {None, Found(y).limit}}}

Has(d, x) == x[1] \in DOMAIN d /\ x[2] \in DOMAIN d[x[1]].props

\* SchemaSnapshot::resolved_default and applied_default_expr
Resolved(x) == IF Has(snapshot.live, x) THEN snapshot.live[x[1]].props[x[2]].default ELSE None
Applied(x) == IF Has(snapshot.source, x) THEN snapshot.source[x[1]].props[x[2]].default ELSE None

\* Mutant: the live value is compared with the text in the source.
Drifted_text(x) == Declared(x).default \in Literal /\ Found(x).default # Declared(x).default

\* The value of a literal is not the one the last run left.  A call is not
\* looked at: what introspection shows of it depends on the engine.
Drifted(x) == Declared(x).default \in Literal /\ Found(x).default # Resolved(x)

\* Mutant: an edit of the source is not looked at.
DefaultDiffers_drift(x) ==
  \/ (Declared(x).default = None) # (Found(x).default = None)
  \/ Declared(x).default # None /\ Found(x).default # None /\ snapshot.taken /\ Drifted(x)

\* The default a run must set: by its presence, and with a snapshot and a
\* default on both sides, when the source or the live value changed.
DefaultDiffers(x) ==
  \/ (Declared(x).default = None) # (Found(x).default = None)
  \/ /\ Declared(x).default # None /\ Found(x).default # None
     /\ snapshot.taken
     /\ Drifted(x) \/ Applied(x) # Declared(x).default

Defaults ==
  {[op |-> "AlterDefault", on |-> x[1], prop |-> x[2], expr |-> Declared(x).default] :
     x \in {y \in BothProps : DefaultDiffers(y)}}

\* What an override owns is no drift.
Drops ==
  IF Strategy = "Never" THEN {}
  ELSE {[op |-> "DropType", on |-> t] : t \in DOMAIN live \ (DOMAIN source \cup Owned)}

Diff == NewTypes \cup NewProps \cup NewIndexes \cup Supers \cup Flags \cup Limits
        \cup Defaults \cup Drops

\* What no statement can change: the kind, a spec, the type of a property.
Warnings ==
  {<<"kind", t>> : t \in {u \in Both : source[u].kind # live[u].kind}}
  \cup {<<"spec", t>> : t \in {u \in Both : None \notin {source[u].spec, live[u].spec}
                                            /\ source[u].spec # live[u].spec}}
  \cup {<<"type", x[1], x[2]>> : x \in {y \in BothProps : Declared(y).type # Found(y).type}}

\* The place of a statement in the script: TimeSeries types are created before
\* it, then it goes from type to type, and drops come last.
Place(a) ==
  CASE a.op = "CreateType" /\ a.type.kind = "timeseries" -> 0
    [] a.op = "DropType" -> 3 * NType + 3
    [] a.op \in {"CreateType", "AlterSupers"} -> 3 * a.on
    [] a.op = "CreateIndex" -> 3 * a.on + 2
    [] OTHER -> 3 * a.on + 1

----------------------------------------------------------------------------
(* Runs *)

Init ==
  /\ source \in Sources /\ live = Empty /\ snapshot = NoSnapshot
  /\ pc = "idle" /\ todo = {} /\ warned = {}
  /\ clean = FALSE /\ adopted = {}
  /\ edits = 0 /\ drifts = 0 /\ faults = 0

InSync == snapshot.taken /\ snapshot.source = source /\ snapshot.live = live

\* build_plan, and the diff that sync makes; a schema in sync is left alone.
Start ==
  /\ pc = "idle" /\ ~InSync
  /\ todo' = Diff /\ warned' = Warnings
  /\ adopted' = IF snapshot.taken THEN adopted
                ELSE adopted \cup {x \in BothProps : Found(x).default # None}
  /\ pc' = IF Diff = {} THEN "snapshot" ELSE "diff"
  /\ UNCHANGED <<source, live, snapshot, clean, edits, drifts, faults>>

\* The statements of one place have different objects, and commute.
Execute(a) ==
  /\ pc = "diff" /\ a \in todo /\ \A b \in todo : Place(a) <= Place(b)
  /\ live' = Effect(a) /\ todo' = todo \ {a}
  /\ pc' = IF todo = {a} THEN "snapshot" ELSE "diff"
  /\ UNCHANGED <<source, snapshot, warned, clean, adopted, edits, drifts, faults>>

\* The run fails, the server refuses a statement or the process dies.
Fail ==
  /\ pc # "idle" /\ faults < MaxFaults /\ faults' = faults + 1
  /\ pc' = "idle" /\ todo' = {}
  /\ UNCHANGED <<source, live, snapshot, warned, clean, adopted, edits, drifts>>

\* The schema is read again after the diff, and recorded with the source.
WriteSnapshot ==
  /\ pc = "snapshot"
  /\ snapshot' = [taken |-> TRUE, source |-> source, live |-> live]
  /\ clean' = TRUE /\ pc' = "idle"
  /\ adopted' = {x \in adopted \cap BothProps : Found(x).default # Show(Declared(x).default)}
  /\ UNCHANGED <<source, live, todo, warned, edits, drifts, faults>>

\* A developer changes the source, between two runs.
Edit ==
  /\ pc = "idle" /\ edits < MaxEdits /\ edits' = edits + 1
  /\ source' \in Sources \ {source}
  /\ clean' = FALSE
  /\ UNCHANGED <<live, snapshot, run, adopted, drifts, faults>>

\* Someone changes the live schema by hand, between two runs: a property is
\* replaced or dropped, a type is dropped, or made as some source has it.
ByHand(t) ==
  \/ t \in DOMAIN live /\ live' = Dropped(t)
  \/ \E d \in Sources :
       /\ t \in DOMAIN d /\ d[t].supers \subseteq DOMAIN live
       /\ live' = With(live, t, ShownType(d[t]))
  \/ /\ t \in DOMAIN live
     /\ \E p \in DOMAIN live[t].props :
          \/ live' = [live EXCEPT ![t].props = Without(@, p)]
          \/ \E q \in Property : live' = [live EXCEPT ![t].props[p] = ShownProp(q)]

Drift ==
  /\ pc = "idle" /\ drifts < MaxDrift /\ drifts' = drifts + 1
  /\ \E t \in Name : ByHand(t)
  /\ clean' = FALSE
  /\ UNCHANGED <<source, snapshot, run, adopted, edits, faults>>

Next ==
  \/ Start \/ (\E a \in todo : Execute(a)) \/ Fail \/ WriteSnapshot
  \/ Edit \/ Drift

Spec == Init /\ [][Next]_vars

----------------------------------------------------------------------------
(* Properties *)

\* A second run right after one that succeeded has nothing to do, and would
\* find nothing if it looked ("see false drift forever", migrator/mod.rs:340):
\* not even for a default, whose text is not what introspection shows of it.
Settles == clean => InSync /\ Diff = {}

\* A run that succeeded leaves what the source declares, after any edits and
\* changes by hand and any runs that failed part-way; what differs was warned
\* about.  The exceptions are those of diff.rs:12-24: a limit cannot be
\* cleared, a call is not compared, and a default that was there before the
\* first run is left alone.
SourceWins ==
  clean =>
    /\ DOMAIN source \subseteq DOMAIN live
    /\ \A t \in Both :
         /\ source[t].kind = live[t].kind \/ <<"kind", t>> \in warned
         /\ source[t].spec = live[t].spec \/ {<<"spec", t>>, <<"kind", t>>} \cap warned # {}
    /\ \A t \in Compared :
         /\ source[t].supers = live[t].supers
         /\ source[t].indexes \subseteq live[t].indexes
         /\ DOMAIN source[t].props \subseteq DOMAIN live[t].props
    /\ \A x \in BothProps :
         /\ Declared(x).type = Found(x).type \/ <<"type", x[1], x[2]>> \in warned
         /\ Declared(x).flags = Found(x).flags
         /\ Declared(x).limit \in {None, Found(x).limit}
         /\ (Declared(x).default = None) = (Found(x).default = None)
         /\ Declared(x).default \in Literal /\ x \notin adopted
              => Found(x).default = Shown[Declared(x).default]

\* "source edits and DB drift both re-apply the desired expression"
\* (diff.rs:23-24), for a call in a schema that only runs have touched.
CallsApplied ==
  clean /\ drifts = 0 =>
    \A x \in BothProps \ adopted :
      Declared(x).default \in Call => Found(x).default = Shown[Declared(x).default]
=============================================================================
