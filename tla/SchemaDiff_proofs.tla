--------------------------- MODULE SchemaDiff_proofs ---------------------------
(***************************************************************************)
(* Proofs about the diff: a run that succeeded leaves what the source      *)
(* declares, and a second run finds nothing to do.                         *)
(*                                                                         *)
(* The argument.  While a run executes its statements, whatever still      *)
(* differs between source and live schema has its statement in todo        *)
(* (Pending), and every statement in todo says what the source declares,   *)
(* of something that is there or that an earlier statement creates         *)
(* (Meant): the order of the script is what makes the second hold, types   *)
(* before what is in them and drops last.  When todo is empty, nothing     *)
(* differs.  For defaults, which the diff compares with the snapshot and   *)
(* not with the source, Recorded says that the snapshot shows what its     *)
(* source declares.                                                        *)
(***************************************************************************)
EXTENDS SchemaDiff, TLAPS

----------------------------------------------------------------------------
(* The statements of the source, and of the live schema as it is now *)

CreateType(t) == [op |-> "CreateType", on |-> t, type |-> Bare(source[t])]
CreateProperty(t, p) ==
  [op |-> "CreateProperty", on |-> t, prop |-> p, def |-> source[t].props[p]]
CreateIndex(t, i) == [op |-> "CreateIndex", on |-> t, index |-> i]
AlterSupers(t) ==
  [op |-> "AlterSupers", on |-> t, add |-> source[t].supers \ live[t].supers,
   remove |-> live[t].supers \ source[t].supers]
AlterFlag(t, p, f) ==
  [op |-> "AlterFlag", on |-> t, prop |-> p, flag |-> f,
   set |-> f \in source[t].props[p].flags]
AlterLimit(t, p) ==
  [op |-> "AlterLimit", on |-> t, prop |-> p, limit |-> source[t].props[p].limit]
AlterDefault(t, p) ==
  [op |-> "AlterDefault", on |-> t, prop |-> p, expr |-> source[t].props[p].default]
DropType(t) == [op |-> "DropType", on |-> t]

----------------------------------------------------------------------------
(* The invariant *)

ShownProperty == [type : DataType, flags : SUBSET Flag,
                  limit : Limit \cup {None}, default : Range(Shown) \cup {None}]

IsLive(d) ==
  /\ DOMAIN d \subseteq Name
  /\ \A t \in DOMAIN d :
       IsType(d[t]) /\ \A p \in DOMAIN d[t].props : d[t].props[p] \in ShownProperty

Typed == IsSource(source) /\ IsLive(live) /\ pc \in {"idle", "diff", "snapshot"}

\* Properties on both sides, of a type that is compared.
Common(t, p) ==
  t \in Compared /\ p \in DOMAIN source[t].props /\ p \in DOMAIN live[t].props

\* A default is there or not as declared, and a literal that no run adopted is
\* what introspection shows of the one declared.
DefaultDone(t, p) ==
  /\ (source[t].props[p].default = None) = (live[t].props[p].default = None)
  /\ source[t].props[p].default \in Literal /\ <<t, p>> \notin adopted
       => live[t].props[p].default = Shown[source[t].props[p].default]

PendingTypes == \A t \in DOMAIN source : t \in DOMAIN live \/ CreateType(t) \in todo

\* The parts of a type that is missing have their statements too.
Part(t) == t \in DOMAIN source /\ (t \notin DOMAIN live \/ t \in Compared)

PendingProps ==
  \A t, p : Part(t) /\ p \in DOMAIN source[t].props =>
    (t \in DOMAIN live /\ p \in DOMAIN live[t].props) \/ CreateProperty(t, p) \in todo

PendingIndexes ==
  \A t, i : Part(t) /\ i \in source[t].indexes =>
    (t \in DOMAIN live /\ i \in live[t].indexes) \/ CreateIndex(t, i) \in todo

PendingSupers ==
  \A t \in Compared : source[t].supers = live[t].supers \/ AlterSupers(t) \in todo

PendingFlags ==
  \A t, p, f : Common(t, p) /\ f \in Flag =>
    \/ (f \in source[t].props[p].flags) = (f \in live[t].props[p].flags)
    \/ AlterFlag(t, p, f) \in todo

PendingLimits ==
  \A t, p : Common(t, p) =>
    source[t].props[p].limit \in {None, live[t].props[p].limit} \/ AlterLimit(t, p) \in todo

PendingDefaults ==
  \A t, p : Common(t, p) => DefaultDone(t, p) \/ AlterDefault(t, p) \in todo

PendingDrops ==
  \A t \in DOMAIN live \ (DOMAIN source \cup Owned) :
    Strategy = "Never" \/ DropType(t) \in todo

Warned ==
  /\ \A t \in Both : source[t].kind = live[t].kind \/ <<"kind", t>> \in warned
  /\ \A t \in Both : \/ source[t].spec = live[t].spec
                     \/ source[t].kind # live[t].kind
                     \/ <<"spec", t>> \in warned
  /\ \A t, p : Common(t, p) => \/ source[t].props[p].type = live[t].props[p].type
                               \/ <<"type", t, p>> \in warned

Pending ==
  /\ PendingTypes /\ PendingProps /\ PendingIndexes /\ PendingSupers
  /\ PendingFlags /\ PendingLimits /\ PendingDefaults /\ PendingDrops
  /\ Warned

\* The parts of a type that is, or will be, no TimeSeries.
Plain(t) == t \in DOMAIN source /\ source[t].kind # "timeseries"
            /\ (t \in DOMAIN live => live[t].kind # "timeseries")

\* What a statement of the run may be.
Meant(a) ==
  \/ \E t \in DOMAIN source : a = CreateType(t)
  \/ \E t, p : Plain(t) /\ p \in DOMAIN source[t].props /\ a = CreateProperty(t, p)
  \/ \E t, i : Plain(t) /\ i \in source[t].indexes /\ a = CreateIndex(t, i)
  \/ \E t \in Compared : a = AlterSupers(t)
  \/ \E t, p, f : Common(t, p) /\ f \in Flag /\ a = AlterFlag(t, p, f)
  \/ \E t, p : Common(t, p) /\ source[t].props[p].limit # None /\ a = AlterLimit(t, p)
  \/ \E t, p : Common(t, p) /\ a = AlterDefault(t, p)
  \/ \E t \in Name \ DOMAIN source : a = DropType(t)

\* What the snapshot shows of a literal is what its source declares.
Recorded ==
  snapshot.taken =>
    \A t, p :
      /\ Has(snapshot.source, <<t, p>>) /\ Has(snapshot.live, <<t, p>>)
      /\ <<t, p>> \notin adopted
      /\ snapshot.source[t].props[p].default \in Literal
      => snapshot.live[t].props[p].default = Shown[snapshot.source[t].props[p].default]

DInv ==
  /\ Typed
  /\ pc # "idle" => Pending /\ \A a \in todo : Meant(a)
  /\ pc = "snapshot" => todo = {}
  /\ Recorded
  /\ clean => pc = "idle" /\ InSync /\ Diff = {} /\ SourceWins

----------------------------------------------------------------------------
(* What one statement does to the live schema *)

SameTypes ==
  /\ DOMAIN live' = DOMAIN live
  /\ \A t \in DOMAIN live : live'[t].kind = live[t].kind /\ live'[t].spec = live[t].spec
SameNames ==
  \A t \in DOMAIN live :
    /\ DOMAIN live'[t].props = DOMAIN live[t].props
    /\ \A p \in DOMAIN live[t].props : live'[t].props[p].type = live[t].props[p].type
SameSupers == \A t \in DOMAIN live : live'[t].supers = live[t].supers
SameIndexes == \A t \in DOMAIN live : live'[t].indexes = live[t].indexes
SameFlags ==
  \A t \in DOMAIN live : \A p \in DOMAIN live[t].props :
    live'[t].props[p].flags = live[t].props[p].flags
SameLimits ==
  \A t \in DOMAIN live : \A p \in DOMAIN live[t].props :
    live'[t].props[p].limit = live[t].props[p].limit
SameDefaults ==
  \A t \in DOMAIN live : \A p \in DOMAIN live[t].props :
    live'[t].props[p].default = live[t].props[p].default

\* A property is altered in place.
Becomes(t, p, q) == live' = [live EXCEPT ![t].props[p] = q]

\* Everything else is then as it was.
LEMMA Altered ==
  ASSUME IsLive(live), NEW t \in DOMAIN live, NEW p \in DOMAIN live[t].props,
         NEW q \in ShownProperty,
         q.type = live[t].props[p].type,
         Becomes(t, p, q)
  PROVE  /\ IsLive(live)' /\ SameTypes /\ SameNames /\ SameSupers /\ SameIndexes
         /\ live'[t].props[p] = q
         /\ \A u \in DOMAIN live : \A r \in DOMAIN live[u].props :
              u # t \/ r # p => live'[u].props[r] = live[u].props[r]
<1>1. IsType(live[t]) /\ \A u \in DOMAIN live : IsType(live[u])
  BY DEF IsLive
<1>2. DOMAIN live' = DOMAIN live /\ \A u \in DOMAIN live \ {t} : live'[u] = live[u]
  BY DEF Becomes
<1>3. /\ DOMAIN live'[t] = DOMAIN live[t]
      /\ \A k \in DOMAIN live[t] \ {"props"} : live'[t][k] = live[t][k]
      /\ live'[t].props = [live[t].props EXCEPT ![p] = q]
  BY <1>1 DEF IsType, Becomes
<1>4. /\ live'[t].kind = live[t].kind /\ live'[t].spec = live[t].spec
      /\ live'[t].supers = live[t].supers /\ live'[t].indexes = live[t].indexes
  BY <1>1, <1>3 DEF IsType
<1>5. /\ DOMAIN live'[t].props = DOMAIN live[t].props /\ live'[t].props[p] = q
      /\ \A r \in DOMAIN live[t].props \ {p} : live'[t].props[r] = live[t].props[r]
  BY <1>3
<1>6. SameTypes /\ SameSupers /\ SameIndexes
  BY <1>2, <1>4 DEF SameTypes, SameSupers, SameIndexes
<1>7. SameNames
  BY <1>2, <1>5 DEF SameNames
<1>8. IsType(live'[t])
  BY <1>1, <1>3, <1>4, <1>5 DEF IsType
<1>9. \A r \in DOMAIN live'[t].props : live'[t].props[r] \in ShownProperty
  BY <1>5 DEF IsLive
<1>10. IsLive(live)'
  BY <1>2, <1>8, <1>9 DEF IsLive
<1> QED
  BY <1>2, <1>5, <1>6, <1>7, <1>10

LEMMA CommonLive ==
  ASSUME Typed, NEW t, NEW p, Common(t, p)
  PROVE  /\ t \in DOMAIN live /\ p \in DOMAIN live[t].props
         /\ t \in DOMAIN source /\ p \in DOMAIN source[t].props
         /\ live[t].props[p] \in ShownProperty
         /\ source[t].props[p] \in Property
  BY DEF Typed, Common, Compared, Both, IsLive, IsSource

\* Introspection shows a default exactly when there is one.
LEMMA Shows ==
  ASSUME NEW e \in Expr \cup {None}
  PROVE  /\ Show(e) \in Range(Shown) \cup {None}
         /\ (Show(e) = None) = (e = None)
         /\ e \in Literal => e # None /\ Show(e) = Shown[e]
  BY DiffAssumption DEF Show, Range, Expr

LEMMA AlterFlagEffect ==
  ASSUME Typed, NEW t, NEW p, NEW f \in Flag, Common(t, p),
         live' = Effect(AlterFlag(t, p, f))
  PROVE  /\ IsLive(live)' /\ SameTypes /\ SameNames /\ SameSupers /\ SameIndexes
         /\ SameLimits /\ SameDefaults
         /\ (f \in live'[t].props[p].flags) = (f \in source[t].props[p].flags)
         /\ \A u \in DOMAIN live : \A r \in DOMAIN live[u].props : \A g \in Flag :
              u # t \/ r # p \/ g # f =>
                (g \in live'[u].props[r].flags) = (g \in live[u].props[r].flags)
<1> DEFINE old == live[t].props[p]
           q == [old EXCEPT !.flags = IF f \in source[t].props[p].flags
                                      THEN @ \cup {f} ELSE @ \ {f}]
<1>1. t \in DOMAIN live /\ p \in DOMAIN live[t].props /\ old \in ShownProperty /\ IsLive(live)
  BY CommonLive DEF Typed
<1>2. q \in ShownProperty /\ q.type = old.type /\ q.limit = old.limit /\ q.default = old.default
  BY <1>1 DEF ShownProperty
<1>3. /\ (f \in q.flags) = (f \in source[t].props[p].flags)
      /\ \A g \in Flag : g # f => (g \in q.flags) = (g \in old.flags)
  BY <1>1 DEF ShownProperty
<1> DEFINE a == AlterFlag(t, p, f)
<1>4. /\ a.op = "AlterFlag" /\ a.on = t /\ a.prop = p /\ a.flag = f
      /\ a.set = (f \in source[t].props[p].flags) /\ live' = Effect(a)
  BY DEF AlterFlag
<1> HIDE DEF a
<1>5. live' = [live EXCEPT ![a.on].props[a.prop].flags =
                 IF a.set THEN @ \cup {a.flag} ELSE @ \ {a.flag}]
  BY <1>4 DEF Effect
<1>6. live' = [live EXCEPT ![t].props[p].flags =
                 IF f \in source[t].props[p].flags THEN @ \cup {f} ELSE @ \ {f}]
  BY <1>4, <1>5
<1>7. Becomes(t, p, q)
  BY <1>6 DEF Becomes
<1> HIDE DEF q
<1>8. /\ IsLive(live)' /\ SameTypes /\ SameNames /\ SameSupers /\ SameIndexes
      /\ live'[t].props[p] = q
      /\ \A u \in DOMAIN live : \A r \in DOMAIN live[u].props :
           u # t \/ r # p => live'[u].props[r] = live[u].props[r]
  BY <1>1, <1>2, <1>7, Altered
<1>9. SameLimits /\ SameDefaults
  BY <1>2, <1>8 DEF SameLimits, SameDefaults
<1> QED
  BY <1>3, <1>8, <1>9

LEMMA AlterLimitEffect ==
  ASSUME Typed, NEW t, NEW p, Common(t, p), source[t].props[p].limit # None,
         live' = Effect(AlterLimit(t, p))
  PROVE  /\ IsLive(live)' /\ SameTypes /\ SameNames /\ SameSupers /\ SameIndexes
         /\ SameFlags /\ SameDefaults
         /\ live'[t].props[p].limit = source[t].props[p].limit
         /\ \A u \in DOMAIN live : \A r \in DOMAIN live[u].props :
              u # t \/ r # p => live'[u].props[r] = live[u].props[r]
<1> DEFINE old == live[t].props[p]
           q == [old EXCEPT !.limit = source[t].props[p].limit]
<1>1. t \in DOMAIN live /\ p \in DOMAIN live[t].props /\ old \in ShownProperty /\ IsLive(live)
      /\ source[t].props[p] \in Property
  BY CommonLive DEF Typed
<1>2. q \in ShownProperty /\ q.type = old.type /\ q.flags = old.flags /\ q.default = old.default
      /\ q.limit = source[t].props[p].limit
  BY <1>1 DEF ShownProperty, Property
<1>3. live' = [live EXCEPT ![t].props[p].limit = source[t].props[p].limit]
  <2> DEFINE a == AlterLimit(t, p)
  <2>1. /\ a.op = "AlterLimit" /\ a.on = t /\ a.prop = p
        /\ a.limit = source[t].props[p].limit /\ live' = Effect(a)
    BY DEF AlterLimit
  <2> HIDE DEF a
  <2>2. live' = [live EXCEPT ![a.on].props[a.prop].limit = a.limit]
    BY <2>1 DEF Effect
  <2> QED
    BY <2>1, <2>2
<1>9. Becomes(t, p, q)
  BY <1>3 DEF Becomes
<1> HIDE DEF q
<1>4. /\ IsLive(live)' /\ SameTypes /\ SameNames /\ SameSupers /\ SameIndexes
      /\ live'[t].props[p] = q
      /\ \A u \in DOMAIN live : \A r \in DOMAIN live[u].props :
           u # t \/ r # p => live'[u].props[r] = live[u].props[r]
  BY <1>1, <1>2, <1>9, Altered
<1>5. SameFlags /\ SameDefaults
  BY <1>2, <1>4 DEF SameFlags, SameDefaults
<1> QED
  BY <1>2, <1>4, <1>5

LEMMA AlterDefaultEffect ==
  ASSUME Typed, NEW t, NEW p, Common(t, p),
         live' = Effect(AlterDefault(t, p))
  PROVE  /\ IsLive(live)' /\ SameTypes /\ SameNames /\ SameSupers /\ SameIndexes
         /\ SameFlags /\ SameLimits
         /\ live'[t].props[p].default = Show(source[t].props[p].default)
         /\ \A u \in DOMAIN live : \A r \in DOMAIN live[u].props :
              u # t \/ r # p => live'[u].props[r] = live[u].props[r]
<1> DEFINE old == live[t].props[p]
           q == [old EXCEPT !.default = Show(source[t].props[p].default)]
<1>1. t \in DOMAIN live /\ p \in DOMAIN live[t].props /\ old \in ShownProperty /\ IsLive(live)
      /\ source[t].props[p].default \in Expr \cup {None}
  BY CommonLive DEF Typed, Property
<1>2. Show(source[t].props[p].default) \in Range(Shown) \cup {None}
  BY <1>1, Shows
<1>3. q \in ShownProperty /\ q.type = old.type /\ q.flags = old.flags /\ q.limit = old.limit
      /\ q.default = Show(source[t].props[p].default)
  BY <1>1, <1>2 DEF ShownProperty
<1>4. live' = [live EXCEPT ![t].props[p].default = Show(source[t].props[p].default)]
  <2> DEFINE a == AlterDefault(t, p)
  <2>1. /\ a.op = "AlterDefault" /\ a.on = t /\ a.prop = p
        /\ a.expr = source[t].props[p].default /\ live' = Effect(a)
    BY DEF AlterDefault
  <2> HIDE DEF a
  <2>2. live' = [live EXCEPT ![a.on].props[a.prop].default = Show(a.expr)]
    BY <2>1 DEF Effect
  <2> QED
    BY <2>1, <2>2
<1>9. Becomes(t, p, q)
  BY <1>4 DEF Becomes
<1> HIDE DEF q
<1>5. /\ IsLive(live)' /\ SameTypes /\ SameNames /\ SameSupers /\ SameIndexes
      /\ live'[t].props[p] = q
      /\ \A u \in DOMAIN live : \A r \in DOMAIN live[u].props :
           u # t \/ r # p => live'[u].props[r] = live[u].props[r]
  BY <1>1, <1>3, <1>9, Altered
<1>6. SameFlags /\ SameLimits
  BY <1>3, <1>5 DEF SameFlags, SameLimits
<1> QED
  BY <1>3, <1>5, <1>6

SameValues ==
  \A t \in DOMAIN live : live'[t].props = live[t].props

LEMMA AlterSupersEffect ==
  ASSUME Typed, NEW t \in Compared, live' = Effect(AlterSupers(t))
  PROVE  /\ IsLive(live)' /\ SameTypes /\ SameValues /\ SameIndexes
         /\ live'[t].supers = source[t].supers
         /\ \A u \in DOMAIN live : u # t => live'[u].supers = live[u].supers
<1> DEFINE a == AlterSupers(t)
           d == [live[t] EXCEPT !.supers = source[t].supers]
<1>1. /\ t \in DOMAIN live /\ t \in DOMAIN source
      /\ \A u \in DOMAIN live : IsType(live[u])
      /\ live[t].kind # "timeseries" /\ IsType(source[t])
  BY DEF Typed, IsLive, IsSource, Compared, Both
<1>2. /\ a.op = "AlterSupers" /\ a.on = t /\ live' = Effect(a)
      /\ a.add = source[t].supers \ live[t].supers
      /\ a.remove = live[t].supers \ source[t].supers
  BY DEF AlterSupers
<1> HIDE DEF a
<1>3. live' = [live EXCEPT ![a.on].supers = (@ \ a.remove) \cup a.add]
  BY <1>2 DEF Effect
<1>4. (live[t].supers \ a.remove) \cup a.add = source[t].supers
  BY <1>2
<1>5. /\ DOMAIN live' = DOMAIN live /\ live'[t] = d
      /\ \A u \in DOMAIN live : u # t => live'[u] = live[u]
  BY <1>1, <1>2, <1>3, <1>4
<1>6. /\ DOMAIN d = DOMAIN live[t] /\ d.supers = source[t].supers
      /\ d.kind = live[t].kind /\ d.spec = live[t].spec
      /\ d.props = live[t].props /\ d.indexes = live[t].indexes
  BY <1>1 DEF IsType
<1> HIDE DEF d
<1>7. IsType(d)
  BY <1>1, <1>6 DEF IsType
<1>8. IsLive(live)'
  BY <1>5, <1>6, <1>7 DEF IsLive, Typed
<1> QED
  BY <1>5, <1>6, <1>8 DEF SameTypes, SameValues, SameIndexes

LEMMA CreateIndexEffect ==
  ASSUME Typed, NEW t \in DOMAIN live, NEW i, Plain(t), i \in source[t].indexes,
         live' = Effect(CreateIndex(t, i))
  PROVE  /\ IsLive(live)' /\ SameTypes /\ SameValues /\ SameSupers
         /\ live'[t].indexes = live[t].indexes \cup {i}
         /\ \A u \in DOMAIN live : u # t => live'[u].indexes = live[u].indexes
<1> DEFINE a == CreateIndex(t, i)
           d == [live[t] EXCEPT !.indexes = @ \cup {i}]
<1>1. /\ t \in DOMAIN source
      /\ \A u \in DOMAIN live : IsType(live[u])
      /\ live[t].kind # "timeseries" /\ i \in Index
  BY DEF Typed, IsLive, IsSource, Plain, IsType
<1>2. a.op = "CreateIndex" /\ a.on = t /\ a.index = i /\ live' = Effect(a)
  BY DEF CreateIndex
<1> HIDE DEF a
<1>3. live' = [live EXCEPT ![a.on].indexes = @ \cup {a.index}]
  BY <1>2 DEF Effect
<1>4. /\ DOMAIN live' = DOMAIN live /\ live'[t] = d
      /\ \A u \in DOMAIN live : u # t => live'[u] = live[u]
  BY <1>1, <1>2, <1>3
<1>5. /\ DOMAIN d = DOMAIN live[t] /\ d.indexes = live[t].indexes \cup {i}
      /\ d.kind = live[t].kind /\ d.spec = live[t].spec
      /\ d.props = live[t].props /\ d.supers = live[t].supers
  BY <1>1 DEF IsType
<1> HIDE DEF d
<1>6. IsType(d)
  BY <1>1, <1>5 DEF IsType
<1>7. IsLive(live)'
  BY <1>4, <1>5, <1>6 DEF IsLive, Typed
<1> QED
  BY <1>4, <1>5, <1>7 DEF SameTypes, SameValues, SameSupers

\* A property that is there already is left alone.
LEMMA CreatePropertyEffect ==
  ASSUME Typed, NEW t \in DOMAIN live, NEW p, Plain(t), p \in DOMAIN source[t].props,
         live' = Effect(CreateProperty(t, p))
  PROVE  /\ IsLive(live)' /\ SameTypes /\ SameSupers /\ SameIndexes
         /\ DOMAIN live'[t].props = DOMAIN live[t].props \cup {p}
         /\ p \notin DOMAIN live[t].props => live'[t].props[p] = ShownProp(source[t].props[p])
         /\ \A r \in DOMAIN live[t].props : live'[t].props[r] = live[t].props[r]
         /\ \A u \in DOMAIN live : u # t => live'[u] = live[u]
<1> DEFINE a == CreateProperty(t, p)
           q == ShownProp(source[t].props[p])
           d == [live[t] EXCEPT !.props = With(@, p, q)]
<1>1. /\ t \in DOMAIN source
      /\ \A u \in DOMAIN live : IsType(live[u])
      /\ live[t].kind # "timeseries" /\ p \in Prop /\ source[t].props[p] \in Property
  BY DEF Typed, IsLive, IsSource, Plain, IsType
<1>2. /\ a.op = "CreateProperty" /\ a.on = t /\ a.prop = p /\ a.def = source[t].props[p]
      /\ live' = Effect(a)
  BY DEF CreateProperty
<1> HIDE DEF a
<1>3. CASE p \in DOMAIN live[t].props
  <2>1. live' = live
    BY <1>2, <1>3 DEF Effect
  <2> QED
    BY <1>3, <2>1 DEF SameTypes, SameSupers, SameIndexes, Typed
<1>4. CASE p \notin DOMAIN live[t].props
  <2>1. live' = [live EXCEPT ![a.on].props = With(@, a.prop, ShownProp(a.def))]
    BY <1>2, <1>4 DEF Effect
  <2>2. /\ DOMAIN live' = DOMAIN live /\ live'[t] = d
        /\ \A u \in DOMAIN live : u # t => live'[u] = live[u]
    BY <1>1, <1>2, <2>1
  <2>3. /\ DOMAIN d = DOMAIN live[t] /\ d.indexes = live[t].indexes
        /\ d.kind = live[t].kind /\ d.spec = live[t].spec
        /\ d.props = With(live[t].props, p, q) /\ d.supers = live[t].supers
    BY <1>1 DEF IsType
  <2>4. q \in ShownProperty
    <3>1. Show(source[t].props[p].default) \in Range(Shown) \cup {None}
      BY <1>1, Shows DEF Property
    <3> QED
      BY <1>1, <3>1 DEF ShownProp, ShownProperty, Property
  <2> HIDE DEF q, d
  <2>5. /\ DOMAIN d.props = DOMAIN live[t].props \cup {p} /\ d.props[p] = q
        /\ \A r \in DOMAIN live[t].props : d.props[r] = live[t].props[r]
    BY <1>4, <2>3 DEF With
  <2>6. IsType(d)
    BY <1>1, <2>3, <2>5 DEF IsType
  <2>7. \A r \in DOMAIN d.props : d.props[r] \in ShownProperty
    BY <2>4, <2>5 DEF Typed, IsLive
  <2>8. IsLive(live)'
    BY <2>2, <2>6, <2>7 DEF IsLive, Typed
  <2>9. SameTypes /\ SameSupers /\ SameIndexes
    BY <2>2, <2>3 DEF SameTypes, SameSupers, SameIndexes
  <2> QED
    BY <2>2, <2>5, <2>8, <2>9 DEF q
<1> QED
  BY <1>3, <1>4

\* So is a type that is there already.
LEMMA CreateTypeEffect ==
  ASSUME Typed, NEW t \in DOMAIN source, live' = Effect(CreateType(t))
  PROVE  /\ IsLive(live)'
         /\ t \in DOMAIN live => live' = live
         /\ DOMAIN live' = DOMAIN live \cup {t}
         /\ \A u \in DOMAIN live : live'[u] = live[u]
         /\ t \notin DOMAIN live =>
              /\ live'[t].kind = source[t].kind /\ live'[t].spec = source[t].spec
              /\ live'[t].supers = source[t].supers
              /\ DOMAIN live'[t].props = {} /\ live'[t].indexes = {}
<1> DEFINE a == CreateType(t)
           d == Bare(source[t])
<1>1. t \in Name /\ IsType(source[t]) /\ \A u \in DOMAIN live : IsType(live[u])
  BY DEF Typed, IsLive, IsSource
<1>2. a.op = "CreateType" /\ a.on = t /\ a.type = d /\ live' = Effect(a)
  BY DEF CreateType
<1> HIDE DEF a
<1>3. CASE t \in DOMAIN live
  <2>1. live' = live
    BY <1>2, <1>3 DEF Effect
  <2> QED
    BY <1>3, <2>1 DEF Typed
<1>4. CASE t \notin DOMAIN live
  <2>1. live' = With(live, t, d)
    BY <1>2, <1>4 DEF Effect
  <2>2. /\ d.kind = source[t].kind /\ d.spec = source[t].spec /\ d.supers = source[t].supers
        /\ DOMAIN d.props = {} /\ d.indexes = {} /\ DOMAIN d = DOMAIN source[t]
    BY <1>1 DEF Bare, IsType
  <2> HIDE DEF d
  <2>3. /\ DOMAIN live' = DOMAIN live \cup {t} /\ live'[t] = d
        /\ \A u \in DOMAIN live : live'[u] = live[u]
    BY <1>4, <2>1 DEF With
  <2>4. IsType(d)
    BY <1>1, <2>2 DEF IsType
  <2>5. IsLive(live)'
    BY <1>1, <2>2, <2>3, <2>4 DEF IsLive, Typed
  <2> QED
    BY <1>4, <2>2, <2>3, <2>5
<1> QED
  BY <1>3, <1>4

LEMMA DroppedIsLive ==
  ASSUME IsLive(live), NEW t, live' = Dropped(t)
  PROVE  /\ IsLive(live)' /\ DOMAIN live' = DOMAIN live \ {t}
         /\ \A u \in DOMAIN live' :
              /\ live'[u].kind = live[u].kind /\ live'[u].spec = live[u].spec
              /\ live'[u].props = live[u].props /\ live'[u].indexes = live[u].indexes
              /\ live'[u].supers = live[u].supers \ {t}
<1>1. DOMAIN live' = DOMAIN live \ {t}
      /\ \A u \in DOMAIN live' : live'[u] = [live[u] EXCEPT !.supers = @ \ {t}]
  BY DEF Dropped
<1>2. ASSUME NEW u \in DOMAIN live'
      PROVE  /\ live'[u].kind = live[u].kind /\ live'[u].spec = live[u].spec
             /\ live'[u].props = live[u].props /\ live'[u].indexes = live[u].indexes
             /\ live'[u].supers = live[u].supers \ {t}
             /\ DOMAIN live'[u] = DOMAIN live[u]
  BY <1>1 DEF IsLive, IsType
<1>3. ASSUME NEW u \in DOMAIN live' PROVE IsType(live'[u])
  BY <1>1, <1>2 DEF IsLive, IsType
<1>4. IsLive(live)'
  BY <1>1, <1>2, <1>3 DEF IsLive
<1> QED
  BY <1>1, <1>2, <1>4

----------------------------------------------------------------------------
(* What a statement leaves pending: whatever it does not touch *)

LEMMA TypesFrame ==
  ASSUME SameTypes, source' = source
  PROVE  /\ Both' = Both /\ Compared' = Compared
         /\ \A t : Part(t)' = Part(t) /\ Plain(t)' = Plain(t)
<1>1. Both' = Both /\ Both \subseteq DOMAIN live
  BY DEF SameTypes, Both
<1>2. Compared' = Compared
  BY <1>1 DEF SameTypes, Compared
<1>3. ASSUME NEW t PROVE Part(t)' = Part(t) /\ Plain(t)' = Plain(t)
  BY <1>2 DEF SameTypes, Part, Plain
<1> QED
  BY <1>1, <1>2, <1>3

LEMMA NamesFrame ==
  ASSUME SameTypes, SameNames, source' = source, NEW t, NEW p
  PROVE  Common(t, p)' = Common(t, p) /\ (Common(t, p) => t \in DOMAIN live)
<1>1. Compared' = Compared /\ Compared \subseteq DOMAIN live
  BY TypesFrame DEF Compared, Both
<1> QED
  BY <1>1 DEF SameNames, Common

LEMMA KeepTypes ==
  ASSUME SameTypes, source' = source, NEW a, a.op # "CreateType", todo' = todo \ {a},
         PendingTypes
  PROVE  PendingTypes'
  BY DEF SameTypes, PendingTypes, CreateType

LEMMA KeepProps ==
  ASSUME SameTypes, SameNames, source' = source, NEW a, a.op # "CreateProperty",
         todo' = todo \ {a}, PendingProps
  PROVE  PendingProps'
<1> SUFFICES ASSUME NEW t, NEW p, Part(t)', p \in DOMAIN source[t].props
             PROVE  \/ t \in DOMAIN live' /\ p \in DOMAIN live'[t].props
                    \/ CreateProperty(t, p)' \in todo'
  BY DEF PendingProps
<1>1. Part(t)
  BY TypesFrame
<1>2. (t \in DOMAIN live /\ p \in DOMAIN live[t].props) \/ CreateProperty(t, p) \in todo
  BY <1>1 DEF PendingProps
<1>3. CreateProperty(t, p)' = CreateProperty(t, p) /\ CreateProperty(t, p) # a
  BY DEF CreateProperty
<1> QED
  BY <1>2, <1>3 DEF SameTypes, SameNames

LEMMA KeepIndexes ==
  ASSUME SameTypes, SameIndexes, source' = source, NEW a, a.op # "CreateIndex",
         todo' = todo \ {a}, PendingIndexes
  PROVE  PendingIndexes'
<1> SUFFICES ASSUME NEW t, NEW i, Part(t)', i \in source[t].indexes
             PROVE  \/ t \in DOMAIN live' /\ i \in live'[t].indexes
                    \/ CreateIndex(t, i)' \in todo'
  BY DEF PendingIndexes
<1>1. Part(t)
  BY TypesFrame
<1>2. (t \in DOMAIN live /\ i \in live[t].indexes) \/ CreateIndex(t, i) \in todo
  BY <1>1 DEF PendingIndexes
<1>3. CreateIndex(t, i)' = CreateIndex(t, i) /\ CreateIndex(t, i) # a
  BY DEF CreateIndex
<1> QED
  BY <1>2, <1>3 DEF SameTypes, SameIndexes

LEMMA KeepSupers ==
  ASSUME SameTypes, SameSupers, source' = source, NEW a, a.op # "AlterSupers",
         todo' = todo \ {a}, PendingSupers
  PROVE  PendingSupers'
<1> SUFFICES ASSUME NEW t \in Compared'
             PROVE  source[t].supers = live'[t].supers \/ AlterSupers(t)' \in todo'
  BY DEF PendingSupers
<1>1. t \in Compared /\ t \in DOMAIN live
  BY TypesFrame DEF Compared, Both
<1>2. source[t].supers = live[t].supers \/ AlterSupers(t) \in todo
  BY <1>1 DEF PendingSupers
<1>3. live'[t].supers = live[t].supers
  BY <1>1 DEF SameSupers
<1>4. AlterSupers(t)' = AlterSupers(t) /\ AlterSupers(t) # a
  BY <1>3 DEF AlterSupers
<1> QED
  BY <1>2, <1>3, <1>4

LEMMA KeepFlags ==
  ASSUME SameTypes, SameNames, SameFlags, source' = source, NEW a, a.op # "AlterFlag",
         todo' = todo \ {a}, PendingFlags
  PROVE  PendingFlags'
<1> SUFFICES ASSUME NEW t, NEW p, NEW f, Common(t, p)', f \in Flag
             PROVE  \/ (f \in source[t].props[p].flags) = (f \in live'[t].props[p].flags)
                    \/ AlterFlag(t, p, f)' \in todo'
  BY DEF PendingFlags
<1>1. Common(t, p) /\ t \in DOMAIN live /\ p \in DOMAIN live[t].props
  BY NamesFrame DEF Common
<1>2. \/ (f \in source[t].props[p].flags) = (f \in live[t].props[p].flags)
      \/ AlterFlag(t, p, f) \in todo
  BY <1>1 DEF PendingFlags
<1>3. AlterFlag(t, p, f)' = AlterFlag(t, p, f) /\ AlterFlag(t, p, f) # a
  BY DEF AlterFlag
<1>4. live'[t].props[p].flags = live[t].props[p].flags
  BY <1>1 DEF SameFlags
<1> QED
  BY <1>2, <1>3, <1>4

LEMMA KeepLimits ==
  ASSUME SameTypes, SameNames, SameLimits, source' = source, NEW a, a.op # "AlterLimit",
         todo' = todo \ {a}, PendingLimits
  PROVE  PendingLimits'
<1> SUFFICES ASSUME NEW t, NEW p, Common(t, p)'
             PROVE  \/ source[t].props[p].limit \in {None, live'[t].props[p].limit}
                    \/ AlterLimit(t, p)' \in todo'
  BY DEF PendingLimits
<1>1. Common(t, p) /\ t \in DOMAIN live /\ p \in DOMAIN live[t].props
  BY NamesFrame DEF Common
<1>2. source[t].props[p].limit \in {None, live[t].props[p].limit} \/ AlterLimit(t, p) \in todo
  BY <1>1 DEF PendingLimits
<1>3. AlterLimit(t, p)' = AlterLimit(t, p) /\ AlterLimit(t, p) # a
  BY DEF AlterLimit
<1>4. live'[t].props[p].limit = live[t].props[p].limit
  BY <1>1 DEF SameLimits
<1> QED
  BY <1>2, <1>3, <1>4

LEMMA KeepDefaults ==
  ASSUME SameTypes, SameNames, SameDefaults, UNCHANGED <<source, adopted>>,
         NEW a, a.op # "AlterDefault", todo' = todo \ {a}, PendingDefaults
  PROVE  PendingDefaults'
<1> SUFFICES ASSUME NEW t, NEW p, Common(t, p)'
             PROVE  DefaultDone(t, p)' \/ AlterDefault(t, p)' \in todo'
  BY DEF PendingDefaults
<1>1. Common(t, p) /\ t \in DOMAIN live /\ p \in DOMAIN live[t].props
  BY NamesFrame DEF Common
<1>2. DefaultDone(t, p) \/ AlterDefault(t, p) \in todo
  BY <1>1 DEF PendingDefaults
<1>3. AlterDefault(t, p)' = AlterDefault(t, p) /\ AlterDefault(t, p) # a
  BY DEF AlterDefault
<1>4. live'[t].props[p].default = live[t].props[p].default
  BY <1>1 DEF SameDefaults
<1>5. DefaultDone(t, p) => DefaultDone(t, p)'
  BY <1>4, source' = source, adopted' = adopted DEF DefaultDone
<1> QED
  BY <1>2, <1>3, <1>5

LEMMA KeepDrops ==
  ASSUME DOMAIN live' \subseteq DOMAIN live \cup DOMAIN source, source' = source,
         NEW a, todo' = todo \ {a}, a.op # "DropType", PendingDrops
  PROVE  PendingDrops'
<1> SUFFICES ASSUME NEW t \in DOMAIN live' \ (DOMAIN source \cup Owned)
             PROVE  Strategy = "Never" \/ DropType(t) \in todo'
  BY DEF PendingDrops, DropType
<1>1. Strategy = "Never" \/ DropType(t) \in todo
  BY DEF PendingDrops
<1>2. DropType(t) # a
  BY DEF DropType
<1> QED
  BY <1>1, <1>2

LEMMA KeepWarned ==
  ASSUME SameTypes, SameNames, UNCHANGED <<source, warned>>, Warned
  PROVE  Warned'
<1>1. Both' = Both /\ Both \subseteq DOMAIN live
  BY TypesFrame DEF Both
<1>2. \A t \in Both : live'[t].kind = live[t].kind /\ live'[t].spec = live[t].spec
  BY <1>1 DEF SameTypes
<1>3. ASSUME NEW t, NEW p, Common(t, p)'
      PROVE  \/ source[t].props[p].type = live'[t].props[p].type
             \/ <<"type", t, p>> \in warned
  <2>1. Common(t, p) /\ t \in DOMAIN live /\ p \in DOMAIN live[t].props
    BY <1>3, NamesFrame DEF Common
  <2> QED
    BY <2>1 DEF SameNames, Warned
<1> QED
  BY <1>1, <1>2, <1>3 DEF Warned

\* Statements stay meant while types and names are only added, as declared.
LEMMA KeepMeant ==
  ASSUME source' = source,
         DOMAIN live \subseteq DOMAIN live',
         \A t \in DOMAIN live' :
           \/ t \in DOMAIN live /\ live'[t].kind = live[t].kind
           \/ t \in DOMAIN source /\ live'[t].kind = source[t].kind,
         \A t \in DOMAIN live :
           /\ live'[t].kind = live[t].kind
           /\ DOMAIN live[t].props \subseteq DOMAIN live'[t].props,
         NEW b, Meant(b),
         \A t \in Compared : b = AlterSupers(t) => live'[t].supers = live[t].supers
  PROVE  Meant(b)'
<1>1. Compared \subseteq Compared' /\ Compared \subseteq DOMAIN live
  BY DEF Compared, Both
<1>2. \A t, p : Common(t, p) => Common(t, p)'
  BY <1>1 DEF Common
<1>3. \A t : Plain(t) => Plain(t)'
  BY DEF Plain
<1>4. CASE \E t \in DOMAIN source : b = CreateType(t)
  BY <1>4 DEF Meant, CreateType
<1>5. CASE \E t, p : Plain(t) /\ p \in DOMAIN source[t].props /\ b = CreateProperty(t, p)
  <2> PICK t, p : Plain(t) /\ p \in DOMAIN source[t].props /\ b = CreateProperty(t, p)
    BY <1>5
  <2> b = CreateProperty(t, p)' /\ Plain(t)'
    BY <1>3 DEF CreateProperty
  <2> QED
    BY DEF Meant
<1>6. CASE \E t, i : Plain(t) /\ i \in source[t].indexes /\ b = CreateIndex(t, i)
  <2> PICK t, i : Plain(t) /\ i \in source[t].indexes /\ b = CreateIndex(t, i)
    BY <1>6
  <2> b = CreateIndex(t, i)' /\ Plain(t)'
    BY <1>3 DEF CreateIndex
  <2> QED
    BY DEF Meant
<1>7. CASE \E t \in Compared : b = AlterSupers(t)
  <2> PICK t \in Compared : b = AlterSupers(t)
    BY <1>7
  <2> b = AlterSupers(t)' /\ t \in Compared'
    BY <1>1 DEF AlterSupers
  <2> QED
    BY DEF Meant
<1>8. CASE \E t, p, f : Common(t, p) /\ f \in Flag /\ b = AlterFlag(t, p, f)
  <2> PICK t, p, f : Common(t, p) /\ f \in Flag /\ b = AlterFlag(t, p, f)
    BY <1>8
  <2> b = AlterFlag(t, p, f)' /\ Common(t, p)'
    BY <1>2 DEF AlterFlag
  <2> QED
    BY DEF Meant
<1>9. CASE \E t, p : Common(t, p) /\ source[t].props[p].limit # None /\ b = AlterLimit(t, p)
  <2> PICK t, p : Common(t, p) /\ source[t].props[p].limit # None /\ b = AlterLimit(t, p)
    BY <1>9
  <2> b = AlterLimit(t, p)' /\ Common(t, p)'
    BY <1>2 DEF AlterLimit
  <2> QED
    BY DEF Meant
<1>10. CASE \E t, p : Common(t, p) /\ b = AlterDefault(t, p)
  <2> PICK t, p : Common(t, p) /\ b = AlterDefault(t, p)
    BY <1>10
  <2> b = AlterDefault(t, p)' /\ Common(t, p)'
    BY <1>2 DEF AlterDefault
  <2> QED
    BY DEF Meant
<1>11. CASE \E t \in Name \ DOMAIN source : b = DropType(t)
  BY <1>11 DEF Meant, DropType
<1> QED
  BY <1>4, <1>5, <1>6, <1>7, <1>8, <1>9, <1>10, <1>11 DEF Meant

----------------------------------------------------------------------------
(* Every statement brings the live schema closer to the source *)

InRun == Typed /\ Pending /\ \A b \in todo : Meant(b)

Executing(a) ==
  /\ InRun /\ a \in todo /\ \A b \in todo : Place(a) <= Place(b)
  /\ live' = Effect(a) /\ todo' = todo \ {a}
  /\ UNCHANGED <<source, warned, adopted>>

Closer == IsLive(live)' /\ Pending' /\ \A b \in todo' : Meant(b)'

\* After a change inside the types that are there.
LEMMA MeantInside ==
  ASSUME NEW a, Executing(a), SameTypes, SameNames, SameSupers
  PROVE  \A b \in todo' : Meant(b)'
<1>1. \A t \in Compared : t \in DOMAIN live
  BY DEF Compared, Both
<1> QED
  BY <1>1, KeepMeant DEF Executing, InRun, SameTypes, SameNames, SameSupers

LEMMA FlagStep ==
  ASSUME NEW t, NEW p, NEW f \in Flag, Common(t, p), Executing(AlterFlag(t, p, f))
  PROVE  Closer
<1> DEFINE a == AlterFlag(t, p, f)
<1>1. a.op = "AlterFlag" /\ Executing(a)
  BY DEF AlterFlag
<1>2. /\ IsLive(live)' /\ SameTypes /\ SameNames /\ SameSupers /\ SameIndexes
      /\ SameLimits /\ SameDefaults
      /\ (f \in live'[t].props[p].flags) = (f \in source[t].props[p].flags)
      /\ \A u \in DOMAIN live : \A r \in DOMAIN live[u].props : \A g \in Flag :
           u # t \/ r # p \/ g # f =>
             (g \in live'[u].props[r].flags) = (g \in live[u].props[r].flags)
  BY AlterFlagEffect DEF Executing, InRun
<1> HIDE DEF a
<1>3. /\ PendingTypes' /\ PendingProps' /\ PendingIndexes' /\ PendingSupers'
      /\ PendingLimits' /\ PendingDefaults' /\ PendingDrops' /\ Warned'
  BY <1>1, <1>2, KeepTypes, KeepProps, KeepIndexes, KeepSupers, KeepLimits, KeepDefaults,
     KeepDrops, KeepWarned DEF Executing, InRun, Pending, SameTypes
<1>4. PendingFlags'
  <2> SUFFICES ASSUME NEW u, NEW r, NEW g, Common(u, r)', g \in Flag
               PROVE  \/ (g \in source[u].props[r].flags) = (g \in live'[u].props[r].flags)
                      \/ AlterFlag(u, r, g)' \in todo'
    BY DEF PendingFlags, Executing
  <2>1. Common(u, r) /\ u \in DOMAIN live /\ r \in DOMAIN live[u].props
    BY <1>2, NamesFrame DEF Common, Executing
  <2>2. \/ (g \in source[u].props[r].flags) = (g \in live[u].props[r].flags)
        \/ AlterFlag(u, r, g) \in todo
    BY <2>1 DEF Executing, InRun, Pending, PendingFlags
  <2>3. AlterFlag(u, r, g)' = AlterFlag(u, r, g)
    BY DEF AlterFlag, Executing
  <2>4. u # t \/ r # p \/ g # f => AlterFlag(u, r, g) # a
    BY DEF AlterFlag, a
  <2> QED
    BY <1>1, <1>2, <2>1, <2>2, <2>3, <2>4 DEF Executing
<1>5. \A b \in todo' : Meant(b)'
  BY <1>1, <1>2, MeantInside
<1> QED
  BY <1>2, <1>3, <1>4, <1>5 DEF Closer, Pending

LEMMA LimitStep ==
  ASSUME NEW t, NEW p, Common(t, p), source[t].props[p].limit # None,
         Executing(AlterLimit(t, p))
  PROVE  Closer
<1> DEFINE a == AlterLimit(t, p)
<1>1. a.op = "AlterLimit" /\ Executing(a)
  BY DEF AlterLimit
<1>2. /\ IsLive(live)' /\ SameTypes /\ SameNames /\ SameSupers /\ SameIndexes
      /\ SameFlags /\ SameDefaults
      /\ live'[t].props[p].limit = source[t].props[p].limit
      /\ \A u \in DOMAIN live : \A r \in DOMAIN live[u].props :
           u # t \/ r # p => live'[u].props[r] = live[u].props[r]
  BY AlterLimitEffect DEF Executing, InRun
<1> HIDE DEF a
<1>3. /\ PendingTypes' /\ PendingProps' /\ PendingIndexes' /\ PendingSupers'
      /\ PendingFlags' /\ PendingDefaults' /\ PendingDrops' /\ Warned'
  BY <1>1, <1>2, KeepTypes, KeepProps, KeepIndexes, KeepSupers, KeepFlags, KeepDefaults,
     KeepDrops, KeepWarned DEF Executing, InRun, Pending, SameTypes
<1>4. PendingLimits'
  <2> SUFFICES ASSUME NEW u, NEW r, Common(u, r)'
               PROVE  \/ source[u].props[r].limit \in {None, live'[u].props[r].limit}
                      \/ AlterLimit(u, r)' \in todo'
    BY DEF PendingLimits, Executing
  <2>1. Common(u, r) /\ u \in DOMAIN live /\ r \in DOMAIN live[u].props
    BY <1>2, NamesFrame DEF Common, Executing
  <2>2. \/ source[u].props[r].limit \in {None, live[u].props[r].limit}
        \/ AlterLimit(u, r) \in todo
    BY <2>1 DEF Executing, InRun, Pending, PendingLimits
  <2>3. AlterLimit(u, r)' = AlterLimit(u, r)
    BY DEF AlterLimit, Executing
  <2>4. u # t \/ r # p => AlterLimit(u, r) # a
    BY DEF AlterLimit, a
  <2> QED
    BY <1>1, <1>2, <2>1, <2>2, <2>3, <2>4 DEF Executing
<1>5. \A b \in todo' : Meant(b)'
  BY <1>1, <1>2, MeantInside
<1> QED
  BY <1>2, <1>3, <1>4, <1>5 DEF Closer, Pending

LEMMA DefaultStep ==
  ASSUME NEW t, NEW p, Common(t, p), Executing(AlterDefault(t, p))
  PROVE  Closer
<1> DEFINE a == AlterDefault(t, p)
<1>1. a.op = "AlterDefault" /\ Executing(a)
  BY DEF AlterDefault
<1>2. /\ IsLive(live)' /\ SameTypes /\ SameNames /\ SameSupers /\ SameIndexes
      /\ SameFlags /\ SameLimits
      /\ live'[t].props[p].default = Show(source[t].props[p].default)
      /\ \A u \in DOMAIN live : \A r \in DOMAIN live[u].props :
           u # t \/ r # p => live'[u].props[r] = live[u].props[r]
  BY AlterDefaultEffect DEF Executing, InRun
<1> HIDE DEF a
<1>3. /\ PendingTypes' /\ PendingProps' /\ PendingIndexes' /\ PendingSupers'
      /\ PendingFlags' /\ PendingLimits' /\ PendingDrops' /\ Warned'
  BY <1>1, <1>2, KeepTypes, KeepProps, KeepIndexes, KeepSupers, KeepFlags, KeepLimits,
     KeepDrops, KeepWarned DEF Executing, InRun, Pending, SameTypes
<1>4. PendingDefaults'
  <2> SUFFICES ASSUME NEW u, NEW r, Common(u, r)'
               PROVE  DefaultDone(u, r)' \/ AlterDefault(u, r)' \in todo'
    BY DEF PendingDefaults, Executing
  <2>1. /\ Common(u, r) /\ u \in DOMAIN live /\ r \in DOMAIN live[u].props
        /\ source[u].props[r] \in Property
    BY <1>2, NamesFrame, CommonLive DEF Common, Executing, InRun
  <2>2. source' = source /\ adopted' = adopted
    BY DEF Executing
  <2>3. CASE u = t /\ r = p
    <3>1. /\ (live'[t].props[p].default = None) = (source[t].props[p].default = None)
          /\ source[t].props[p].default \in Literal =>
               live'[t].props[p].default = Shown[source[t].props[p].default]
      BY <1>2, <2>1, <2>3, Shows DEF Property
    <3> QED
      BY <2>2, <2>3, <3>1 DEF DefaultDone
  <2>4. CASE u # t \/ r # p
    <3>1. DefaultDone(u, r) \/ AlterDefault(u, r) \in todo
      BY <2>1 DEF Executing, InRun, Pending, PendingDefaults
    <3>2. AlterDefault(u, r)' = AlterDefault(u, r)
      BY DEF AlterDefault, Executing
    <3>3. AlterDefault(u, r) # a
      BY <2>4 DEF AlterDefault, a
    <3>4. live'[u].props[r].default = live[u].props[r].default
      BY <1>2, <2>1, <2>4
    <3>5. DefaultDone(u, r) => DefaultDone(u, r)'
      BY <2>2, <3>4 DEF DefaultDone
    <3> QED
      BY <1>1, <3>1, <3>2, <3>3, <3>5 DEF Executing
  <2> QED
    BY <2>3, <2>4
<1>5. \A b \in todo' : Meant(b)'
  BY <1>1, <1>2, MeantInside
<1> QED
  BY <1>2, <1>3, <1>4, <1>5 DEF Closer, Pending

LEMMA ValuesFrame ==
  ASSUME SameValues
  PROVE  SameNames /\ SameFlags /\ SameLimits /\ SameDefaults
  BY DEF SameValues, SameNames, SameFlags, SameLimits, SameDefaults

LEMMA SupersStep ==
  ASSUME NEW t \in Compared, Executing(AlterSupers(t))
  PROVE  Closer
<1> DEFINE a == AlterSupers(t)
<1>1. a.op = "AlterSupers" /\ a.on = t /\ Executing(a)
  BY DEF AlterSupers
<1>2. /\ IsLive(live)' /\ SameTypes /\ SameValues /\ SameIndexes
      /\ live'[t].supers = source[t].supers
      /\ \A u \in DOMAIN live : u # t => live'[u].supers = live[u].supers
  BY AlterSupersEffect DEF Executing, InRun
<1>3. /\ SameNames /\ SameFlags /\ SameLimits /\ SameDefaults
      /\ \A u \in Compared : u \in DOMAIN live
  BY <1>2, ValuesFrame DEF Compared, Both
<1>4. \A u \in Compared : AlterSupers(u) = a => u = t
  BY DEF AlterSupers
<1> HIDE DEF a
<1>5. /\ PendingTypes' /\ PendingProps' /\ PendingIndexes' /\ PendingLimits'
      /\ PendingFlags' /\ PendingDefaults' /\ PendingDrops' /\ Warned'
  BY <1>1, <1>2, <1>3, KeepTypes, KeepProps, KeepIndexes, KeepFlags, KeepLimits, KeepDefaults,
     KeepDrops, KeepWarned DEF Executing, InRun, Pending, SameTypes
<1>6. PendingSupers'
  <2> SUFFICES ASSUME NEW u \in Compared'
               PROVE  source[u].supers = live'[u].supers \/ AlterSupers(u)' \in todo'
    BY DEF PendingSupers, Executing
  <2>1. u \in Compared /\ u \in DOMAIN live
    BY <1>2, <1>3, TypesFrame DEF Executing
  <2>2. CASE u # t
    <3>1. source[u].supers = live[u].supers \/ AlterSupers(u) \in todo
      BY <2>1 DEF Executing, InRun, Pending, PendingSupers
    <3>2. live'[u].supers = live[u].supers
      BY <1>2, <2>1, <2>2
    <3>3. AlterSupers(u)' = AlterSupers(u)
      BY <3>2 DEF AlterSupers, Executing
    <3> QED
      BY <1>1, <1>4, <2>1, <2>2, <3>1, <3>2, <3>3 DEF Executing
  <2> QED
    BY <1>2, <2>2
<1>7. \A b \in todo' : Meant(b)'
  <2> SUFFICES ASSUME NEW b \in todo' PROVE Meant(b)'
    OBVIOUS
  <2>1. Meant(b) /\ b # a
    BY <1>1 DEF Executing, InRun
  <2>2. \A u \in Compared : b = AlterSupers(u) => live'[u].supers = live[u].supers
    BY <1>2, <1>3, <2>1 DEF a
  <2> QED
    BY <1>1, <1>2, <1>3, <2>1, <2>2, KeepMeant DEF Executing, SameTypes, SameNames
<1> QED
  BY <1>2, <1>5, <1>6, <1>7 DEF Closer, Pending

\* A type is created before what is in it.
LEMMA TypesFirst ==
  ASSUME NEW a, NEW t \in DOMAIN source, Executing(a), a.on = t,
         a.op \in {"CreateProperty", "CreateIndex"}
  PROVE  t \in DOMAIN live
<1> DEFINE c == CreateType(t)
<1>1. SUFFICES ASSUME c \in todo PROVE FALSE
  BY DEF Executing, InRun, Pending, PendingTypes
<1>2. t \in Nat /\ NType \in Nat
  BY DiffAssumption DEF Executing, InRun, Typed, IsSource, Name
<1>3. c.op = "CreateType" /\ c.on = t
  BY DEF CreateType
<1> HIDE DEF c
<1>4. Place(c) \in {0, 3 * t}
  BY <1>3 DEF Place
<1>5. Place(a) \in {3 * t + 1, 3 * t + 2}
  BY DEF Place
<1>6. Place(a) <= Place(c)
  BY <1>1 DEF Executing
<1> QED
  BY <1>2, <1>4, <1>5, <1>6

\* Nothing but drops is left when a type is dropped.
LEMMA DropsLast ==
  ASSUME NEW a, Executing(a), a.op = "DropType", NEW b \in todo
  PROVE  b.op = "DropType"
<1>1. Meant(b) /\ Place(a) <= Place(b) /\ NType \in Nat
  BY DiffAssumption DEF Executing, InRun
<1>2. Place(a) = 3 * NType + 3
  BY DEF Place
<1>3. SUFFICES ASSUME b.op # "DropType" PROVE FALSE
  OBVIOUS
<1>4. \A t \in DOMAIN source : t \in Name
  BY DEF Executing, InRun, Typed, IsSource
<1>5. \A t, p : Common(t, p) => t \in Name
  BY <1>4 DEF Common, Compared, Both
<1>6. \A t : (Plain(t) \/ t \in Compared) => t \in Name
  BY <1>4 DEF Plain, Compared, Both
<1>7. b.on \in Name
  BY <1>1, <1>3, <1>4, <1>5, <1>6 DEF Meant, CreateType, CreateProperty, CreateIndex, AlterSupers,
     AlterFlag, AlterLimit, AlterDefault, DropType
<1>8. Place(b) \in {0, 3 * b.on, 3 * b.on + 1, 3 * b.on + 2}
  BY <1>3 DEF Place
<1> QED
  BY <1>1, <1>2, <1>7, <1>8 DEF Name

LEMMA IndexStep ==
  ASSUME NEW t, NEW i, Plain(t), i \in source[t].indexes, Executing(CreateIndex(t, i))
  PROVE  Closer
<1> DEFINE a == CreateIndex(t, i)
<1>1. a.op = "CreateIndex" /\ a.on = t /\ Executing(a)
  BY DEF CreateIndex
<1>2. t \in DOMAIN source /\ t \in DOMAIN live
  BY <1>1, TypesFirst DEF Plain
<1>3. /\ IsLive(live)' /\ SameTypes /\ SameValues /\ SameSupers
      /\ live'[t].indexes = live[t].indexes \cup {i}
      /\ \A u \in DOMAIN live : u # t => live'[u].indexes = live[u].indexes
  BY <1>2, CreateIndexEffect DEF Executing, InRun
<1>4. /\ SameNames /\ SameFlags /\ SameLimits /\ SameDefaults
  BY <1>3, ValuesFrame
<1>5. \A u, j : CreateIndex(u, j) = a => u = t /\ j = i
  BY DEF CreateIndex
<1> HIDE DEF a
<1>6. /\ PendingTypes' /\ PendingProps' /\ PendingSupers' /\ PendingLimits'
      /\ PendingFlags' /\ PendingDefaults' /\ PendingDrops' /\ Warned'
  BY <1>1, <1>3, <1>4, KeepTypes, KeepProps, KeepSupers, KeepFlags, KeepLimits, KeepDefaults,
     KeepDrops, KeepWarned DEF Executing, InRun, Pending, SameTypes
<1>7. PendingIndexes'
  <2> SUFFICES ASSUME NEW u, NEW j, Part(u)', j \in source[u].indexes
               PROVE  \/ u \in DOMAIN live' /\ j \in live'[u].indexes
                      \/ CreateIndex(u, j)' \in todo'
    BY DEF PendingIndexes, Executing
  <2>1. (u \in DOMAIN live /\ j \in live[u].indexes) \/ CreateIndex(u, j) \in todo
    BY <1>3, TypesFrame DEF Executing, InRun, Pending, PendingIndexes
  <2>2. CreateIndex(u, j)' = CreateIndex(u, j)
    BY DEF CreateIndex
  <2> QED
    BY <1>1, <1>2, <1>3, <1>5, <2>1, <2>2 DEF Executing, SameTypes
<1>8. \A b \in todo' : Meant(b)'
  BY <1>1, <1>3, <1>4, MeantInside
<1> QED
  BY <1>3, <1>6, <1>7, <1>8 DEF Closer, Pending

LEMMA PropertyStep ==
  ASSUME NEW t, NEW p, Plain(t), p \in DOMAIN source[t].props,
         Executing(CreateProperty(t, p))
  PROVE  Closer
<1> DEFINE a == CreateProperty(t, p)
           new == source[t].props[p]
<1>1. a.op = "CreateProperty" /\ a.on = t /\ Executing(a)
  BY DEF CreateProperty
<1>2. t \in DOMAIN source /\ t \in DOMAIN live
  BY <1>1, TypesFirst DEF Plain
<1>3. /\ IsLive(live)' /\ SameTypes /\ SameSupers /\ SameIndexes
      /\ DOMAIN live'[t].props = DOMAIN live[t].props \cup {p}
      /\ p \notin DOMAIN live[t].props => live'[t].props[p] = ShownProp(new)
      /\ \A r \in DOMAIN live[t].props : live'[t].props[r] = live[t].props[r]
      /\ \A u \in DOMAIN live : u # t => live'[u] = live[u]
  BY <1>2, CreatePropertyEffect DEF Executing, InRun
<1>4. \A u, r : CreateProperty(u, r) = a => u = t /\ r = p
  BY DEF CreateProperty
<1> HIDE DEF a
<1>5. PendingTypes' /\ PendingIndexes' /\ PendingSupers' /\ PendingDrops'
  BY <1>1, <1>3, KeepTypes, KeepIndexes, KeepSupers, KeepDrops
     DEF Executing, InRun, Pending, SameTypes
\* What is common was so before and is the same, or was just created as declared.
<1>6. ASSUME NEW u, NEW r, Common(u, r)'
      PROVE  \/ /\ Common(u, r) /\ u \in DOMAIN live /\ r \in DOMAIN live[u].props
                /\ live'[u].props[r] = live[u].props[r]
             \/ u = t /\ r = p /\ live'[t].props[p] = ShownProp(new)
  <2>1. u \in Compared /\ u \in DOMAIN live /\ r \in DOMAIN source[u].props
    BY <1>3, <1>6, TypesFrame DEF Common, Compared, Both, Executing
  <2>2. r \in DOMAIN live'[u].props
    BY <1>6 DEF Common
  <2> QED
    BY <1>3, <2>1, <2>2 DEF Common
<1>7. /\ ShownProp(new).type = new.type /\ ShownProp(new).flags = new.flags
      /\ ShownProp(new).limit = new.limit
      /\ (ShownProp(new).default = None) = (new.default = None)
      /\ new.default \in Literal => ShownProp(new).default = Shown[new.default]
  <2>1. new \in Property
    BY <1>2 DEF Executing, InRun, Typed, IsSource
  <2>2. /\ ShownProp(new).type = new.type /\ ShownProp(new).flags = new.flags
        /\ ShownProp(new).limit = new.limit /\ ShownProp(new).default = Show(new.default)
    BY <2>1 DEF ShownProp, Property
  <2> QED
    BY <2>1, <2>2, Shows DEF Property
<1>8. PendingProps'
  <2> SUFFICES ASSUME NEW u, NEW r, Part(u)', r \in DOMAIN source[u].props
               PROVE  \/ u \in DOMAIN live' /\ r \in DOMAIN live'[u].props
                      \/ CreateProperty(u, r)' \in todo'
    BY DEF PendingProps, Executing
  <2>1. (u \in DOMAIN live /\ r \in DOMAIN live[u].props) \/ CreateProperty(u, r) \in todo
    BY <1>3, TypesFrame DEF Executing, InRun, Pending, PendingProps
  <2>2. CreateProperty(u, r)' = CreateProperty(u, r)
    BY DEF CreateProperty, Executing
  <2> QED
    BY <1>1, <1>2, <1>3, <1>4, <2>1, <2>2 DEF Executing, SameTypes
<1> HIDE DEF new
<1>9. PendingFlags'
  <2> SUFFICES ASSUME NEW u, NEW r, NEW f, Common(u, r)', f \in Flag
               PROVE  \/ (f \in source[u].props[r].flags) = (f \in live'[u].props[r].flags)
                      \/ AlterFlag(u, r, f)' \in todo'
    BY DEF PendingFlags, Executing
  <2>1. AlterFlag(u, r, f)' = AlterFlag(u, r, f) /\ AlterFlag(u, r, f) # a
    BY <1>1 DEF AlterFlag, Executing
  <2> QED
    BY <1>1, <1>6, <1>7, <2>1 DEF Executing, InRun, Pending, PendingFlags, new
<1>10. PendingLimits'
  <2> SUFFICES ASSUME NEW u, NEW r, Common(u, r)'
               PROVE  \/ source[u].props[r].limit \in {None, live'[u].props[r].limit}
                      \/ AlterLimit(u, r)' \in todo'
    BY DEF PendingLimits, Executing
  <2>1. AlterLimit(u, r)' = AlterLimit(u, r) /\ AlterLimit(u, r) # a
    BY <1>1 DEF AlterLimit, Executing
  <2> QED
    BY <1>1, <1>6, <1>7, <2>1 DEF Executing, InRun, Pending, PendingLimits, new
<1>11. PendingDefaults'
  <2> SUFFICES ASSUME NEW u, NEW r, Common(u, r)'
               PROVE  DefaultDone(u, r)' \/ AlterDefault(u, r)' \in todo'
    BY DEF PendingDefaults, Executing
  <2>1. AlterDefault(u, r)' = AlterDefault(u, r) /\ AlterDefault(u, r) # a
    BY <1>1 DEF AlterDefault, Executing
  <2>2. source' = source /\ adopted' = adopted
    BY DEF Executing
  <2>3. CASE Common(u, r) /\ live'[u].props[r] = live[u].props[r]
    <3>1. DefaultDone(u, r) \/ AlterDefault(u, r) \in todo
      BY <2>3 DEF Executing, InRun, Pending, PendingDefaults
    <3>2. DefaultDone(u, r) => DefaultDone(u, r)'
      BY <2>2, <2>3 DEF DefaultDone
    <3> QED
      BY <1>1, <2>1, <3>1, <3>2 DEF Executing
  <2>4. CASE u = t /\ r = p /\ live'[t].props[p] = ShownProp(new)
    BY <1>7, <2>2, <2>4 DEF DefaultDone, new
  <2> QED
    BY <1>6, <2>3, <2>4
<1>12. Warned'
  <2>1. /\ Both' = Both /\ Both \subseteq DOMAIN live
        /\ \A u \in Both : live'[u].kind = live[u].kind /\ live'[u].spec = live[u].spec
    BY <1>3, TypesFrame DEF Both, SameTypes, Executing
  <2>2. ASSUME NEW u, NEW r, Common(u, r)'
        PROVE  \/ source[u].props[r].type = live'[u].props[r].type
               \/ <<"type", u, r>> \in warned
    BY <1>6, <1>7, <2>2 DEF Executing, InRun, Pending, Warned, new
  <2> QED
    BY <2>1, <2>2 DEF Warned, Executing, InRun, Pending
<1>13. \A b \in todo' : Meant(b)'
  <2>1. /\ DOMAIN live' = DOMAIN live
        /\ \A u \in DOMAIN live : /\ live'[u].kind = live[u].kind
                                  /\ DOMAIN live[u].props \subseteq DOMAIN live'[u].props
                                  /\ live'[u].supers = live[u].supers
        /\ \A u \in Compared : u \in DOMAIN live
    BY <1>3 DEF SameTypes, SameSupers, Compared, Both
  <2> QED
    BY <2>1, KeepMeant DEF Executing, InRun
<1> QED
  BY <1>3, <1>5, <1>8, <1>9, <1>10, <1>11, <1>12, <1>13 DEF Closer, Pending

LEMMA TypeStep ==
  ASSUME NEW t \in DOMAIN source, Executing(CreateType(t))
  PROVE  Closer
<1> DEFINE a == CreateType(t)
<1>1. a.op = "CreateType" /\ a.on = t /\ Executing(a)
  BY DEF CreateType
<1>2. /\ IsLive(live)'
      /\ t \in DOMAIN live => live' = live
      /\ DOMAIN live' = DOMAIN live \cup {t}
      /\ \A u \in DOMAIN live : live'[u] = live[u]
      /\ t \notin DOMAIN live =>
           /\ live'[t].kind = source[t].kind /\ live'[t].spec = source[t].spec
           /\ live'[t].supers = source[t].supers
           /\ DOMAIN live'[t].props = {} /\ live'[t].indexes = {}
  BY CreateTypeEffect DEF Executing, InRun
<1>3. \A u : CreateType(u) = a => u = t
  BY DEF CreateType
<1> HIDE DEF a
\* What is compared was so before, or is the type just created.
<1>4. ASSUME NEW u \in Both'
      PROVE  \/ u \in Both /\ live'[u] = live[u] /\ (u \in Compared' => u \in Compared)
             \/ u = t /\ t \notin DOMAIN live
  BY <1>2, <1>4 DEF Both, Compared, Executing
<1>5. ASSUME NEW u, NEW r, Common(u, r)'
      PROVE  Common(u, r) /\ live'[u] = live[u]
  <2>1. u \in Compared' /\ r \in DOMAIN source[u].props /\ r \in DOMAIN live'[u].props
    BY <1>5 DEF Common, Executing
  <2> QED
    BY <1>2, <1>4, <2>1 DEF Compared, Common
<1>6. ASSUME NEW u, Part(u)' PROVE Part(u)
  BY <1>2, <1>4, <1>6 DEF Part, Compared, Executing
<1>7. PendingTypes'
  <2> SUFFICES ASSUME NEW u \in DOMAIN source
               PROVE  u \in DOMAIN live' \/ CreateType(u)' \in todo'
    BY DEF PendingTypes, Executing
  <2>1. CreateType(u)' = CreateType(u)
    BY DEF CreateType, Executing
  <2> QED
    BY <1>1, <1>2, <1>3, <2>1 DEF Executing, InRun, Pending, PendingTypes
<1>8. PendingProps'
  <2> SUFFICES ASSUME NEW u, NEW r, Part(u)', r \in DOMAIN source[u].props
               PROVE  \/ u \in DOMAIN live' /\ r \in DOMAIN live'[u].props
                      \/ CreateProperty(u, r)' \in todo'
    BY DEF PendingProps, Executing
  <2>1. (u \in DOMAIN live /\ r \in DOMAIN live[u].props) \/ CreateProperty(u, r) \in todo
    BY <1>6 DEF Executing, InRun, Pending, PendingProps
  <2>2. CreateProperty(u, r)' = CreateProperty(u, r) /\ CreateProperty(u, r) # a
    BY <1>1 DEF CreateProperty, Executing
  <2> QED
    BY <1>1, <1>2, <2>1, <2>2 DEF Executing
<1>9. PendingIndexes'
  <2> SUFFICES ASSUME NEW u, NEW j, Part(u)', j \in source[u].indexes
               PROVE  \/ u \in DOMAIN live' /\ j \in live'[u].indexes
                      \/ CreateIndex(u, j)' \in todo'
    BY DEF PendingIndexes, Executing
  <2>1. (u \in DOMAIN live /\ j \in live[u].indexes) \/ CreateIndex(u, j) \in todo
    BY <1>6 DEF Executing, InRun, Pending, PendingIndexes
  <2>2. CreateIndex(u, j)' = CreateIndex(u, j) /\ CreateIndex(u, j) # a
    BY <1>1 DEF CreateIndex
  <2> QED
    BY <1>1, <1>2, <2>1, <2>2 DEF Executing
<1>10. PendingSupers'
  <2> SUFFICES ASSUME NEW u \in Compared'
               PROVE  source[u].supers = live'[u].supers \/ AlterSupers(u)' \in todo'
    BY DEF PendingSupers, Executing
  <2>1. u \in Both'
    BY DEF Compared
  <2>2. CASE u \in Compared /\ live'[u] = live[u]
    <3>1. source[u].supers = live[u].supers \/ AlterSupers(u) \in todo
      BY <2>2 DEF Executing, InRun, Pending, PendingSupers
    <3>2. AlterSupers(u)' = AlterSupers(u) /\ AlterSupers(u) # a
      BY <1>1, <2>2 DEF AlterSupers, Executing
    <3> QED
      BY <1>1, <2>2, <3>1, <3>2 DEF Executing
  <2> QED
    BY <1>2, <1>4, <2>1, <2>2
<1>11. PendingFlags'
  <2> SUFFICES ASSUME NEW u, NEW r, NEW f, Common(u, r)', f \in Flag
               PROVE  \/ (f \in source[u].props[r].flags) = (f \in live'[u].props[r].flags)
                      \/ AlterFlag(u, r, f)' \in todo'
    BY DEF PendingFlags, Executing
  <2>1. AlterFlag(u, r, f)' = AlterFlag(u, r, f) /\ AlterFlag(u, r, f) # a
    BY <1>1 DEF AlterFlag, Executing
  <2> QED
    BY <1>1, <1>5, <2>1 DEF Executing, InRun, Pending, PendingFlags
<1>12. PendingLimits'
  <2> SUFFICES ASSUME NEW u, NEW r, Common(u, r)'
               PROVE  \/ source[u].props[r].limit \in {None, live'[u].props[r].limit}
                      \/ AlterLimit(u, r)' \in todo'
    BY DEF PendingLimits, Executing
  <2>1. AlterLimit(u, r)' = AlterLimit(u, r) /\ AlterLimit(u, r) # a
    BY <1>1 DEF AlterLimit, Executing
  <2> QED
    BY <1>1, <1>5, <2>1 DEF Executing, InRun, Pending, PendingLimits
<1>13. PendingDefaults'
  <2> SUFFICES ASSUME NEW u, NEW r, Common(u, r)'
               PROVE  DefaultDone(u, r)' \/ AlterDefault(u, r)' \in todo'
    BY DEF PendingDefaults, Executing
  <2>1. AlterDefault(u, r)' = AlterDefault(u, r) /\ AlterDefault(u, r) # a
    BY <1>1 DEF AlterDefault, Executing
  <2>2. DefaultDone(u, r) \/ AlterDefault(u, r) \in todo
    BY <1>5 DEF Executing, InRun, Pending, PendingDefaults
  <2>3. source' = source /\ adopted' = adopted
    BY DEF Executing
  <2>4. DefaultDone(u, r) => DefaultDone(u, r)'
    BY <1>5, <2>3 DEF DefaultDone
  <2> QED
    BY <1>1, <2>1, <2>2, <2>4 DEF Executing
<1>14. PendingDrops'
  BY <1>1, <1>2, KeepDrops DEF Executing, InRun, Pending
<1>15. Warned'
  BY <1>2, <1>4, <1>5 DEF Warned, Executing, InRun, Pending
<1>16. \A b \in todo' : Meant(b)'
  <2>1. /\ \A u \in DOMAIN live' : \/ u \in DOMAIN live /\ live'[u].kind = live[u].kind
                                   \/ u \in DOMAIN source /\ live'[u].kind = source[u].kind
        /\ \A u \in Compared : u \in DOMAIN live
    BY <1>2 DEF Compared, Both
  <2> QED
    BY <1>2, <2>1, KeepMeant DEF Executing, InRun
<1> QED
  BY <1>2, <1>7, <1>8, <1>9, <1>10, <1>11, <1>12, <1>13, <1>14, <1>15, <1>16 DEF Closer, Pending

\* Only drops are left, so everything declared is there, as it should be.
LEMMA DropStep ==
  ASSUME NEW t \in Name \ DOMAIN source, Executing(DropType(t))
  PROVE  Closer
<1> DEFINE a == DropType(t)
<1>1. a.op = "DropType" /\ a.on = t /\ Executing(a)
  BY DEF DropType
<1>2. live' = Dropped(t)
  BY <1>1 DEF Executing, Effect
<1>3. \A u : DropType(u) = a => u = t
  BY DEF DropType
<1> HIDE DEF a
<1>4. /\ IsLive(live)' /\ DOMAIN live' = DOMAIN live \ {t}
      /\ \A u \in DOMAIN live' :
           /\ live'[u].kind = live[u].kind /\ live'[u].spec = live[u].spec
           /\ live'[u].props = live[u].props /\ live'[u].indexes = live[u].indexes
           /\ live'[u].supers = live[u].supers \ {t}
  BY <1>2, DroppedIsLive DEF Executing, InRun, Typed
<1>5. \A b \in todo : b.op = "DropType"
  BY <1>1, DropsLast
<1>6. ASSUME NEW u, NEW r, NEW f
       PROVE  /\ CreateType(u) \notin todo
              /\ CreateProperty(u, r) \notin todo
              /\ CreateIndex(u, r) \notin todo
              /\ AlterSupers(u) \notin todo
              /\ AlterFlag(u, r, f) \notin todo
              /\ AlterLimit(u, r) \notin todo
              /\ AlterDefault(u, r) \notin todo
  <2>1. /\ CreateType(u).op = "CreateType"
        /\ CreateProperty(u, r).op = "CreateProperty"
        /\ CreateIndex(u, r).op = "CreateIndex"
        /\ AlterSupers(u).op = "AlterSupers"
        /\ AlterFlag(u, r, f).op = "AlterFlag"
        /\ AlterLimit(u, r).op = "AlterLimit"
        /\ AlterDefault(u, r).op = "AlterDefault"
    BY DEF CreateType, CreateProperty, CreateIndex, AlterSupers,
       AlterFlag, AlterLimit, AlterDefault
  <2> QED
    BY <1>5, <2>1
<1>7. /\ Both' = Both /\ Both \subseteq DOMAIN live' /\ Compared' = Compared
      /\ Compared \subseteq Both
  <2>1. Both' = Both /\ Both \subseteq DOMAIN live'
    BY <1>4 DEF Both, Executing
  <2> QED
    BY <1>4, <2>1 DEF Compared, Executing
<1>8. \A u, r : Common(u, r)' => Common(u, r) /\ u \in DOMAIN live'
  BY <1>4, <1>7 DEF Common, Executing
<1>9. \A u : Part(u)' => Part(u) /\ u # t
  BY <1>4, <1>7 DEF Part, Executing
<1>10. PendingTypes'
  <2>1. \A u \in DOMAIN source : u \in DOMAIN live
    BY <1>6 DEF Executing, InRun, Pending, PendingTypes
  <2> QED
    BY <1>4, <2>1 DEF PendingTypes, Executing
<1>11. PendingProps'
  <2>1. \A u, r : Part(u) /\ r \in DOMAIN source[u].props =>
           u \in DOMAIN live /\ r \in DOMAIN live[u].props
    BY <1>6 DEF Executing, InRun, Pending, PendingProps
  <2> QED
    BY <1>4, <1>9, <2>1 DEF PendingProps, Executing
<1>12. PendingIndexes'
  <2>1. \A u, j : Part(u) /\ j \in source[u].indexes => u \in DOMAIN live /\ j \in live[u].indexes
    BY <1>6 DEF Executing, InRun, Pending, PendingIndexes
  <2> QED
    BY <1>4, <1>9, <2>1 DEF PendingIndexes, Executing
<1>13. PendingSupers'
  <2> SUFFICES ASSUME NEW u \in Compared' PROVE source[u].supers = live'[u].supers
    BY DEF PendingSupers, Executing
  <2>1. u \in Compared /\ u \in DOMAIN live' /\ u \in DOMAIN source
    BY <1>7 DEF Both
  <2>2. source[u].supers = live[u].supers
    BY <1>6, <2>1 DEF Executing, InRun, Pending, PendingSupers
  <2>3. t \notin source[u].supers
    BY <2>1 DEF Executing, InRun, Typed, IsSource
  <2>4. source[u].supers \ {t} = source[u].supers
    BY <2>3
  <2> QED
    BY <1>4, <2>1, <2>2, <2>4
<1>14. PendingFlags'
  <2>1. \A u, r, f : Common(u, r) /\ f \in Flag =>
           (f \in source[u].props[r].flags) = (f \in live[u].props[r].flags)
    BY <1>6 DEF Executing, InRun, Pending, PendingFlags
  <2> QED
    BY <1>4, <1>8, <2>1 DEF PendingFlags, Executing
<1>15. PendingLimits'
  <2>1. \A u, r : Common(u, r) => source[u].props[r].limit \in {None, live[u].props[r].limit}
    BY <1>6 DEF Executing, InRun, Pending, PendingLimits
  <2> QED
    BY <1>4, <1>8, <2>1 DEF PendingLimits, Executing
<1>16. PendingDefaults'
  <2> SUFFICES ASSUME NEW u, NEW r, Common(u, r)' PROVE DefaultDone(u, r)'
    BY DEF PendingDefaults
  <2>1. DefaultDone(u, r)
    BY <1>6, <1>8 DEF Executing, InRun, Pending, PendingDefaults
  <2>2. source' = source /\ adopted' = adopted
    BY DEF Executing
  <2> QED
    BY <1>4, <1>8, <2>1, <2>2 DEF DefaultDone
<1>17. PendingDrops'
  <2> SUFFICES ASSUME NEW u \in DOMAIN live' \ (DOMAIN source \cup Owned)
               PROVE  Strategy = "Never" \/ DropType(u)' \in todo'
    BY DEF PendingDrops, Executing
  <2>1. Strategy = "Never" \/ DropType(u) \in todo
    BY <1>4 DEF Executing, InRun, Pending, PendingDrops
  <2>2. DropType(u)' = DropType(u)
    BY DEF DropType
  <2> QED
    BY <1>1, <1>3, <1>4, <2>1, <2>2 DEF Executing
<1>18. Warned'
  BY <1>4, <1>7, <1>8 DEF Warned, Executing, InRun, Pending
<1>19. \A b \in todo' : Meant(b)'
  <2> SUFFICES ASSUME NEW b \in todo PROVE Meant(b)'
    BY DEF Executing
  <2>1. Meant(b) /\ b.op = "DropType"
    BY <1>5 DEF Executing, InRun
  <2>2. \E u \in Name \ DOMAIN source : b = DropType(u)
    BY <2>1 DEF Meant, CreateType, CreateProperty, CreateIndex, AlterSupers, AlterFlag,
       AlterLimit, AlterDefault
  <2> QED
    BY <2>2 DEF Meant, DropType, Executing
<1> QED
  BY <1>4, <1>10, <1>11, <1>12, <1>13, <1>14, <1>15, <1>16, <1>17, <1>18, <1>19 DEF Closer, Pending

LEMMA EveryStep ==
  ASSUME NEW a, Executing(a)
  PROVE  Closer
  BY TypeStep, PropertyStep, IndexStep, SupersStep, FlagStep, LimitStep, DefaultStep, DropStep
     DEF Executing, InRun, Meant

----------------------------------------------------------------------------
(* The diff has a statement for whatever differs, and no other statement *)

LEMMA CommonProps ==
  ASSUME Typed, NEW t, NEW p
  PROVE  Common(t, p) = (<<t, p>> \in BothProps)
  BY DEF Typed, IsSource, IsType, Common, BothProps, Compared, Both

LEMMA Lacks ==
  ASSUME Typed, NEW t, Part(t)
  PROVE  /\ t \in DOMAIN live => Lacking(t) = live[t]
         /\ t \notin DOMAIN live =>
              DOMAIN Lacking(t).props = {} /\ Lacking(t).indexes = {}
<1>1. IsType(source[t])
  BY DEF Typed, IsSource, Part
<1>2. DOMAIN Bare(source[t]).props = {} /\ Bare(source[t]).indexes = {}
  BY <1>1 DEF Bare, IsType
<1> QED
  BY <1>2 DEF Lacking

LEMMA DiffPlans ==
  ASSUME Typed
  PROVE  /\ \A t \in DOMAIN source : t \in DOMAIN live \/ CreateType(t) \in Diff
         /\ \A t, p : Part(t) /\ p \in DOMAIN source[t].props =>
              (t \in DOMAIN live /\ p \in DOMAIN live[t].props) \/ CreateProperty(t, p) \in Diff
         /\ \A t, i : Part(t) /\ i \in source[t].indexes =>
              (t \in DOMAIN live /\ i \in live[t].indexes) \/ CreateIndex(t, i) \in Diff
         /\ \A t \in Compared : source[t].supers = live[t].supers \/ AlterSupers(t) \in Diff
         /\ \A t, p, f : Common(t, p) /\ f \in Flag =>
              \/ (f \in source[t].props[p].flags) = (f \in live[t].props[p].flags)
              \/ AlterFlag(t, p, f) \in Diff
         /\ \A t, p : Common(t, p) =>
              \/ source[t].props[p].limit \in {None, live[t].props[p].limit}
              \/ AlterLimit(t, p) \in Diff
         /\ \A t, p : Common(t, p) /\ DefaultDiffers(<<t, p>>) => AlterDefault(t, p) \in Diff
         /\ \A t \in DOMAIN live \ (DOMAIN source \cup Owned) :
              Strategy = "Never" \/ DropType(t) \in Diff
<1>1. \A t \in DOMAIN source : t \in DOMAIN live \/ CreateType(t) \in Diff
  BY DEF Diff, NewTypes, CreateType
<1>2. ASSUME NEW t, NEW p, Part(t), p \in DOMAIN source[t].props,
             ~(t \in DOMAIN live /\ p \in DOMAIN live[t].props)
      PROVE  CreateProperty(t, p) \in Diff
  <2>1. p \in DOMAIN source[t].props \ DOMAIN Lacking(t).props
    BY <1>2, Lacks
  <2>2. t \in (DOMAIN source \ DOMAIN live) \cup Compared
    BY <1>2 DEF Part
  <2>3. CreateProperty(t, p) \in NewProps
    BY <2>1, <2>2 DEF NewProps, CreateProperty
  <2> QED
    BY <2>3 DEF Diff
<1>3. ASSUME NEW t, NEW i, Part(t), i \in source[t].indexes,
             ~(t \in DOMAIN live /\ i \in live[t].indexes)
      PROVE  CreateIndex(t, i) \in Diff
  <2>1. i \in source[t].indexes \ Lacking(t).indexes
    BY <1>3, Lacks
  <2>2. t \in (DOMAIN source \ DOMAIN live) \cup Compared
    BY <1>3 DEF Part
  <2>3. CreateIndex(t, i) \in NewIndexes
    BY <2>1, <2>2 DEF NewIndexes, CreateIndex
  <2> QED
    BY <2>3 DEF Diff
<1>4. \A t \in Compared : source[t].supers = live[t].supers \/ AlterSupers(t) \in Diff
  BY DEF Diff, Supers, AlterSupers
<1>5. ASSUME NEW t, NEW p, NEW f, Common(t, p), f \in Flag,
             (f \in source[t].props[p].flags) # (f \in live[t].props[p].flags)
      PROVE  AlterFlag(t, p, f) \in Diff
  <2> DEFINE z == <<<<t, p>>, f>>
  <2>1. /\ z \in BothProps \X Flag /\ z[1][1] = t /\ z[1][2] = p /\ z[2] = f
        /\ Declared(z[1]) = source[t].props[p] /\ Found(z[1]) = live[t].props[p]
    BY <1>5, CommonProps DEF Declared, Found
  <2>2. z \in {y \in BothProps \X Flag :
                 (y[2] \in Declared(y[1]).flags) # (y[2] \in Found(y[1]).flags)}
    BY <1>5, <2>1
  <2>3. AlterFlag(t, p, f) =
          [op |-> "AlterFlag", on |-> z[1][1], prop |-> z[1][2], flag |-> z[2],
           set |-> z[2] \in Declared(z[1]).flags]
    BY <2>1 DEF AlterFlag
  <2> HIDE DEF z
  <2>4. AlterFlag(t, p, f) \in Flags
    BY <2>2, <2>3 DEF Flags
  <2> QED
    BY <2>4 DEF Diff
<1>6. ASSUME NEW t, NEW p, Common(t, p)
      PROVE  /\ \/ source[t].props[p].limit \in {None, live[t].props[p].limit}
                \/ AlterLimit(t, p) \in Diff
             /\ DefaultDiffers(<<t, p>>) => AlterDefault(t, p) \in Diff
  <2> DEFINE x == <<t, p>>
  <2>1. /\ x \in BothProps /\ x[1] = t /\ x[2] = p
        /\ Declared(x) = source[t].props[p] /\ Found(x) = live[t].props[p]
    BY <1>6, CommonProps DEF Declared, Found
  <2> HIDE DEF x
  <2>2. \/ Declared(x).limit \in {None, Found(x).limit}
        \/ AlterLimit(t, p) \in Limits
    BY <2>1 DEF Limits, AlterLimit
  <2>3. DefaultDiffers(x) => AlterDefault(t, p) \in Defaults
    BY <2>1 DEF Defaults, AlterDefault
  <2> QED
    BY <2>1, <2>2, <2>3 DEF Diff, x
<1>7. \A t \in DOMAIN live \ (DOMAIN source \cup Owned) :
        Strategy = "Never" \/ DropType(t) \in Diff
  BY DEF Diff, Drops, DropType
<1> QED
  BY <1>1, <1>2, <1>3, <1>4, <1>5, <1>6, <1>7

LEMMA DiffMeans ==
  ASSUME Typed, NEW a \in Diff
  PROVE  Meant(a)
<1>1. \A t \in DOMAIN source : IsType(source[t])
  BY DEF Typed, IsSource
<1>2. \A t : Part(t) /\ source[t].kind # "timeseries" => Plain(t)
  BY DEF Part, Plain, Compared
<1>3. ASSUME NEW x \in BothProps PROVE Common(x[1], x[2])
  BY <1>3 DEF BothProps, Common
<1>4. CASE a \in NewTypes
  BY <1>4 DEF NewTypes, Meant, CreateType
<1>5. CASE a \in NewProps
  <2>1. PICK t \in (DOMAIN source \ DOMAIN live) \cup Compared :
             \E p \in DOMAIN source[t].props : a = CreateProperty(t, p)
    BY <1>5 DEF NewProps, CreateProperty
  <2>2. Part(t)
    BY <2>1 DEF Part, Compared, Both
  <2>3. source[t].kind # "timeseries"
    BY <1>1, <2>1, <2>2 DEF IsType, Part
  <2> QED
    BY <1>2, <2>1, <2>2, <2>3 DEF Meant
<1>6. CASE a \in NewIndexes
  <2>1. PICK t \in (DOMAIN source \ DOMAIN live) \cup Compared :
             \E i \in source[t].indexes : a = CreateIndex(t, i)
    BY <1>6 DEF NewIndexes, CreateIndex
  <2>2. Part(t)
    BY <2>1 DEF Part, Compared, Both
  <2>3. source[t].kind # "timeseries"
    BY <1>1, <2>1, <2>2 DEF IsType, Part
  <2> QED
    BY <1>2, <2>1, <2>2, <2>3 DEF Meant
<1>7. CASE a \in Supers
  BY <1>7 DEF Supers, Meant, AlterSupers
<1>8. CASE a \in Flags
  <2>1. PICK y \in BothProps \X Flag :
             a = [op |-> "AlterFlag", on |-> y[1][1], prop |-> y[1][2], flag |-> y[2],
                  set |-> y[2] \in Declared(y[1]).flags]
    BY <1>8 DEF Flags
  <2>2. a = AlterFlag(y[1][1], y[1][2], y[2])
    BY <2>1 DEF AlterFlag, Declared
  <2>3. Common(y[1][1], y[1][2]) /\ y[2] \in Flag
    BY <1>3
  <2> QED
    BY <2>2, <2>3 DEF Meant
<1>9. CASE a \in Limits
  <2>1. PICK x \in BothProps : Declared(x).limit # None /\
             a = [op |-> "AlterLimit", on |-> x[1], prop |-> x[2], limit |-> Declared(x).limit]
    BY <1>9 DEF Limits
  <2>2. a = AlterLimit(x[1], x[2]) /\ source[x[1]].props[x[2]].limit # None
    BY <2>1 DEF AlterLimit, Declared
  <2> QED
    BY <1>3, <2>2 DEF Meant
<1>10. CASE a \in Defaults
  <2>1. PICK x \in BothProps :
             a = [op |-> "AlterDefault", on |-> x[1], prop |-> x[2],
                  expr |-> Declared(x).default]
    BY <1>10 DEF Defaults
  <2>2. a = AlterDefault(x[1], x[2])
    BY <2>1 DEF AlterDefault, Declared
  <2> QED
    BY <1>3, <2>2 DEF Meant
<1>11. CASE a \in Drops
  BY <1>11 DEF Drops, Meant, DropType, Typed, IsLive
<1> QED
  BY <1>4, <1>5, <1>6, <1>7, <1>8, <1>9, <1>10, <1>11 DEF Diff

LEMMA StartStep ==
  ASSUME Typed, Recorded, Start
  PROVE  Pending' /\ \A b \in todo' : Meant(b)'
<1>1. source' = source /\ live' = live /\ todo' = Diff /\ warned' = Warnings
  BY DEF Start
<1>2. /\ Both' = Both /\ Compared' = Compared /\ SameTypes /\ SameNames
      /\ \A t, p : Common(t, p)' = Common(t, p)
      /\ \A t : Part(t)' = Part(t)
  BY <1>1 DEF SameTypes, SameNames, Both, Compared, Common, Part
<1>3. /\ PendingTypes' /\ PendingProps' /\ PendingIndexes' /\ PendingSupers'
      /\ PendingFlags' /\ PendingLimits' /\ PendingDrops'
  BY <1>1, <1>2, DiffPlans DEF PendingTypes, PendingProps, PendingIndexes, PendingSupers,
     PendingFlags, PendingLimits, PendingDrops, CreateType, CreateProperty, CreateIndex,
     AlterSupers, AlterFlag, AlterLimit, DropType
\* What is not altered is what the last run left of an unchanged declaration.
<1>4. ASSUME NEW t, NEW p, Common(t, p), ~DefaultDiffers(<<t, p>>)
      PROVE  DefaultDone(t, p)'
  <2> DEFINE x == <<t, p>>
             d == source[t].props[p].default
             l == live[t].props[p].default
  <2>1. /\ Declared(x) = source[t].props[p] /\ Found(x) = live[t].props[p]
        /\ x \in BothProps /\ d \in Expr \cup {None}
    BY <1>4, CommonProps, CommonLive DEF Declared, Found, Property
  <2>2. (d = None) = (l = None)
    BY <1>4, <2>1 DEF DefaultDiffers
  <2>3. ASSUME d \in Literal, x \notin adopted'
        PROVE  l = Shown[d]
    <3>1. d # None /\ l # None
      BY <2>1, <2>2, <2>3, DiffAssumption DEF Expr
    <3>2. snapshot.taken /\ x \notin adopted
      BY <2>1, <2>3, <3>1 DEF Start
    <3>3. l = Resolved(x) /\ Applied(x) = d
      BY <1>4, <2>1, <2>3, <3>1, <3>2 DEF DefaultDiffers, Drifted
    <3>4. Has(snapshot.source, x) /\ Has(snapshot.live, x)
      BY <3>1, <3>3 DEF Resolved, Applied
    <3>5. snapshot.live[t].props[p].default = l /\ snapshot.source[t].props[p].default = d
      BY <3>3, <3>4 DEF Resolved, Applied
    <3>6. snapshot.source[t].props[p].default \in Literal
      BY <2>3, <3>5
    <3>7. snapshot.live[t].props[p].default = Shown[snapshot.source[t].props[p].default]
      BY <3>2, <3>4, <3>6 DEF Recorded
    <3> QED
      BY <3>5, <3>7
  <2> QED
    BY <1>1, <2>2, <2>3 DEF DefaultDone
<1>5. PendingDefaults'
  BY <1>1, <1>2, <1>4, DiffPlans DEF PendingDefaults, AlterDefault
<1>6. Warned'
  <2>1. \A t \in Both : /\ source[t].kind = live[t].kind \/ <<"kind", t>> \in Warnings
                        /\ \/ source[t].spec = live[t].spec
                           \/ source[t].kind # live[t].kind
                           \/ <<"spec", t>> \in Warnings
    <3> SUFFICES ASSUME NEW t \in Both
                 PROVE  /\ source[t].kind = live[t].kind \/ <<"kind", t>> \in Warnings
                        /\ \/ source[t].spec = live[t].spec
                           \/ source[t].kind # live[t].kind
                           \/ <<"spec", t>> \in Warnings
      OBVIOUS
    <3>1. IsType(source[t]) /\ IsType(live[t])
      BY DEF Both, Typed, IsSource, IsLive
    <3> QED
      BY <3>1 DEF Warnings, IsType
  <2>2. ASSUME NEW t, NEW p, Common(t, p)
        PROVE  source[t].props[p].type = live[t].props[p].type \/ <<"type", t, p>> \in Warnings
    <3>1. <<t, p>> \in BothProps /\ Declared(<<t, p>>) = source[t].props[p]
          /\ Found(<<t, p>>) = live[t].props[p]
      BY <2>2, CommonProps DEF Declared, Found
    <3> QED
      BY <3>1 DEF Warnings
  <2> QED
    BY <1>1, <1>2, <2>1, <2>2 DEF Warned
<1>7. \A b \in todo' : Meant(b)'
  <2> SUFFICES ASSUME NEW b \in Diff PROVE Meant(b)'
    BY <1>1
  <2>1. Meant(b)
    BY DiffMeans
  <2> QED
    BY <1>1, <2>1, KeepMeant DEF SameTypes, Compared, Both
<1> QED
  BY <1>3, <1>5, <1>6, <1>7 DEF Pending

\* With nothing left to execute, the live schema is as declared.
LEMMA NothingLeft ==
  ASSUME Typed, Pending, todo = {}
  PROVE  /\ DOMAIN source \subseteq DOMAIN live
         /\ \A t \in Compared : /\ source[t].supers = live[t].supers
                                /\ source[t].indexes \subseteq live[t].indexes
                                /\ DOMAIN source[t].props \subseteq DOMAIN live[t].props
         /\ \A t, p : Common(t, p) =>
              /\ source[t].props[p].flags = live[t].props[p].flags
              /\ source[t].props[p].limit \in {None, live[t].props[p].limit}
              /\ DefaultDone(t, p)
         /\ Strategy = "Never" \/ DOMAIN live \subseteq DOMAIN source \cup Owned
<1>1. \A t \in Compared : Part(t)
  BY DEF Part, Compared, Both
<1>2. ASSUME NEW t, NEW p, Common(t, p)
      PROVE  source[t].props[p].flags = live[t].props[p].flags
  <2>1. source[t].props[p].flags \subseteq Flag /\ live[t].props[p].flags \subseteq Flag
    BY <1>2, CommonLive DEF Property, ShownProperty
  <2>2. \A f \in Flag : (f \in source[t].props[p].flags) = (f \in live[t].props[p].flags)
    BY <1>2 DEF Pending, PendingFlags
  <2> QED
    BY <2>1, <2>2
<1>3. \A t, p : Common(t, p) =>
        source[t].props[p].limit \in {None, live[t].props[p].limit} /\ DefaultDone(t, p)
  BY DEF Pending, PendingLimits, PendingDefaults
<1>4. DOMAIN source \subseteq DOMAIN live
  BY DEF Pending, PendingTypes
<1>5. \A t \in Compared : source[t].supers = live[t].supers
  BY DEF Pending, PendingSupers
<1>6. \A t \in Compared : /\ source[t].indexes \subseteq live[t].indexes
                          /\ DOMAIN source[t].props \subseteq DOMAIN live[t].props
  BY <1>1 DEF Pending, PendingIndexes, PendingProps
<1>7. Strategy = "Never" \/ DOMAIN live \subseteq DOMAIN source \cup Owned
  BY DEF Pending, PendingDrops
<1> QED
  BY <1>2, <1>3, <1>4, <1>5, <1>6, <1>7

\* A default that stays adopted is the only one that is not as declared.
LEMMA NewlyRecorded ==
  ASSUME Typed, Pending, todo = {}, WriteSnapshot
  PROVE  Recorded'
<1> SUFFICES ASSUME NEW t, NEW p, Has(source, <<t, p>>), Has(live, <<t, p>>),
                    <<t, p>> \notin adopted', source[t].props[p].default \in Literal
             PROVE  live[t].props[p].default = Shown[source[t].props[p].default]
  BY DEF WriteSnapshot, Recorded, Has
<1>1. t \in DOMAIN source /\ p \in DOMAIN source[t].props
      /\ t \in DOMAIN live /\ p \in DOMAIN live[t].props
  BY DEF Has
<1>2. IsType(source[t]) /\ IsType(live[t])
  BY <1>1 DEF Typed, IsSource, IsLive
<1>3. Common(t, p)
  BY <1>1, <1>2 DEF IsType, Common, Compared, Both
<1>4. DefaultDone(t, p) /\ <<t, p>> \in BothProps
      /\ source[t].props[p].default \in Expr \cup {None}
  BY <1>3, NothingLeft, CommonProps, CommonLive DEF Property
<1>5. CASE <<t, p>> \notin adopted
  BY <1>4, <1>5 DEF DefaultDone
<1>6. CASE <<t, p>> \in adopted
  <2>1. live[t].props[p].default = Show(source[t].props[p].default)
    BY <1>4, <1>6 DEF WriteSnapshot, Declared, Found
  <2> QED
    BY <1>4, <2>1, Shows
<1> QED
  BY <1>5, <1>6

\* What a run that succeeds leaves.
LEMMA Wins ==
  ASSUME Typed, Pending, todo = {}, WriteSnapshot
  PROVE  SourceWins'
<1>1. /\ source' = source /\ live' = live /\ warned' = warned
      /\ snapshot'.taken /\ snapshot'.source = source /\ snapshot'.live = live
  BY DEF WriteSnapshot
<1>2. Both' = Both /\ Compared' = Compared /\ BothProps' = BothProps
  BY <1>1 DEF Both, Compared, BothProps
<1>3. ASSUME NEW t \in Both
      PROVE  /\ source[t].kind = live[t].kind \/ <<"kind", t>> \in warned
             /\ source[t].spec = live[t].spec \/ {<<"spec", t>>, <<"kind", t>>} \cap warned # {}
  BY DEF Pending, Warned
<1>4. ASSUME NEW x \in BothProps
      PROVE  /\ Declared(x)' = Declared(x) /\ Found(x)' = Found(x)
             /\ Declared(x).type = Found(x).type \/ <<"type", x[1], x[2]>> \in warned
             /\ Declared(x).flags = Found(x).flags
             /\ Declared(x).limit \in {None, Found(x).limit}
             /\ (Declared(x).default = None) = (Found(x).default = None)
             /\ Declared(x).default \in Literal /\ x \notin adopted'
                  => Found(x).default = Shown[Declared(x).default]
  <2> DEFINE t == x[1]
             p == x[2]
  <2>1. Common(t, p) /\ x = <<t, p>>
    BY DEF BothProps, Common
  <2>2. /\ Declared(x) = source[t].props[p] /\ Found(x) = live[t].props[p]
        /\ Declared(x)' = Declared(x) /\ Found(x)' = Found(x)
    BY <1>1 DEF Declared, Found
  <2>3. x[1] = t /\ x[2] = p
    OBVIOUS
  <2> HIDE DEF t, p
  <2>4. /\ source[t].props[p].flags = live[t].props[p].flags
        /\ source[t].props[p].limit \in {None, live[t].props[p].limit}
        /\ (source[t].props[p].default = None) = (live[t].props[p].default = None)
        /\ source[t].props[p].type = live[t].props[p].type \/ <<"type", t, p>> \in warned
    BY <2>1, NothingLeft DEF Pending, Warned, DefaultDone
  <2>5. Has(source, x) /\ Has(live, x)
    BY <2>1, <2>3 DEF Has, Common, Compared, Both
  <2>6. ASSUME source[t].props[p].default \in Literal, x \notin adopted'
        PROVE  live[t].props[p].default = Shown[source[t].props[p].default]
    <3>1. Recorded'
      BY NewlyRecorded
    <3>2. /\ Has(snapshot'.source, <<t, p>>) /\ Has(snapshot'.live, <<t, p>>)
          /\ <<t, p>> \notin adopted' /\ snapshot'.source[t].props[p].default \in Literal
      BY <1>1, <2>1, <2>5, <2>6
    <3>3. snapshot'.live[t].props[p].default = Shown[snapshot'.source[t].props[p].default]
      BY <1>1, <3>1, <3>2 DEF Recorded, Has
    <3> QED
      BY <1>1, <3>3
  <2> QED
    BY <2>2, <2>3, <2>4, <2>6
<1> QED
  BY <1>1, <1>2, <1>3, <1>4, NothingLeft DEF SourceWins

\* Of a schema as declared that was just recorded, the diff finds nothing.
LEMMA NothingFound ==
  ASSUME Typed, Pending, todo = {}, WriteSnapshot
  PROVE  InSync' /\ Diff' = {}
<1>1. /\ source' = source /\ live' = live
      /\ snapshot'.taken /\ snapshot'.source = source /\ snapshot'.live = live
  BY DEF WriteSnapshot
<1>2. /\ DOMAIN source \subseteq DOMAIN live
      /\ \A t \in Compared : /\ source[t].supers = live[t].supers
                             /\ source[t].indexes \subseteq live[t].indexes
                             /\ DOMAIN source[t].props \subseteq DOMAIN live[t].props
      /\ Strategy = "Never" \/ DOMAIN live \subseteq DOMAIN source \cup Owned
  BY NothingLeft
<1>3. /\ Both' = Both /\ Compared' = Compared /\ BothProps' = BothProps
      /\ Compared \subseteq DOMAIN live
  BY <1>1 DEF Both, Compared, BothProps
<1>4. ASSUME NEW x \in BothProps
      PROVE  /\ Declared(x)' = Declared(x) /\ Found(x)' = Found(x)
             /\ Declared(x).flags = Found(x).flags
             /\ Declared(x).limit \in {None, Found(x).limit}
             /\ ~DefaultDiffers(x)'
  <2> DEFINE t == x[1]
             p == x[2]
  <2>1. Common(t, p) /\ x = <<t, p>>
    BY DEF BothProps, Common
  <2>2. /\ Declared(x) = source[t].props[p] /\ Found(x) = live[t].props[p]
        /\ Declared(x)' = Declared(x) /\ Found(x)' = Found(x)
    BY <1>1 DEF Declared, Found
  <2> HIDE DEF t, p
  <2>3. /\ source[t].props[p].flags = live[t].props[p].flags
        /\ source[t].props[p].limit \in {None, live[t].props[p].limit}
        /\ (source[t].props[p].default = None) = (live[t].props[p].default = None)
    BY <2>1, NothingLeft DEF DefaultDone
  <2>4. Has(source, x) /\ Has(live, x)
    BY <2>1 DEF Has, Common, Compared, Both, t, p
  <2>5. Resolved(x)' = Found(x).default /\ Applied(x)' = Declared(x).default
    BY <1>1, <2>4 DEF Resolved, Applied, Has, Found, Declared
  <2> QED
    BY <2>2, <2>3, <2>5 DEF DefaultDiffers, Drifted
<1>5. NewTypes' = {} /\ Drops' = {}
  BY <1>1, <1>2 DEF NewTypes, Drops
<1>6. NewProps' = {} /\ NewIndexes' = {}
  <2>1. \A t \in Compared : Lacking(t)' = live[t]
    BY <1>1, <1>3 DEF Lacking
  <2> QED
    BY <1>1, <1>2, <1>3, <2>1 DEF NewProps, NewIndexes
<1>7. Supers' = {}
  BY <1>1, <1>2, <1>3 DEF Supers
<1>8. Flags' = {}
  BY <1>3, <1>4 DEF Flags
<1>9. Limits' = {} /\ Defaults' = {}
  BY <1>3, <1>4 DEF Limits, Defaults
<1> QED
  BY <1>1, <1>5, <1>6, <1>7, <1>8, <1>9 DEF Diff, InSync

----------------------------------------------------------------------------
(* Whatever is changed by hand leaves a live schema *)

\* Types of which only the properties were changed, by others.
LEMMA PropsReplaced ==
  ASSUME IsLive(live), NEW t \in DOMAIN live, NEW props,
         live[t].kind # "timeseries", DOMAIN props \subseteq Prop,
         \A r \in DOMAIN props : props[r] \in ShownProperty,
         live' = [live EXCEPT ![t].props = props]
  PROVE  IsLive(live)'
<1> DEFINE d == [live[t] EXCEPT !.props = props]
<1>1. \A u \in DOMAIN live : IsType(live[u])
  BY DEF IsLive
<1>2. /\ DOMAIN live' = DOMAIN live /\ live'[t] = d
      /\ \A u \in DOMAIN live : u # t => live'[u] = live[u]
  OBVIOUS
<1>3. /\ DOMAIN d = DOMAIN live[t] /\ d.kind = live[t].kind /\ d.spec = live[t].spec
      /\ d.supers = live[t].supers /\ d.indexes = live[t].indexes /\ d.props = props
  BY <1>1 DEF IsType
<1> HIDE DEF d
<1>4. IsType(d)
  BY <1>1, <1>3 DEF IsType
<1> QED
  BY <1>2, <1>3, <1>4 DEF IsLive

LEMMA ShownIsShown ==
  ASSUME NEW q \in Property PROVE ShownProp(q) \in ShownProperty
<1>1. Show(q.default) \in Range(Shown) \cup {None}
  BY Shows DEF Property
<1> QED
  BY <1>1 DEF ShownProp, Property, ShownProperty

LEMMA TypeMade ==
  ASSUME IsLive(live), NEW d, IsSource(d), NEW t \in DOMAIN d,
         live' = With(live, t, ShownType(d[t]))
  PROVE  IsLive(live)'
<1> DEFINE s == ShownType(d[t])
<1>1. t \in Name /\ IsType(d[t]) /\ \A p \in DOMAIN d[t].props : d[t].props[p] \in Property
  BY DEF IsSource
<1>2. /\ DOMAIN s = DOMAIN d[t] /\ s.kind = d[t].kind /\ s.spec = d[t].spec
      /\ s.supers = d[t].supers /\ s.indexes = d[t].indexes
      /\ s.props = [p \in DOMAIN d[t].props |-> ShownProp(d[t].props[p])]
  BY <1>1 DEF ShownType, IsType
<1>3. /\ DOMAIN live' = DOMAIN live \cup {t} /\ live'[t] = s
      /\ \A u \in DOMAIN live : u # t => live'[u] = live[u]
  BY DEF With
<1> HIDE DEF s
<1>4. IsType(s)
  BY <1>1, <1>2 DEF IsType
<1>5. \A p \in DOMAIN s.props : s.props[p] \in ShownProperty
  BY <1>1, <1>2, ShownIsShown
<1> QED
  BY <1>1, <1>3, <1>4, <1>5 DEF IsLive

LEMMA ByHandIsLive ==
  ASSUME IsLive(live), NEW t \in Name, ByHand(t)
  PROVE  IsLive(live)'
<1>1. CASE t \in DOMAIN live /\ live' = Dropped(t)
  BY <1>1, DroppedIsLive
<1>2. CASE \E d \in Sources : /\ t \in DOMAIN d /\ d[t].supers \subseteq DOMAIN live
                              /\ live' = With(live, t, ShownType(d[t]))
  BY <1>2, TypeMade, DiffAssumption
<1>3. ASSUME t \in DOMAIN live, NEW p \in DOMAIN live[t].props,
             live' = [live EXCEPT ![t].props = Without(@, p)]
      PROVE  IsLive(live)'
  <2> DEFINE props == Without(live[t].props, p)
  <2>1. live[t].kind # "timeseries" /\ DOMAIN live[t].props \subseteq Prop
    BY <1>3 DEF IsLive, IsType
  <2>2. DOMAIN props \subseteq DOMAIN live[t].props
        /\ \A r \in DOMAIN props : props[r] = live[t].props[r]
    BY DEF Without, Restrict
  <2>3. live' = [live EXCEPT ![t].props = props]
    BY <1>3
  <2> HIDE DEF props
  <2>4. \A r \in DOMAIN props : props[r] \in ShownProperty
    BY <1>3, <2>2 DEF IsLive
  <2> QED
    BY <1>3, <2>1, <2>2, <2>3, <2>4, PropsReplaced
<1>4. ASSUME t \in DOMAIN live, NEW p \in DOMAIN live[t].props, NEW q \in Property,
             live' = [live EXCEPT ![t].props[p] = ShownProp(q)]
      PROVE  IsLive(live)'
  <2> DEFINE props == [live[t].props EXCEPT ![p] = ShownProp(q)]
  <2>1. live[t].kind # "timeseries" /\ DOMAIN live[t].props \subseteq Prop
    BY <1>4 DEF IsLive, IsType
  <2>2. DOMAIN props = DOMAIN live[t].props /\ props[p] = ShownProp(q)
        /\ \A r \in DOMAIN props : r # p => props[r] = live[t].props[r]
    BY <1>4
  <2>3. live' = [live EXCEPT ![t].props = props]
    BY <1>4
  <2> HIDE DEF props
  <2>4. \A r \in DOMAIN props : props[r] \in ShownProperty
    BY <1>4, <2>2, ShownIsShown DEF IsLive
  <2> QED
    BY <1>4, <2>1, <2>2, <2>3, <2>4, PropsReplaced
<1> QED
  BY <1>1, <1>2, <1>3, <1>4 DEF ByHand

----------------------------------------------------------------------------
(* The theorems *)

LEMMA DInit == Init => DInv
<1> SUFFICES ASSUME Init PROVE DInv
  OBVIOUS
<1>1. DOMAIN Empty = {}
  BY DEF Empty
<1>2. Typed
  BY <1>1, DiffAssumption DEF Init, Typed, IsLive
<1>3. Recorded
  BY DEF Init, NoSnapshot, Recorded
<1> QED
  BY <1>2, <1>3 DEF Init, DInv

LEMMA DStep == DInv /\ [Next]_vars => DInv'
<1> SUFFICES ASSUME DInv, [Next]_vars PROVE DInv'
  OBVIOUS
<1>1. CASE Start
  <2>1. ~clean
    BY <1>1 DEF DInv, Start
  <2>2. Pending' /\ \A b \in todo' : Meant(b)'
    BY <1>1, StartStep DEF DInv
  <2>3. /\ source' = source /\ live' = live /\ snapshot' = snapshot /\ clean' = clean
        /\ pc' \in {"diff", "snapshot"} /\ (pc' = "snapshot" => todo' = {})
    BY <1>1 DEF Start
  <2>4. Typed'
    BY <2>3 DEF DInv, Typed, IsLive, IsSource
  <2>5. Recorded'
    BY <1>1 DEF Start, DInv, Recorded
  <2> QED
    BY <2>1, <2>2, <2>3, <2>4, <2>5 DEF DInv
<1>2. ASSUME NEW a \in todo, Execute(a) PROVE DInv'
  <2>1. Executing(a)
    BY <1>2 DEF DInv, Execute, Executing, InRun
  <2>2. Closer
    BY <2>1, EveryStep
  <2>3. /\ source' = source /\ snapshot' = snapshot /\ adopted' = adopted /\ clean' = clean
        /\ pc' \in {"diff", "snapshot"} /\ (pc' = "snapshot" => todo' = {})
    BY <1>2 DEF Execute
  <2>4. ~clean
    BY <1>2 DEF Execute, DInv
  <2>5. Typed'
    BY <2>2, <2>3 DEF Closer, DInv, Typed, IsSource
  <2>6. Recorded'
    BY <2>3 DEF DInv, Recorded, Has
  <2> QED
    BY <2>2, <2>3, <2>4, <2>5, <2>6 DEF DInv, Closer
<1>3. CASE Fail
  <2>1. ~clean
    BY <1>3 DEF DInv, Fail
  <2>2. Typed' /\ Recorded'
    BY <1>3 DEF Fail, DInv, Typed, IsLive, IsSource, Recorded, Has
  <2> QED
    BY <1>3, <2>1, <2>2 DEF DInv, Fail
<1>4. CASE WriteSnapshot
  <2>1. Typed /\ Pending /\ todo = {} /\ source' = source /\ live' = live /\ pc' = "idle"
        /\ warned' = warned
    BY <1>4 DEF DInv, WriteSnapshot
  <2>2. Recorded' /\ InSync' /\ Diff' = {}
    BY <1>4, <2>1, NewlyRecorded, NothingFound
  <2>3. SourceWins'
    BY <1>4, <2>1, Wins
  <2>4. Typed'
    BY <2>1 DEF Typed, IsLive, IsSource
  <2> QED
    BY <2>1, <2>2, <2>3, <2>4 DEF DInv
<1>5. CASE Edit
  <2>1. Typed'
    BY <1>5, DiffAssumption DEF Edit, DInv, Typed, IsLive, run
  <2>2. Recorded'
    BY <1>5 DEF Edit, DInv, Recorded, Has
  <2> QED
    BY <1>5, <2>1, <2>2 DEF DInv, Edit, run
<1>6. CASE Drift
  <2>1. IsLive(live)'
    BY <1>6, ByHandIsLive DEF Drift, DInv, Typed
  <2>2. Typed'
    BY <1>6, <2>1 DEF Drift, DInv, Typed, IsSource, run
  <2>3. Recorded'
    BY <1>6 DEF Drift, DInv, Recorded, Has
  <2> QED
    BY <1>6, <2>2, <2>3 DEF DInv, Drift, run
<1>7. CASE UNCHANGED vars
  <2>1. UNCHANGED <<source, live, snapshot, pc, todo, warned, clean, adopted>>
    BY <1>7 DEF vars, run
  <2>2. Typed' /\ Recorded'
    BY <2>1 DEF DInv, Typed, IsSource, IsLive, Recorded, Has
  <2>3. pc # "idle" => Pending' /\ \A b \in todo' : Meant(b)'
    BY <2>1 DEF DInv, Pending, PendingTypes, PendingProps, PendingIndexes, PendingSupers,
       PendingFlags, PendingLimits, PendingDefaults, PendingDrops, Warned, DefaultDone, Meant, Plain,
       Part, Common, Compared, Both, CreateType, CreateProperty, CreateIndex, AlterSupers,
       AlterFlag, AlterLimit, AlterDefault, DropType
  <2>4. InSync' = InSync /\ SourceWins' = SourceWins
    BY <2>1 DEF InSync, SourceWins, BothProps, Compared, Both, Declared, Found
  <2>5. Diff' = Diff
    BY <2>1 DEF Diff, NewTypes, NewProps, NewIndexes, Supers, Flags, Limits, Defaults, Drops,
       DefaultDiffers, Drifted, Resolved, Applied, Has, Lacking, BothProps, Compared, Both,
       Declared, Found
  <2> QED
    BY <2>1, <2>2, <2>3, <2>4, <2>5 DEF DInv
<1> QED
  BY <1>1, <1>2, <1>3, <1>4, <1>5, <1>6, <1>7 DEF Next

LEMMA DInvHolds == Spec => []DInv
  BY DInit, DStep, PTL DEF Spec

\* A run right after one that succeeded does nothing, and would find nothing,
\* not even a default that introspection shows in another way than it is
\* declared (Migrator::sync, "see false drift forever", migrator/mod.rs:340):
\* for any schemas, edits and changes by hand, and runs that fail anywhere.
THEOREM NoFalseDrift == Spec => []Settles
<1>1. DInv => Settles
  BY DEF DInv, Settles
<1> QED
  BY <1>1, DInvHolds, PTL

\* A run that succeeded leaves what the source declares, but for what it warned
\* about, limits that cannot be cleared, calls, and defaults adopted from a
\* database without a snapshot (diff_with_snapshot, diff.rs:12-24): statement by
\* statement, whatever runs before it did or left half done.
THEOREM SyncedAsDeclared == Spec => []SourceWins
<1>1. DInv => SourceWins
  BY DEF DInv, SourceWins
<1> QED
  BY <1>1, DInvHolds, PTL
================================================================================
