------------------------- MODULE OverrideFiles_proofs -------------------------
(***************************************************************************)
(* A file whose statements validate_phase_ordering accepts is executed in  *)
(* the order it was written, and the types it owns are those it leaves     *)
(* behind: for any types, row counts, statements and file lengths.         *)
(*                                                                         *)
(* The split and the owned types are recursive functions of the prefixes   *)
(* of a file.  LeastNat gives induction over them: the functions exist,    *)
(* and in an ordered file the copies of every prefix, followed by its      *)
(* swaps, are the prefix.                                                  *)
(***************************************************************************)
EXTENDS OverrideFiles, SequenceTheorems, WellFoundedInduction, TLAPS

\* Every set of natural numbers with a member has a least one.
LEMMA LeastNat ==
  ASSUME NEW S, S \subseteq Nat, S # {}
  PROVE  \E n \in S : \A m \in S : n <= m
<1> DEFINE Less == {p \in Nat \X Nat : p[1] < p[2]}
<1>1. OpToRel(<, Nat) = Less
  BY DEF OpToRel
<1>2. IsWellFoundedOn(Less, Nat)
  BY <1>1, NatLessThanWellFounded
<1>3. PICK n \in S : \A m \in S : ~(<<m, n>> \in Less)
  <2> HIDE DEF Less
  <2> QED
    BY <1>2, WFMin
<1>4. ASSUME NEW m \in S PROVE n <= m
  <2>1. n \in Nat /\ m \in Nat
    OBVIOUS
  <2>2. m < n => <<m, n>> \in Less
    BY <2>1
  <2> QED
    BY <1>3, <2>1, <2>2
<1> QED
  BY <1>4

\* Induction over the natural numbers, for a set.
LEMMA Induction ==
  ASSUME NEW S, 0 \in S, \A n \in Nat : n \in S => n + 1 \in S
  PROVE  Nat \subseteq S
<1> SUFFICES ASSUME Nat \ S # {} PROVE FALSE
  OBVIOUS
<1>1. PICK n \in Nat \ S : \A m \in Nat \ S : n <= m
  BY LeastNat
<1>2. n # 0 /\ n - 1 \in Nat /\ ~(n <= n - 1)
  BY <1>1
<1>3. n - 1 \in S
  BY <1>1, <1>2
<1>4. (n - 1) + 1 = n
  BY <1>1
<1> QED
  BY <1>2, <1>3, <1>4

\* Recursion over an initial segment of the natural numbers: a function that is
\* computed step by step exists.
Computes(g, X, a, H, n) ==
  g \in [0..n -> X] /\ g[0] = a /\ \A i \in 1..n : g[i] = H[i][g[i - 1]]

LEMMA Recursion ==
  ASSUME NEW X, NEW a \in X, NEW H, H \in [Nat -> [X -> X]], NEW n \in Nat
  PROVE  \E g : Computes(g, X, a, H, n)
<1> DEFINE Steps(g, k) == g[0] = a /\ \A i \in 1..k : g[i] = H[i][g[i - 1]]
           Good == {k \in Nat : \E g \in [0..k -> X] : Steps(g, k)}
<1>1. 0 \in Good
  <2> DEFINE g0 == [i \in 0..0 |-> a]
  <2>1. g0 \in [0..0 -> X] /\ Steps(g0, 0)
    OBVIOUS
  <2> QED
    BY <2>1
<1>2. ASSUME NEW k \in Nat, k \in Good PROVE k + 1 \in Good
  <2>1. PICK g \in [0..k -> X] : Steps(g, k)
    BY <1>2
  <2> DEFINE h == [i \in 0..(k + 1) |-> IF i <= k THEN g[i] ELSE H[k + 1][g[k]]]
  <2>2. h \in [0..(k + 1) -> X]
    OBVIOUS
  <2>3. \A i \in 0..k : h[i] = g[i]
    OBVIOUS
  <2>4. h[k + 1] = H[k + 1][h[k]]
    OBVIOUS
  <2>5. Steps(h, k + 1)
    <3>1. h[0] = a
      BY <2>1, <2>3
    <3>2. ASSUME NEW i \in 1..k PROVE h[i] = H[i][h[i - 1]]
      BY <2>1, <2>3
    <3> HIDE DEF h
    <3> QED
      BY <2>4, <3>1, <3>2
  <2> HIDE DEF h
  <2> QED
    BY <2>2, <2>5
<1>3. Nat \subseteq Good
  <2> HIDE DEF Good
  <2> QED
    BY <1>1, <1>2, Induction
<1> QED
  BY <1>3 DEF Computes

----------------------------------------------------------------------------
(* The recursive functions of a file *)

File == Seq(Statement)
Phases == [copies : File, swaps : File]
Nothing == [copies |-> <<>>, swaps |-> <<>>]

LEMMA FileProperties ==
  ASSUME NEW f \in File
  PROVE  Len(f) \in Nat /\ DOMAIN f = 1..Len(f) /\ \A i \in 1..Len(f) : f[i] \in Statement
BY DEF File

LEMMA PartTyped ==
  ASSUME NEW q \in Phases, NEW s \in Statement
  PROVE  /\ Part(q, s) \in Phases
         /\ Destructive(s) => Part(q, s).copies = q.copies /\ Part(q, s).swaps = Append(q.swaps, s)
         /\ ~Destructive(s) => Part(q, s).copies = Append(q.copies, s) /\ Part(q, s).swaps = q.swaps
<1>1. Append(q.copies, s) \in File /\ Append(q.swaps, s) \in File
  BY DEF Phases, File
<1>2. CASE Destructive(s)
  BY <1>1, <1>2 DEF Part, Phases
<1>3. CASE ~Destructive(s)
  BY <1>1, <1>3 DEF Part, Phases
<1> QED
  BY <1>2, <1>3

\* SplitAfter and OwnedAfter are computed step by step.
LEMMA SplitSteps ==
  ASSUME NEW f \in File
  PROVE  /\ SplitAfter(f)[0] = Nothing
         /\ \A i \in 1..Len(f) : SplitAfter(f)[i] = Part(SplitAfter(f)[i - 1], f[i])
<1> DEFINE H == [i \in Nat |-> [q \in Phases |-> IF i \in 1..Len(f) THEN Part(q, f[i]) ELSE q]]
           IsSplit(g) == g = [i \in 0..Len(f) |-> IF i = 0 THEN Nothing ELSE Part(g[i - 1], f[i])]
<1>1. H \in [Nat -> [Phases -> Phases]]
  BY FileProperties, PartTyped
<1>2. Nothing \in Phases
  BY DEF Nothing, Phases, File
<1>0. Len(f) \in Nat /\ 0..Len(f) = {0} \cup 1..Len(f)
  BY FileProperties
<1>3. PICK g : Computes(g, Phases, Nothing, H, Len(f))
  <2> HIDE DEF H
  <2> QED
    BY <1>0, <1>1, <1>2, Recursion
<1>4. ASSUME NEW i \in 1..Len(f) PROVE g[i] = Part(g[i - 1], f[i])
  <2>1. i \in Nat /\ i - 1 \in 0..Len(f)
    BY <1>0
  <2>2. g[i - 1] \in Phases
    BY <1>3, <2>1 DEF Computes
  <2> QED
    BY <1>3, <2>1, <2>2 DEF Computes
<1>5. IsSplit(g)
  BY <1>0, <1>3, <1>4 DEF Computes
<1>6. SplitAfter(f) = CHOOSE h : IsSplit(h)
  BY DEF SplitAfter, Nothing
<1>7. IsSplit(SplitAfter(f))
  <2> HIDE DEF IsSplit
  <2> QED
    BY <1>5, <1>6
<1> QED
  BY <1>0, <1>7

LEMMA OwnedSteps ==
  ASSUME NEW f \in File
  PROVE  /\ OwnedAfter(f)[0] = {}
         /\ \A i \in 1..Len(f) : OwnedAfter(f)[i] = Owns(OwnedAfter(f)[i - 1], f[i])
<1> DEFINE X == SUBSET Type
           H == [i \in Nat |-> [q \in X |-> IF i \in 1..Len(f) THEN Owns(q, f[i]) ELSE q]]
           IsOwned(g) == g = [i \in 0..Len(f) |-> IF i = 0 THEN {} ELSE Owns(g[i - 1], f[i])]
<1>1. ASSUME NEW q \in X, NEW s \in Statement PROVE Owns(q, s) \in X
  BY FilesAssumption DEF Owns
<1>2. H \in [Nat -> [X -> X]] /\ {} \in X
  BY FileProperties, <1>1
<1>0. Len(f) \in Nat /\ 0..Len(f) = {0} \cup 1..Len(f)
  BY FileProperties
<1>3. PICK g : Computes(g, X, {}, H, Len(f))
  <2> HIDE DEF H, X
  <2> QED
    BY <1>0, <1>2, Recursion
<1>4. ASSUME NEW i \in 1..Len(f) PROVE g[i] = Owns(g[i - 1], f[i])
  <2>1. i \in Nat /\ i - 1 \in 0..Len(f)
    BY <1>0
  <2>2. g[i - 1] \in X
    BY <1>3, <2>1 DEF Computes
  <2> QED
    BY <1>3, <2>1, <2>2 DEF Computes
<1>5. IsOwned(g)
  BY <1>0, <1>3, <1>4 DEF Computes
<1>6. OwnedAfter(f) = CHOOSE h : IsOwned(h)
  BY DEF OwnedAfter
<1>7. IsOwned(OwnedAfter(f))
  <2> HIDE DEF IsOwned
  <2> QED
    BY <1>5, <1>6
<1>8. \A i \in 0..Len(f) :
        OwnedAfter(f)[i] = IF i = 0 THEN {} ELSE Owns(OwnedAfter(f)[i - 1], f[i])
  BY <1>7
<1> QED
  BY <1>0, <1>8

----------------------------------------------------------------------------
(* The order *)

\* In an ordered file no copy follows a swap: the copies, then the swaps, are the file.
LEMMA SplitKeepsOrder ==
  ASSUME NEW f \in File, Ordered(f)
  PROVE  /\ Copies(f) \in File /\ Swaps(f) \in File
         /\ Copies(f) \o Swaps(f) = f
<1> DEFINE C(i) == SplitAfter(f)[i].copies
           S(i) == SplitAfter(f)[i].swaps
           Split(i) == /\ SplitAfter(f)[i] \in Phases
                       /\ C(i) \o S(i) = SubSeq(f, 1, i)
                       /\ S(i) # <<>> => \E j \in 1..i : Destructive(f[j])
           Good == {i \in Nat : i <= Len(f) => Split(i)}
<1> HIDE DEF C, S, Split
<1>0. /\ Len(f) \in Nat /\ DOMAIN f = 1..Len(f) /\ f \in Seq(Statement)
      /\ \A i \in 1..Len(f) : f[i] \in Statement
  BY FileProperties DEF File
<1>1. Split(0)
  <2>1. SplitAfter(f)[0] = Nothing /\ Nothing \in Phases
    BY SplitSteps DEF Nothing, Phases, File
  <2>2. SubSeq(f, 1, 0) = <<>>
    BY SubSeqEmpty
  <2>3. <<>> \o <<>> = <<>>
    BY ConcatEmptySeq, EmptySeq
  <2> QED
    BY <2>1, <2>2, <2>3 DEF Nothing, C, S, Split
<1>2. ASSUME NEW k \in Nat, k \in Good PROVE k + 1 \in Good
  <2> SUFFICES ASSUME k + 1 <= Len(f) PROVE Split(k + 1)
    OBVIOUS
  <2> DEFINE s == f[k + 1]
  <2>1. Split(k) /\ k + 1 \in 1..Len(f) /\ s \in Statement /\ (k + 1) - 1 = k
    BY <1>0, <1>2
  <2>2. SplitAfter(f)[k + 1] = Part(SplitAfter(f)[k], s)
    BY <2>1, SplitSteps
  <2>3. SubSeq(f, 1, k + 1) = SubSeq(f, 1, k) \o <<s>>
    BY <1>0, <2>1, SubSeqRecursiveSecond
  <2>4. C(k) \in Seq(Statement) /\ S(k) \in Seq(Statement) /\ <<s>> \in Seq(Statement)
    BY <2>1 DEF Phases, File, C, S, Split
  <2> HIDE DEF s
  <2>5. CASE Destructive(s)
    <3>1. SplitAfter(f)[k + 1] \in Phases /\ C(k + 1) = C(k) /\ S(k + 1) = Append(S(k), s)
      BY <2>1, <2>2, <2>5, PartTyped DEF C, S, Split
    <3>2. S(k + 1) = S(k) \o <<s>>
      BY <2>1, <2>4, <3>1, AppendIsConcat
    <3>3. C(k + 1) \o S(k + 1) = (C(k) \o S(k)) \o <<s>>
      <4>1. (C(k) \o S(k)) \o <<s>> = C(k) \o (S(k) \o <<s>>)
        BY <2>4, ConcatAssociative
      <4> QED
        BY <3>1, <3>2, <4>1
    <3>4. \E j \in 1..(k + 1) : Destructive(f[j])
      BY <2>1, <2>5 DEF s
    <3> QED
      BY <2>1, <2>3, <3>1, <3>3, <3>4 DEF Split
  <2>6. CASE ~Destructive(s)
    <3>1. SplitAfter(f)[k + 1] \in Phases /\ C(k + 1) = Append(C(k), s) /\ S(k + 1) = S(k)
      BY <2>1, <2>2, <2>6, PartTyped DEF C, S, Split
    <3>2. S(k) = <<>>
      <4>1. SUFFICES ASSUME NEW j \in 1..k, Destructive(f[j]) PROVE FALSE
        BY <2>1 DEF Split
      <4>2. j \in DOMAIN f /\ k + 1 \in DOMAIN f /\ j < k + 1
        BY <1>0, <2>1
      <4> QED
        BY <2>6, <4>1, <4>2 DEF Ordered, s
    <3>3. C(k + 1) = C(k) \o <<s>>
      BY <2>1, <2>4, <3>1, AppendIsConcat
    <3>4. C(k + 1) \in Seq(Statement) /\ C(k + 1) \o <<>> = C(k + 1) /\ C(k) \o <<>> = C(k)
      BY <2>4, <3>1, ConcatEmptySeq DEF Phases, File, C
    <3> QED
      BY <2>1, <2>3, <3>1, <3>2, <3>3, <3>4 DEF Split
  <2> QED
    BY <2>5, <2>6
<1>3. Nat \subseteq Good
  <2>1. 0 \in Good
    BY <1>1
  <2> HIDE DEF Good
  <2> QED
    BY <1>2, <2>1, Induction
<1>4. Split(Len(f)) /\ SubSeq(f, 1, Len(f)) = f
  BY <1>0, <1>3, SubSeqFull
<1> QED
  BY <1>4 DEF Copies, Swaps, Phases, C, S, Split

\* Executing the first statement that is left: what was executed, then what is left,
\* stays the same.
LEMMA HeadExecuted ==
  ASSUME NEW a \in File, NEW b \in File, NEW c \in File, b # <<>>
  PROVE  /\ Append(a, Head(b)) \in File /\ Tail(b) \in File /\ Head(b) \in Statement
         /\ Append(a, Head(b)) \o (Tail(b) \o c) = a \o (b \o c)
         /\ Len(a) + 1 \in 1..Len(a \o (b \o c))
         /\ (a \o (b \o c))[Len(a) + 1] = Head(b)
         /\ Len(Append(a, Head(b))) = Len(a) + 1
<1> DEFINE s == Head(b)
           t == Tail(b)
<1>1. s \in Statement /\ t \in Seq(Statement) /\ <<s>> \in Seq(Statement)
  BY HeadTailProperties DEF File
<1>2. a \in Seq(Statement) /\ b \in Seq(Statement) /\ c \in Seq(Statement)
  BY DEF File
<1>3. b = <<s>> \o t
  BY <1>2
<1> HIDE DEF s, t
<1>4. Append(a, s) \in Seq(Statement) /\ Append(a, s) = a \o <<s>> /\ Len(Append(a, s)) = Len(a) + 1
  BY <1>1, <1>2, AppendIsConcat, AppendProperties
<1>5. t \o c \in Seq(Statement) /\ b \o c \in Seq(Statement) /\ a \o (b \o c) \in Seq(Statement)
  BY <1>1, <1>2
<1>6. b \o c = <<s>> \o (t \o c)
  BY <1>1, <1>2, <1>3, ConcatAssociative
<1>7. (a \o <<s>>) \o (t \o c) = a \o (<<s>> \o (t \o c))
  BY <1>1, <1>2, <1>5, ConcatAssociative
<1>8. Append(a, s) \o (t \o c) = a \o (b \o c)
  BY <1>4, <1>6, <1>7
<1>9. /\ Len(a) + 1 \in 1..Len(Append(a, s) \o (t \o c))
      /\ (Append(a, s) \o (t \o c))[Len(a) + 1] = s
  BY <1>1, <1>2, <1>4, <1>5, ConcatProperties, AppendProperties
<1> QED
  BY <1>1, <1>4, <1>8, <1>9 DEF s, t, File

----------------------------------------------------------------------------
(* The invariant *)

Running == {"copy", "verify", "swap", "done"}

\* What is left when the current phase is over.
Later == IF step \in {"copy", "verify"} THEN Swaps(file) ELSE <<>>

\* What was executed, then what is left, is the file.
InOrder ==
  step \in Running =>
    /\ Ordered(file)
    /\ log \o (remaining \o Later) = file
    /\ step \in {"verify", "done"} => remaining = <<>>

\* The statements executed so far own what they left behind, and nothing else.
OwnedSoFar ==
  step \in Running =>
    /\ \A t \in Type : There(t) /\ Base[t] = Missing => t \in OwnedAfter(file)[Len(log)]
    /\ \A t \in OwnedAfter(file)[Len(log)] : t \in Type /\ There(t)

FTyped ==
  /\ file \in File /\ remaining \in File /\ log \in File
  /\ rows \in [Type -> Nat \cup {Missing}]
  /\ step \in Running \cup {"write", "refused"}
  /\ step = "write" => log = <<>> /\ rows = Base

FInv == FTyped /\ InOrder /\ OwnedSoFar

\* The server keeps counting rows, and a statement changes which types are there as
\* owned_types says.
LEMMA EffectTyped ==
  ASSUME rows \in [Type -> Nat \cup {Missing}], NEW s \in Statement, Possible(s)
  PROVE  RowsAfter(s) \in [Type -> Nat \cup {Missing}]
<1> USE FilesAssumption DEF Possible, There
<1>1. s.from \in Type /\ s.to \in Type /\ rows[s.from] \in Nat \cup {Missing} /\ rows[s.to] \in Nat \cup {Missing}
  OBVIOUS
<1>2. CASE s.op = "create"
  BY <1>1, <1>2 DEF RowsAfter
<1>3. CASE s.op = "record"
  BY <1>1, <1>3 DEF RowsAfter
<1>4. CASE s.op = "insert"
  BY <1>1, <1>4 DEF RowsAfter, Selected
<1>5. CASE s.op \in {"moveSelect", "moveType"}
  BY <1>1, <1>5 DEF RowsAfter, Selected
<1>6. CASE s.op = "drop"
  BY <1>1, <1>6 DEF RowsAfter
<1>7. CASE s.op = "rename"
  BY <1>1, <1>7 DEF RowsAfter
<1>8. CASE s.op = "update"
  BY <1>1, <1>8 DEF RowsAfter
<1> QED
  BY <1>2, <1>3, <1>4, <1>5, <1>6, <1>7, <1>8

LEMMA EffectOwned ==
  ASSUME rows \in [Type -> Nat \cup {Missing}], NEW s \in Statement, Possible(s),
         rows' = RowsAfter(s), NEW owned,
         \A t \in Type : There(t) /\ Base[t] = Missing => t \in owned,
         \A t \in owned : t \in Type /\ There(t)
  PROVE  /\ \A t \in Type : There(t)' /\ Base[t] = Missing => t \in Owns(owned, s)
         /\ \A t \in Owns(owned, s) : t \in Type /\ There(t)'
<1> USE FilesAssumption DEF Possible, There, Owns
<1>1. s.from \in Type /\ s.to \in Type /\ rows[s.from] \in Nat \cup {Missing} /\ rows[s.to] \in Nat \cup {Missing}
  OBVIOUS
<1>2. CASE s.op = "create"
  BY <1>1, <1>2 DEF RowsAfter
<1>3. CASE s.op = "record"
  BY <1>1, <1>3 DEF RowsAfter
<1>4. CASE s.op = "insert"
  BY <1>1, <1>4 DEF RowsAfter, Selected
<1>5. CASE s.op \in {"moveSelect", "moveType"}
  BY <1>1, <1>5 DEF RowsAfter, Selected
<1>6. CASE s.op = "drop"
  BY <1>1, <1>6 DEF RowsAfter
<1>7. CASE s.op = "rename"
  BY <1>1, <1>7 DEF RowsAfter
<1>8. CASE s.op = "update"
  BY <1>1, <1>8 DEF RowsAfter
<1> QED
  BY <1>2, <1>3, <1>4, <1>5, <1>6, <1>7, <1>8

LEMMA FInit == FilesInit => FInv
BY FilesAssumption DEF FilesInit, FInv, FTyped, InOrder, OwnedSoFar, Running, File

LEMMA PlanKeeps == ASSUME FInv, Plan PROVE FInv'
<1> USE DEF FInv, FTyped, Plan
<1>1. Copies(file) \in File /\ Swaps(file) \in File /\ Copies(file) \o Swaps(file) = file
  BY SplitKeepsOrder
<1>2. <<>> \o file = file /\ Len(log) = 0
  BY ConcatEmptySeq DEF File
<1>3. InOrder'
  BY <1>1, <1>2 DEF InOrder, Later, Running
<1>4. OwnedAfter(file)[0] = {}
  BY OwnedSteps
<1>5. OwnedSoFar'
  BY <1>2, <1>4 DEF OwnedSoFar, There
<1> QED
  BY <1>1, <1>3, <1>5 DEF Running

LEMMA ExecuteKeeps == ASSUME FInv, ExecuteNext PROVE FInv'
<1> USE DEF FInv, FTyped, ExecuteNext
<1> DEFINE s == Head(remaining)
<1>1. step \in Running /\ Ordered(file)
  BY DEF Running, InOrder
<1>2. Later \in File
  BY <1>1, SplitKeepsOrder DEF Later, File
<1>3. /\ Append(log, s) \in File /\ Tail(remaining) \in File /\ s \in Statement
      /\ Append(log, s) \o (Tail(remaining) \o Later) = file
      /\ Len(log) + 1 \in 1..Len(file)
      /\ file[Len(log) + 1] = s
      /\ Len(Append(log, s)) = Len(log) + 1 /\ (Len(log) + 1) - 1 = Len(log)
  <2>1. log \o (remaining \o Later) = file
    BY <1>1 DEF InOrder
  <2>2. (Len(log) + 1) - 1 = Len(log)
    BY DEF File
  <2>3. /\ Append(log, s) \in File /\ Tail(remaining) \in File /\ s \in Statement
        /\ Append(log, s) \o (Tail(remaining) \o Later) = log \o (remaining \o Later)
        /\ Len(log) + 1 \in 1..Len(log \o (remaining \o Later))
        /\ (log \o (remaining \o Later))[Len(log) + 1] = s
        /\ Len(Append(log, s)) = Len(log) + 1
    BY <1>2, HeadExecuted
  <2> HIDE DEF s, FInv, FTyped, ExecuteNext
  <2> QED
    BY <2>1, <2>2, <2>3
<1> HIDE DEF s
<1>4. CASE Possible(s)
  <2>1. step' = step /\ rows' = RowsAfter(s) /\ log' = Append(log, s) /\ remaining' = Tail(remaining) /\ file' = file
    BY <1>4 DEF s
  <2>2. rows' \in [Type -> Nat \cup {Missing}]
    BY <1>3, <1>4, <2>1, EffectTyped
  <2>3. InOrder'
    BY <1>1, <1>3, <2>1 DEF InOrder, Later
  <2>4. OwnedAfter(file)[Len(log')] = Owns(OwnedAfter(file)[Len(log)], s)
    BY <1>3, <2>1, OwnedSteps
  <2>5. /\ \A t \in Type : There(t) /\ Base[t] = Missing => t \in OwnedAfter(file)[Len(log)]
        /\ \A t \in OwnedAfter(file)[Len(log)] : t \in Type /\ There(t)
    BY <1>1 DEF OwnedSoFar
  <2>6. /\ \A t \in Type : There(t)' /\ Base[t] = Missing => t \in Owns(OwnedAfter(file)[Len(log)], s)
        /\ \A t \in Owns(OwnedAfter(file)[Len(log)], s) : t \in Type /\ There(t)'
    BY <1>3, <1>4, <2>1, <2>5, EffectOwned
  <2>7. OwnedSoFar'
    <3> HIDE DEF FInv, FTyped, ExecuteNext
    <3> QED
      BY <2>1, <2>4, <2>6 DEF OwnedSoFar
  <2> QED
    BY <1>1, <1>3, <2>1, <2>2, <2>3, <2>7 DEF Running
<1>5. CASE ~Possible(s)
  BY <1>3, <1>5 DEF s, InOrder, OwnedSoFar, Running
<1> QED
  BY <1>4, <1>5

LEMMA VerifyKeeps == ASSUME FInv, Verify PROVE FInv'
<1> USE DEF FInv, FTyped, Verify
<1>1. Swaps(file) \in File /\ <<>> \o Swaps(file) = Swaps(file) /\ Swaps(file) \o <<>> = Swaps(file)
  BY SplitKeepsOrder, ConcatEmptySeq DEF InOrder, Running, File
<1>2. InOrder'
  BY <1>1 DEF InOrder, Later, Running
<1>3. OwnedSoFar'
  BY DEF OwnedSoFar, Running, There
<1> QED
  BY <1>1, <1>2, <1>3 DEF Running

LEMMA FStep == FInv /\ [FilesNext]_fileVars => FInv'
<1> SUFFICES ASSUME FInv, [FilesNext]_fileVars PROVE FInv'
  OBVIOUS
<1>1. ASSUME NEW s \in Statement, Write(s) PROVE FInv'
  BY <1>1 DEF Write, FInv, FTyped, InOrder, OwnedSoFar, Running, File
<1>2. ASSUME RefuseFile PROVE FInv'
  BY <1>2 DEF RefuseFile, FInv, FTyped, InOrder, OwnedSoFar, Running
<1>3. ASSUME Copied \/ Done PROVE FInv'
  BY <1>3 DEF Copied, Done, FInv, FTyped, InOrder, OwnedSoFar, Running, Later, There
<1>4. ASSUME UNCHANGED fileVars PROVE FInv'
  BY <1>4 DEF fileVars, FInv, FTyped, InOrder, OwnedSoFar, Later, There
<1> QED
  BY <1>1, <1>2, <1>3, <1>4, PlanKeeps, ExecuteKeeps, VerifyKeeps DEF FilesNext

LEMMA FInvariant == FilesSpec => []FInv
BY FInit, FStep, PTL DEF FilesSpec

----------------------------------------------------------------------------
\* Whatever the file, the phases execute an accepted one in the order it was written:
\* splitting it into copies and swaps moves no statement before another.
THEOREM RunsAsWritten == FilesSpec => []OrderKept
<1>1. ASSUME FInv PROVE OrderKept
  <2> SUFFICES ASSUME step \in Running PROVE IsPrefix(log, file)
    BY DEF OrderKept, Running
  <2> DEFINE rest == remaining \o Later
  <2>1. log \in Seq(Statement) /\ rest \in Seq(Statement) /\ log \o rest = file
    BY <1>1, SplitKeepsOrder DEF FInv, FTyped, InOrder, Later, File
  <2> HIDE DEF rest
  <2>2. Len(log) <= Len(file)
    BY <2>1
  <2>3. SubSeq(log, 1, Len(log)) = SubSeq(file, 1, Len(log))
    <3>1. CASE log = <<>>
      BY <3>1, SubSeqEmpty
    <3>2. CASE log # <<>>
      BY <2>1, <3>2, SubSeqOfConcat1
    <3> QED
      BY <3>1, <3>2
  <2> QED
    BY <2>2, <2>3 DEF IsPrefix
<1> QED
  BY <1>1, FInvariant, PTL

\* What an applied file leaves behind that was not there before is owned, and what is
\* owned is there: a destructive sync drops nothing the file made, and the snapshot
\* claims nothing that is gone.
THEOREM OwnsWhatItLeaves == FilesSpec => []LeftBehindIsOwned
<1>1. ASSUME FInv PROVE LeftBehindIsOwned
  <2> SUFFICES ASSUME step = "done" PROVE LeftBehindIsOwned
    BY DEF LeftBehindIsOwned
  <2>1. log = file
    <3>1. log \o (<<>> \o <<>>) = file
      BY <1>1 DEF FInv, InOrder, Later, Running
    <3> QED
      BY <1>1, <3>1, ConcatEmptySeq DEF FInv, FTyped, File
  <2> QED
    BY <1>1, <2>1 DEF FInv, OwnedSoFar, LeftBehindIsOwned, OwnedByFile, Running
<1> QED
  BY <1>1, FInvariant, PTL
=============================================================================
