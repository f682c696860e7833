------------------------ MODULE OverrideRegistry_proofs ------------------------
(***************************************************************************)
(* Overrides are executed once each and in full, for any names, contents,  *)
(* changes of the directory and failures of runs, as long as developers    *)
(* leave interrupted files alone and no content is in the directory twice. *)
(*                                                                         *)
(* The invariant ties what was executed to where it is written down: the   *)
(* statements of a content are in the registry, by its checksum, or in the *)
(* journal, by the name of the one file that holds the content.            *)
(***************************************************************************)
EXTENDS OverrideRegistry, TLAPS

\* No statement is in two contents, or in one twice.
Distinct ==
  \A c, d \in Content : \A i \in DOMAIN Statements[c], j \in DOMAIN Statements[d] :
    Statements[c][i] = Statements[d][j] => c = d /\ i = j

\* A content is in one file at most.
OnePlace == \A n, m \in FileName : dir[n] # NoFile /\ dir[n] = dir[m] => n = m

\* What the run still has to do, or a failed one has begun, is in the directory as it
\* was planned and not in the registry.
Open(n) == dir[n] \in Content /\ registry[n] = NoFile /\ \A m \in FileName : registry[m] # dir[n]

Planned == \A n \in waiting : plan[n] = dir[n] /\ Open(n)
Begun ==
  \A n \in FileName : progress[n] # {} =>
    Open(n) /\ progress[n] \subseteq DOMAIN Statements[dir[n]]

\* Where a statement that was executed is written down.
Written(c, i) ==
  \/ \E n \in FileName : registry[n] = c
  \/ \E n \in FileName : dir[n] = c /\ i \in progress[n]

\* A statement was executed once if it is written down, and not at all otherwise.
Counted ==
  \A c \in Content : \A i \in DOMAIN Statements[c] :
    times[Statements[c][i]] = IF Written(c, i) THEN 1 ELSE 0

RInv == RegistryTypeOK /\ OnePlace /\ Planned /\ Begun /\ Counted

LEMMA OpTyped ==
  ASSUME NEW c \in Content, NEW i \in DOMAIN Statements[c]
  PROVE  Statements[c][i] \in Op
BY DEF Op

LEMMA AuthorKeeps == ASSUME Careful, RInv, Author PROVE RInv'
<1> USE DEF RInv, RegistryTypeOK, DirEdit, Files, database, runState, Touchable
<1>0. dirEdits' \in 0..MaxDirEdits
  BY RegistryAssumption DEF Author, Put, Delete, Rename, WriteManifest
<1>1. CASE WriteManifest
  BY <1>0, <1>1 DEF WriteManifest, OnePlace, Planned, Begun, Counted, Written, Open
<1>2. ASSUME UNCHANGED <<manifest, listed, database, runState, runFaults>>, dir' \in Files, OnePlace',
             \A n \in FileName : dir'[n] = dir[n] \/ (progress[n] = {} /\ n \notin waiting)
      PROVE  RInv'
  <2>1. Planned' /\ Begun'
    BY <1>2 DEF Planned, Begun, Open
  <2>2. \A c, i : Written(c, i)' <=> Written(c, i)
    BY <1>2 DEF Written
  <2> QED
    BY <1>0, <1>2, <2>1, <2>2 DEF Counted
<1>3. ASSUME NEW n \in FileName, NEW c \in Content, Put(n, c) PROVE RInv'
  <2>1. dir' \in Files /\ OnePlace'
    BY <1>3, RegistryAssumption DEF Put, NewContent, OnePlace
  <2> QED
    BY <1>2, <1>3, <2>1 DEF Put
<1>4. ASSUME NEW n \in FileName, Delete(n) PROVE RInv'
  <2>1. dir' \in Files /\ OnePlace'
    BY <1>4 DEF Delete, OnePlace
  <2> QED
    BY <1>2, <1>4, <2>1 DEF Delete
<1>5. ASSUME NEW n \in FileName, NEW m \in FileName, Rename(n, m) PROVE RInv'
  <2>1. n # m /\ \A k \in FileName : dir'[k] = IF k = n THEN NoFile ELSE IF k = m THEN dir[n] ELSE dir[k]
    BY <1>5 DEF Rename
  <2>2. dir' \in Files
    BY <1>5 DEF Rename
  <2>3. OnePlace'
    BY <1>5, <2>1 DEF Rename, OnePlace
  <2> QED
    BY <1>2, <1>5, <2>1, <2>2, <2>3 DEF Rename
<1> QED
  BY <1>1, <1>3, <1>4, <1>5 DEF Author

LEMMA StartKeeps == ASSUME RInv, StartRun PROVE RInv'
<1> USE DEF RInv, RegistryTypeOK, Files, database, StartRun
<1>1. waiting' \subseteq FileName /\ plan' = dir /\ running' = TRUE
  BY DEF Pending
<1>2. Planned'
  BY DEF Planned, Open, Pending, Accepts, Intact
<1>3. OnePlace' /\ Begun' /\ Counted'
  BY DEF OnePlace, Begun, Open, Counted, Written
<1> QED
  BY <1>1, <1>2, <1>3

LEMMA ExecKeeps ==
  ASSUME Distinct, RInv, NEW n \in waiting, NEW i \in Left(n), Exec(n, i)
  PROVE  RInv'
<1> USE DEF RInv, RegistryTypeOK, Files, runState
<1> DEFINE c == dir[n]
           op == Statements[c][i]
<1>1. n \in FileName /\ c \in Content /\ plan[n] = c /\ Open(n)
  BY DEF Planned, Open
<1>2. i \in DOMAIN Statements[c] /\ i \notin progress[n] /\ op \in Op /\ i \in Nat
  BY <1>1, OpTyped, RegistryAssumption DEF Left
<1>3. /\ times' = [times EXCEPT ![op] = @ + 1]
      /\ progress' = [progress EXCEPT ![n] = @ \cup {i}]
      /\ UNCHANGED <<dir, manifest, listed, registry, running, plan, waiting, dirEdits, runFaults>>
  BY <1>1 DEF Exec
<1>4. ~Written(c, i)
  BY <1>1, <1>2 DEF Written, Open, OnePlace
<1>5. \A d \in Content : \A j \in DOMAIN Statements[d] :
        Written(d, j)' <=> Written(d, j) \/ (d = c /\ j = i)
  BY <1>1, <1>3 DEF Written
<1>6. \A d \in Content : \A j \in DOMAIN Statements[d] :
        Statements[d][j] \in Op /\ (Statements[d][j] = op => d = c /\ j = i)
  BY <1>1, <1>2, OpTyped DEF Distinct
<1> HIDE DEF op, c
<1>7. Counted'
  <2> SUFFICES ASSUME NEW d \in Content, NEW j \in DOMAIN Statements[d]
               PROVE  times'[Statements[d][j]] = IF Written(d, j)' THEN 1 ELSE 0
    BY DEF Counted
  <2>1. times[Statements[d][j]] = IF Written(d, j) THEN 1 ELSE 0
    BY DEF Counted
  <2>2. CASE d = c /\ j = i
    BY <1>2, <1>3, <1>4, <1>5, <2>1, <2>2 DEF op
  <2>3. CASE ~(d = c /\ j = i)
    BY <1>3, <1>5, <1>6, <2>1, <2>3
  <2> QED
    BY <2>2, <2>3
<1>8. OnePlace' /\ Planned'
  BY <1>3 DEF OnePlace, Planned, Open
<1>9. Begun'
  BY <1>1, <1>2, <1>3 DEF Begun, Open, c
<1>10. progress' \in [FileName -> SUBSET Nat] /\ times' \in [Op -> Nat]
  BY <1>2, <1>3
<1> QED
  BY <1>3, <1>7, <1>8, <1>9, <1>10

LEMMA RecordKeeps ==
  ASSUME RInv, NEW n \in waiting, Record(n)
  PROVE  RInv'
<1> USE DEF RInv, RegistryTypeOK, Files
<1> DEFINE c == dir[n]
<1>1. n \in FileName /\ c \in Content /\ plan[n] = c /\ Open(n)
  BY DEF Planned, Open
<1>2. /\ registry' = [registry EXCEPT ![n] = c] /\ progress' = [progress EXCEPT ![n] = {}]
      /\ waiting' = waiting \ {n}
      /\ UNCHANGED <<dir, manifest, listed, times, running, plan, dirEdits, runFaults>>
  BY <1>1 DEF Record
<1>3. DOMAIN Statements[c] \subseteq progress[n]
  BY <1>1 DEF Record, Left
<1>4. \A d \in Content : \A j \in DOMAIN Statements[d] : Written(d, j)' <=> Written(d, j)
  <2> SUFFICES ASSUME NEW d \in Content, NEW j \in DOMAIN Statements[d]
               PROVE  Written(d, j)' <=> Written(d, j)
    OBVIOUS
  <2>1. CASE d = c
    BY <1>1, <1>2, <1>3, <2>1 DEF Written
  <2>2. CASE d # c
    <3>1. \A m \in FileName : registry'[m] = d <=> registry[m] = d
      BY <1>1, <1>2, <2>2, RegistryAssumption DEF Open
    <3>2. \A m \in FileName : dir[m] = d => progress'[m] = progress[m]
      BY <1>2, <2>2
    <3> QED
      BY <1>2, <3>1, <3>2 DEF Written
  <2> QED
    BY <2>1, <2>2
<1>5. Counted'
  BY <1>2, <1>4 DEF Counted
<1>6. \A m \in FileName \ {n} : Open(m) => Open(m)'
  BY <1>1, <1>2 DEF Open, OnePlace
<1>7. OnePlace' /\ Planned' /\ Begun'
  BY <1>2, <1>6 DEF OnePlace, Planned, Begun
<1>8. registry' \in [FileName -> Content \cup {NoFile}] /\ progress' \in [FileName -> SUBSET Nat] /\ waiting' \subseteq FileName
  BY <1>1, <1>2
<1> QED
  BY <1>2, <1>5, <1>7, <1>8

\* A step that changes neither files nor bookkeeping, and begins nothing.
LEMMA RestKeeps ==
  ASSUME RInv, RegistryTypeOK', UNCHANGED <<dir, registry, progress, times, plan>>, waiting' \subseteq waiting
  PROVE  RInv'
<1>1. \A c, i : Written(c, i)' <=> Written(c, i)
  BY DEF Written
<1>2. Counted'
  BY <1>1 DEF RInv, Counted
<1>3. \A n \in FileName : Open(n)' <=> Open(n)
  BY DEF Open
<1>4. Planned'
  BY <1>3 DEF RInv, RegistryTypeOK, Planned
<1>5. Begun'
  BY <1>3 DEF RInv, Begun
<1>6. OnePlace'
  BY DEF RInv, OnePlace
<1> QED
  BY <1>2, <1>4, <1>5, <1>6 DEF RInv

LEMMA RegistryInvariant == ASSUME Careful, Distinct PROVE RegistrySpec => []RInv
<1>1. RegistryInit => RInv
  <2> SUFFICES ASSUME RegistryInit PROVE RInv
    OBVIOUS
  <2>1. 0 \in 0..MaxDirEdits /\ 0 \in 0..MaxRunFaults
    BY RegistryAssumption
  <2>2. RegistryTypeOK /\ OnePlace /\ Planned /\ Begun
    BY <2>1 DEF RegistryInit, RegistryTypeOK, Nothing, Files, OnePlace, Planned, Begun
  <2>3. \A c \in Content : \A i \in DOMAIN Statements[c] : ~Written(c, i)
    BY RegistryAssumption DEF RegistryInit, Nothing, Written
  <2> QED
    BY <2>2, <2>3, OpTyped DEF RegistryInit, RInv, Counted
<1>2. RInv /\ [RegistryNext]_registryVars => RInv'
  <2> SUFFICES ASSUME RInv, [RegistryNext]_registryVars PROVE RInv'
    OBVIOUS
  <2>1. CASE Finish
    <3>1. UNCHANGED <<dir, registry, progress, times, plan, manifest, listed, dirEdits, runFaults>>
          /\ waiting' = waiting /\ running' = FALSE
      BY <2>1 DEF Finish, database
    <3> QED
      BY <3>1, RestKeeps DEF RInv, RegistryTypeOK
  <2>2. CASE RunFails
    <3>1. UNCHANGED <<dir, registry, progress, times, plan, manifest, listed, dirEdits>>
          /\ waiting' = {} /\ running' = FALSE /\ runFaults' \in 0..MaxRunFaults
      BY <2>2, RegistryAssumption DEF RunFails, database, RInv, RegistryTypeOK
    <3> QED
      BY <3>1, RestKeeps DEF RInv, RegistryTypeOK
  <2>3. CASE UNCHANGED registryVars
    <3>1. UNCHANGED <<dir, registry, progress, times, plan, manifest, listed, dirEdits, runFaults,
                      waiting, running>>
      BY <2>3 DEF registryVars, runState, database
    <3> QED
      BY <3>1, RestKeeps DEF RInv, RegistryTypeOK
  <2> QED
    BY <2>1, <2>2, <2>3, AuthorKeeps, StartKeeps, ExecKeeps, RecordKeeps DEF RegistryNext, RunStep
<1> QED
  BY <1>1, <1>2, PTL DEF RegistrySpec

\* No statement of an override is executed twice, whatever is renamed, edited, deleted
\* or put back and whichever runs fail (compute_pending of fs.rs, progress.rs).
THEOREM ExecutedOnce == ASSUME Careful, Distinct PROVE RegistrySpec => []OnceEach
<1>1. RInv => OnceEach
  BY DEF RInv, Counted, OnceEach, Op
<1> QED
  BY <1>1, RegistryInvariant, PTL

\* A content whose checksum is in the registry was executed in full (record_override
\* after the last statement that the journal left, migrator/mod.rs).
THEOREM RecordsAreTrue == ASSUME Careful, Distinct PROVE RegistrySpec => []RecordedMeansExecuted
<1>1. RInv => RecordedMeansExecuted
  BY DEF RInv, RegistryTypeOK, Files, Counted, Written, RecordedMeansExecuted
<1> QED
  BY <1>1, RegistryInvariant, PTL
=============================================================================
