----------------------------- MODULE ScriptBuffer -----------------------------
(***************************************************************************)
(* ScriptBuffer of batch.rs: statements are collected and sent as one      *)
(* sqlscript per FLUSH_AT of them, the tail with finish.  The server runs  *)
(* a script statement by statement and an error ends it; a request or its  *)
(* reply may be lost.  The buffer is emptied before the script is sent, so *)
(* what a failed flush held is the caller's to push again.                 *)
(***************************************************************************)
EXTENDS Option, Integers, Sequences, FiniteSets, SequencesExt

CONSTANTS Statements,  \* bound: how many statements the caller has
          FlushAt,     \* FLUSH_AT, scaled down
          MaxErrors    \* bound: scripts that fail

ASSUME BufferAssumption == Statements \in Nat /\ FlushAt \in Nat \ {0} /\ MaxErrors \in Nat

VARIABLES pushed,    \* the caller has pushed the statements 1 .. pushed
          script,    \* the buffered statements
          stmts,     \* the counter beside them
          sent,      \* the script on its way: None, or Some of it
          executed,  \* the statements the server has run, in order
          refused,   \* the statements of the scripts whose flush returned an error
          finished,  \* finish has returned Ok
          errors

bufferVars == <<pushed, script, stmts, sent, executed, refused, finished, errors>>

BufferInit ==
  /\ pushed = 0 /\ script = << >> /\ stmts = 0 /\ sent = None
  /\ executed = << >> /\ refused = {} /\ finished = FALSE /\ errors = 0

\* Mutant: the script is copied and not taken.
Flush_copies(lines) == sent' = Some(lines) /\ script' = lines /\ stmts' = 0

\* flush: take the script, reset the counter, send.
Flush(lines) ==
  /\ sent' = Some(lines)
  /\ script' = << >>
  /\ stmts' = 0

Push ==
  /\ sent = None /\ ~finished /\ pushed < Statements
  /\ pushed' = pushed + 1
  /\ IF stmts + 1 >= FlushAt THEN Flush(Append(script, pushed'))
     ELSE /\ script' = Append(script, pushed')
          /\ stmts' = stmts + 1
          /\ UNCHANGED sent
  /\ UNCHANGED <<executed, refused, finished, errors>>

\* finish: flush the tail; an empty script is not sent.
FinishTail ==
  /\ sent = None /\ ~finished /\ script # << >>
  /\ Flush(script)
  /\ UNCHANGED <<pushed, executed, refused, finished, errors>>

FinishEmpty ==
  /\ sent = None /\ ~finished /\ script = << >> /\ pushed = Statements
  /\ finished' = TRUE
  /\ UNCHANGED <<pushed, script, stmts, sent, executed, refused, errors>>

\* The script runs to its end and the reply arrives.
Runs ==
  /\ sent # None
  /\ executed' = executed \o sent[1]
  /\ sent' = None
  /\ UNCHANGED <<pushed, script, stmts, refused, finished, errors>>

\* A statement fails and ends the script, or a request or a reply is lost: the call
\* is an error, and any beginning of the script was run.
Fails ==
  /\ sent # None
  /\ errors < MaxErrors
  /\ errors' = errors + 1
  /\ \E n \in 0 .. Len(sent[1]) : executed' = executed \o SubSeq(sent[1], 1, n)
  /\ refused' = refused \cup ToSet(sent[1])
  /\ sent' = None
  /\ UNCHANGED <<pushed, script, stmts, finished>>

BufferNext == Push \/ FinishTail \/ FinishEmpty \/ Runs \/ Fails

BufferSpec == BufferInit /\ [][BufferNext]_bufferVars

-----------------------------------------------------------------------------
\* Property

\* Statements run in the order they were pushed and at most once, and when finish has
\* returned Ok every one that did not run was in a script whose flush returned an error
\* to the caller: a batch boundary, an error and the tail lose and repeat nothing
\* (push, flush, finish).
AllRunOrReported ==
  /\ \A i, j \in DOMAIN executed : i < j => executed[i] < executed[j]
  /\ finished => 1 .. Statements \subseteq ToSet(executed) \cup refused
=============================================================================
