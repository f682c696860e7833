----------------------------- MODULE MCSchemaSync -----------------------------
(* Instances of SchemaSync for TLC: up to three releases of a few types. *)
EXTENDS SchemaSync, TLC

CONSTANTS user, tag, note, log, v1, v2

\* Release 1 declares user, tag and note.  Release 2 gives user a new shape, for
\* which override 1 rebuilds it and leaves the helper type log behind.  Release 3
\* no longer declares tag, which override 2 merges into user and drops, nor note.
MCDesired == <<
  user :> v1 @@ tag :> v1 @@ note :> v1 @@ log :> Absent,
  user :> v2 @@ tag :> v1 @@ note :> v1 @@ log :> Absent,
  user :> v2 @@ tag :> Absent @@ note :> Absent @@ log :> Absent >>
MCSince == <<2, 3>>
MCEffect == << user :> v2 @@ log :> v1, tag :> Absent >>
MCNeeds == << {user}, {user, tag} >>

\* Two releases; the second no longer declares note.
Dropped == << user :> v1 @@ note :> v1, user :> v1 @@ note :> Absent >>
\* Two releases; the second gives user a new shape and has no override for it.
Retyped == << user :> v1 @@ note :> v1, user :> v2 @@ note :> v1 >>
NoFiles == <<>>
=============================================================================
