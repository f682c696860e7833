----------------------------- MODULE ClientCache -----------------------------
(***************************************************************************)
(* The transient cache over the server's Redis commands (cache.rs).  The   *)
(* server keeps strings and forgets nothing but on GETDEL and a restart:   *)
(* an entry carries its own time to live, stamped with the clock of the    *)
(* client that made it; a reader judges it with the clock of its host, and *)
(* consumes what is expired or does not decode.  A get is two requests     *)
(* then, with anything of anybody between them.                            *)
(*                                                                         *)
(* The clocks of the hosts are set, and set again: two readings of them    *)
(* differ by up to Skew seconds more or less than the time between them.   *)
(***************************************************************************)
EXTENDS Integers, Sequences, FiniteSets

CONSTANTS CacheClient, Key,
          Ttls,        \* times to live in seconds, None for no expiry
          NoTtl,       \* ttl: None
          Skew,        \* how far apart the clocks of the hosts are, in seconds
          MaxSeconds,  \* bound: the time
          MaxSets,     \* bound: entries stored
          Forever      \* u64::MAX, scaled down; it is the largest number

ASSUME CacheAssumption ==
  /\ Ttls \subseteq Nat \cup {NoTtl} /\ NoTtl \notin Nat
  /\ Forever \in Nat /\ \A t \in Ttls \ {NoTtl} : t < Forever
  /\ MaxSeconds \in Nat /\ Skew \in Nat /\ MaxSeconds + Skew < Forever

VARIABLES now,      \* seconds; no client sees them
          store,    \* Key -> a string of the server: Nothing, Junk or an entry
          doing,    \* what a client is doing, with the key
          entries,  \* how many entries were made; each is numbered
          answers   \* per client its last get: what it found, when, and what it answered

cacheVars == <<now, store, doing, entries, answers>>

Nothing == [id |-> 0]
Junk == [id |-> -1]
Decodes(e) == e.id > 0
NoAnswer == [found |-> Nothing, at |-> 0, answer |-> 0]
Idle == [at |-> "idle"]

CacheInit ==
  /\ now = 0
  /\ store = [k \in Key |-> Nothing]
  /\ doing = [c \in CacheClient |-> Idle]
  /\ entries = 0
  /\ answers = [c \in CacheClient |-> NoAnswer]

Becomes(c, p) == doing' = [doing EXCEPT ![c] = p]

\* Mutant: the sum wraps.
SaturatingAdd_wraps(a, b) == (a + b) % (Forever + 1)

\* stored_at_epoch.saturating_add(ttl_secs)
SaturatingAdd(a, b) == IF a + b > Forever THEN Forever ELSE a + b

\* What unix_now() may return on some host.
UnixNow == now .. now + Skew

Expired(e, t) == SaturatingAdd(e.stored_at, e.ttl_secs) <= t
Valid(e, t) == Decodes(e) /\ ~Expired(e, t)

Tick == now < MaxSeconds /\ now' = now + 1 /\ UNCHANGED <<store, doing, entries, answers>>

-----------------------------------------------------------------------------

\* store: the envelope is made with the host's clock, which says stamp (made is not in
\* it: the moment, for the properties) ...
MakeEnvelope(c, k, ttl, stamp) ==
  /\ doing[c] = Idle
  /\ entries < MaxSets
  /\ entries' = entries + 1
  /\ Becomes(c, [at |-> "set", key |-> k,
                 envelope |-> [id |-> entries + 1, made |-> now, stored_at |-> stamp,
                               ttl_secs |-> IF ttl = NoTtl THEN Forever ELSE ttl]])
  /\ UNCHANGED <<now, store, answers>>

\* ... and SET takes effect when it arrives.
SetArrives(c) ==
  /\ doing[c].at = "set"
  /\ store' = [store EXCEPT ![doing[c].key] = doing[c].envelope]
  /\ Becomes(c, Idle)
  /\ UNCHANGED <<now, entries, answers>>

\* load: GET; nothing there is a miss.
GetMisses(c, k) ==
  /\ doing[c] = Idle
  /\ store[k] = Nothing
  /\ answers' = [answers EXCEPT ![c] = [found |-> Nothing, at |-> now, answer |-> 0]]
  /\ UNCHANGED <<now, store, doing, entries>>

GetFinds(c, k) ==
  /\ doing[c] = Idle
  /\ store[k] # Nothing
  /\ Becomes(c, [at |-> "judge", key |-> k, found |-> store[k]])
  /\ UNCHANGED <<now, store, entries, answers>>

\* The envelope is decoded and judged with the host's clock, which says t by then.
Serves(c, t) ==
  /\ doing[c].at = "judge"
  /\ LET e == doing[c].found
     IN /\ Valid(e, t)
        /\ answers' = [answers EXCEPT ![c] = [found |-> e, at |-> now, answer |-> e.id]]
  /\ Becomes(c, Idle)
  /\ UNCHANGED <<now, store, entries>>

Condemns(c, t) ==
  /\ doing[c].at = "judge"
  /\ LET e == doing[c].found
     IN /\ ~Valid(e, t)
        /\ answers' = [answers EXCEPT ![c] = [found |-> e, at |-> now, answer |-> 0]]
  /\ Becomes(c, [at |-> "heal", key |-> doing[c].key])
  /\ UNCHANGED <<now, store, entries>>

\* heal: GETDEL whatever is under the key by now; a cleanup that fails is ignored.
Heals(c) ==
  /\ doing[c].at = "heal"
  /\ store' \in {store, [store EXCEPT ![doing[c].key] = Nothing]}
  /\ Becomes(c, Idle)
  /\ UNCHANGED <<now, entries, answers>>

\* consume: GETDEL, of any age; what does not decode is gone and reads as a miss.
Consumes(c, k) ==
  /\ doing[c] = Idle
  /\ store[k] # Nothing
  /\ store' = [store EXCEPT ![k] = Nothing]
  /\ UNCHANGED <<now, doing, entries, answers>>

\* raw: another writer's string under the key, which no envelope is.
RawSet(k) ==
  /\ store[k] # Junk
  /\ store' = [store EXCEPT ![k] = Junk]
  /\ UNCHANGED <<now, doing, entries, answers>>

\* The server restarts: its cache is empty.
Restart ==
  /\ \E k \in Key : store[k] # Nothing
  /\ store' = [k \in Key |-> Nothing]
  /\ UNCHANGED <<now, doing, entries, answers>>

CacheNext ==
  \/ Tick \/ Restart
  \/ \E k \in Key : RawSet(k)
  \/ \E c \in CacheClient :
       \/ SetArrives(c) \/ Heals(c)
       \/ \E t \in UnixNow : Serves(c, t) \/ Condemns(c, t)
       \/ \E k \in Key : \/ GetMisses(c, k) \/ GetFinds(c, k) \/ Consumes(c, k)
                        \/ \E ttl \in Ttls, t \in UnixNow : MakeEnvelope(c, k, ttl, t)

CacheSpec == CacheInit /\ [][CacheNext]_cacheVars

-----------------------------------------------------------------------------
\* Properties

\* A get answers a payload only within its time to live, and hides one it found only
\* when that is over, both up to what the clocks of the two hosts differ: an entry
\* without expiry is never hidden, and with one clock an entry of zero seconds is never
\* answered (Envelope::expired, load).
AnswersAreTimely ==
  \A c \in CacheClient :
    LET a == answers[c]
        e == a.found
    IN Decodes(e) =>
         IF a.answer = e.id
         THEN e.ttl_secs = Forever \/ a.at < e.made + e.ttl_secs + Skew
         ELSE e.ttl_secs # Forever /\ a.at + Skew >= e.made + e.ttl_secs
=============================================================================
