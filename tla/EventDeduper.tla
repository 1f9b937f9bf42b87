------------------------------ MODULE EventDeduper ------------------------------
(***************************************************************************)
(* The in-memory deduplicator of spot interruption events                  *)
(* (orchestrator/event_guard.go).  It remembers, for a key it has let      *)
(* through, when the memory expires, and forgets expired keys on every     *)
(* call.                                                                   *)
(***************************************************************************)
EXTENDS Integers

CONSTANTS
  Keys,     \* what buildSpotEventDedupKey can return
  TTL,      \* SpotEventDedupTTL
  MaxTime   \* bound on the clock

ASSUME TTLAssumption == TTL \in Nat \ {0}
ASSUME MaxTimeAssumption == MaxTime \in Nat

VARIABLES
  now,       \* the clock whose reading the caller passes
  entries,   \* entries[k]: when the memory of k expires
  verdict,   \* what the last call answered
  accepted   \* history: accepted[k] is when k was last let through

vars == <<now, entries, verdict, accepted>>

Init ==
  /\ now = 0
  /\ entries = [k \in {} |-> 0]
  /\ verdict = "none"
  /\ accepted = [k \in {} |-> 0]

\* Mutant: an entry at its very expiry still counts.
LiveThroughExpiry == {k \in DOMAIN entries : now <= entries[k]}

\* The keys the map remembers: an entry is dropped once now reaches its expiry.
Live == {k \in DOMAIN entries : now < entries[k]}

\* The map with an entry added or renewed.
With(f, k, v) == [j \in DOMAIN f \cup {k} |-> IF j = k THEN v ELSE f[j]]

\* Mutant: a duplicate renews the memory of its key.
DuplicateRenews(key) ==
  /\ key \in Live
  /\ entries' = With([k \in Live |-> entries[k]], key, now + TTL)
  /\ verdict' = "duplicate"
  /\ UNCHANGED <<now, accepted>>

Duplicate(key) ==
  /\ key \in Live
  /\ entries' = [k \in Live |-> entries[k]]
  /\ verdict' = "duplicate"
  /\ UNCHANGED <<now, accepted>>

Mark(key) ==
  /\ key \notin Live
  /\ entries' = With([k \in Live |-> entries[k]], key, now + TTL)
  /\ accepted' = With(accepted, key, now)
  /\ verdict' = "accept"
  /\ UNCHANGED now

CheckAndMark(key) == Duplicate(key) \/ Mark(key)

Elapse ==
  /\ now < MaxTime
  /\ now' = now + 1
  /\ UNCHANGED <<entries, verdict, accepted>>

Next == (\E key \in Keys : CheckAndMark(key)) \/ Elapse

Spec == Init /\ [][Next]_vars

-----------------------------------------------------------------------------

TypeOK ==
  /\ now \in Nat
  /\ DOMAIN entries \subseteq Keys
  /\ entries \in [DOMAIN entries -> Nat]
  /\ DOMAIN accepted \subseteq Keys
  /\ accepted \in [DOMAIN accepted -> Nat]
  /\ verdict \in {"none", "accept", "duplicate"}

\* The map is the memory of the last TTL and nothing else: an entry expires TTL
\* after its key was last let through, and a key without one was let through at
\* least TTL ago.
MemoryExact ==
  /\ \A k \in DOMAIN entries :
       k \in DOMAIN accepted /\ entries[k] = accepted[k] + TTL
  /\ \A k \in DOMAIN accepted \ DOMAIN entries : accepted[k] + TTL <= now

\* The inductive invariant.
Inv == TypeOK /\ MemoryExact

Abstract == INSTANCE OncePerWindow WITH Window <- TTL

\* The deduplicator implements OncePerWindow: an event is refused exactly when
\* its key was let through less than TTL ago.
OncePerTTL == Abstract!Spec

=============================================================================
