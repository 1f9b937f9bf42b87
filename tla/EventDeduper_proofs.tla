-------------------------- MODULE EventDeduper_proofs --------------------------
(***************************************************************************)
(* The deduplicator implements OncePerWindow, for every set of keys, every *)
(* TTL and every run of the clock.                                         *)
(***************************************************************************)
EXTENDS EventDeduper, TLAPS

\* Adding an entry to a map of naturals over keys gives such a map.
LEMMA WithType ==
  ASSUME NEW f, DOMAIN f \subseteq Keys, f \in [DOMAIN f -> Nat],
         NEW key \in Keys, NEW v \in Nat
  PROVE  /\ DOMAIN With(f, key, v) = DOMAIN f \cup {key}
         /\ DOMAIN With(f, key, v) \subseteq Keys
         /\ With(f, key, v) \in [DOMAIN With(f, key, v) -> Nat]
         /\ With(f, key, v)[key] = v
         /\ \A j \in DOMAIN f \ {key} : With(f, key, v)[j] = f[j]
<1>1. DOMAIN With(f, key, v) = DOMAIN f \cup {key}
  BY DEF With
<1>2. \A j \in DOMAIN f \cup {key} :
        With(f, key, v)[j] = IF j = key THEN v ELSE f[j]
  BY DEF With
<1>3. With(f, key, v) = [j \in DOMAIN f \cup {key} |-> With(f, key, v)[j]]
  BY DEF With
<1>4. \A j \in DOMAIN f \cup {key} : With(f, key, v)[j] \in Nat
  BY <1>2
<1>5. QED
  BY <1>1, <1>2, <1>3, <1>4

\* Dropping the expired entries leaves a map of naturals over keys.
LEMMA LiveType ==
  ASSUME TypeOK, NEW g, g = [k \in Live |-> entries[k]]
  PROVE  /\ DOMAIN g = Live
         /\ DOMAIN g \subseteq Keys
         /\ g \in [DOMAIN g -> Nat]
         /\ \A k \in Live : g[k] = entries[k]
BY DEF TypeOK, Live

\* The invariant holds initially and every step keeps it: the entries are the
\* keys let through less than TTL ago.
LEMMA InvInit == Init => Inv
BY DEF Init, Inv, TypeOK, MemoryExact

LEMMA DuplicateKeepsInv ==
  ASSUME Inv, NEW key \in Keys, Duplicate(key)
  PROVE  Inv'
<1> USE DEF Inv
<1>1. TypeOK'
  BY LiveType DEF TypeOK, Duplicate
<1>2. MemoryExact'
  <2>1. DOMAIN entries' = Live /\ \A k \in Live : entries'[k] = entries[k]
    BY LiveType DEF Duplicate
  <2>2. \A k \in DOMAIN accepted \ Live : accepted[k] + TTL <= now
    BY TTLAssumption DEF TypeOK, MemoryExact, Live
  <2>3. QED
    BY <2>1, <2>2 DEF MemoryExact, Duplicate, Live
<1>3. QED
  BY <1>1, <1>2

LEMMA MarkKeepsInv ==
  ASSUME Inv, NEW key \in Keys, Mark(key)
  PROVE  Inv'
<1> USE DEF Inv
<1> DEFINE g == [k \in Live |-> entries[k]]
<1>1. /\ DOMAIN g = Live /\ DOMAIN g \subseteq Keys /\ g \in [DOMAIN g -> Nat]
      /\ \A k \in Live : g[k] = entries[k]
  BY LiveType
<1>2. entries' = With(g, key, now + TTL) /\ accepted' = With(accepted, key, now)
      /\ now' = now /\ verdict' = "accept"
  BY DEF Mark
<1>3. now \in Nat /\ now + TTL \in Nat
  BY TTLAssumption DEF TypeOK
<1> HIDE DEF g
<1>4. /\ DOMAIN entries' = Live \cup {key} /\ DOMAIN entries' \subseteq Keys
      /\ entries' \in [DOMAIN entries' -> Nat]
      /\ entries'[key] = now + TTL
      /\ \A k \in Live \ {key} : entries'[k] = entries[k]
  <2>1. /\ DOMAIN With(g, key, now + TTL) = DOMAIN g \cup {key}
        /\ DOMAIN With(g, key, now + TTL) \subseteq Keys
        /\ With(g, key, now + TTL) \in [DOMAIN With(g, key, now + TTL) -> Nat]
        /\ With(g, key, now + TTL)[key] = now + TTL
        /\ \A j \in DOMAIN g \ {key} : With(g, key, now + TTL)[j] = g[j]
    BY <1>1, <1>3, WithType
  <2>2. QED
    BY <1>1, <1>2, <2>1
<1>5. /\ DOMAIN accepted' = DOMAIN accepted \cup {key}
      /\ DOMAIN accepted' \subseteq Keys
      /\ accepted' \in [DOMAIN accepted' -> Nat]
      /\ accepted'[key] = now
      /\ \A k \in DOMAIN accepted \ {key} : accepted'[k] = accepted[k]
  <2>1. /\ DOMAIN accepted \subseteq Keys
        /\ accepted \in [DOMAIN accepted -> Nat]
    BY DEF TypeOK
  <2>2. \A v \in Nat :
          /\ DOMAIN With(accepted, key, v) = DOMAIN accepted \cup {key}
          /\ DOMAIN With(accepted, key, v) \subseteq Keys
          /\ With(accepted, key, v) \in [DOMAIN With(accepted, key, v) -> Nat]
          /\ With(accepted, key, v)[key] = v
          /\ \A j \in DOMAIN accepted \ {key} :
               With(accepted, key, v)[j] = accepted[j]
    BY <2>1, WithType
  <2>3. QED
    BY <1>2, <1>3, <2>2
<1>6. TypeOK'
  BY <1>2, <1>3, <1>4, <1>5 DEF TypeOK
<1>7. MemoryExact'
  <2>1. \A k \in DOMAIN entries' :
          k \in DOMAIN accepted' /\ entries'[k] = accepted'[k] + TTL
    BY <1>4, <1>5 DEF MemoryExact, Live
  <2>2. \A k \in DOMAIN accepted' \ DOMAIN entries' : accepted'[k] + TTL <= now'
    <3>1. TAKE k \in DOMAIN accepted' \ DOMAIN entries'
    <3>2. k \in DOMAIN accepted /\ k # key /\ k \notin Live
      BY <1>4, <1>5
    <3>3. accepted[k] + TTL <= now
      BY <3>2, TTLAssumption DEF TypeOK, MemoryExact, Live
    <3>4. QED
      BY <1>2, <1>5, <3>2, <3>3
  <2>3. QED
    BY <2>1, <2>2 DEF MemoryExact
<1>8. QED
  BY <1>6, <1>7

LEMMA InvStep == Inv /\ [Next]_vars => Inv'
<1> SUFFICES ASSUME Inv, [Next]_vars PROVE Inv'
  OBVIOUS
<1>1. CASE Elapse
  BY <1>1, TTLAssumption DEF Elapse, Inv, TypeOK, MemoryExact
<1>2. ASSUME NEW key \in Keys, CheckAndMark(key) PROVE Inv'
  BY <1>2, DuplicateKeepsInv, MarkKeepsInv DEF CheckAndMark
<1>3. CASE UNCHANGED vars
  BY <1>3 DEF vars, Inv, TypeOK, MemoryExact
<1>4. QED
  BY <1>1, <1>2, <1>3 DEF Next

\* The deduplicator's map is always the exact memory of the last TTL.
THEOREM InvHolds == Spec => []Inv
BY InvInit, InvStep, PTL DEF Spec

\* What the code looks up in its map is what the abstract one remembers.
LEMMA LiveIsRecent ==
  ASSUME Inv, NEW key \in Keys
  PROVE  key \in Live <=> Abstract!Recent(key)
BY TTLAssumption DEF Inv, TypeOK, MemoryExact, Live, Abstract!Recent

LEMMA StepRefines ==
  Inv /\ [Next]_vars => [Abstract!Next]_Abstract!vars
<1> SUFFICES ASSUME Inv, [Next]_vars PROVE [Abstract!Next]_Abstract!vars
  OBVIOUS
<1>1. CASE Elapse
  BY <1>1 DEF Elapse, Inv, TypeOK, Abstract!Next, Abstract!Pass
<1>2. ASSUME NEW key \in Keys, Duplicate(key) PROVE Abstract!Next
  BY <1>2, LiveIsRecent DEF Duplicate, Abstract!Next, Abstract!Refuse
<1>3. ASSUME NEW key \in Keys, Mark(key) PROVE Abstract!Next
  BY <1>3, LiveIsRecent DEF Mark, With, Abstract!Next, Abstract!Accept
<1>4. CASE UNCHANGED vars
  BY <1>4 DEF vars, Abstract!vars
<1>5. QED
  BY <1>1, <1>2, <1>3, <1>4 DEF Next, CheckAndMark

\* An event is turned away exactly when its key was let through less than TTL
\* ago: the code implements OncePerWindow.
THEOREM ImplementsOncePerWindow == Spec => OncePerTTL
<1>1. Init => Abstract!Init
  BY DEF Init, Abstract!Init
<1>2. QED
  BY <1>1, StepRefines, InvHolds, PTL DEF Spec, OncePerTTL, Abstract!Spec

=============================================================================
