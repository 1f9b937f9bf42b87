------------------------ MODULE RecoveryRounds_proofs ------------------------
(***************************************************************************)
(* For every set of Deployments, of configurations and annotations, every  *)
(* TTL and latency: how old the data is that a round decides on, and what  *)
(* it recovers.                                                            *)
(***************************************************************************)
EXTENDS RecoveryRounds, TLAPS

-----------------------------------------------------------------------------
(* The inductive invariant. *)

\* Only with a cache is something read for it.
CacheIsUsed ==
  ~Caching => refresh = NoRead /\ pc \notin {"keeplist", "keep"}

\* What an entry holds was true at most one request before it was stored.
Aged(entries) ==
  \A d \in Deployments :
    entries[d].object # "none" =>
      entries[d].age < TTL /\ entries[d].read <= entries[d].age + Latency

EntriesAge == Aged(cache)

\* What is enough for a Deployment the cache lists.
AnnotatedForIt(d) == spec[d].optIn # "none" \/ spec[d].enabled = "true"

Participates(d) == d \in Managed \/ (Caching /\ AnnotatedForIt(d))

\* A round visits only Deployments that take part.
VisitsParticipants ==
  /\ \A d \in todo : Participates(d)
  /\ pc \in {"check", "keep", "attempt", "recovering"} => Participates(target)
  /\ pc = "recovering" => RecoveryEnabled(target)

Inv == TypeOK /\ CacheIsUsed /\ EntriesAge /\ VisitsParticipants

-----------------------------------------------------------------------------
(* Lemmas about the data. *)

LEMMA NoReadTyped == NoRead \in Reads /\ NoRead.age = 0
BY TimeAssumption DEF NoRead, Reads

LEMMA NoEntryTyped == NoEntry \in Entries /\ NoEntry.object = "none"
BY TimeAssumption DEF NoEntry, Entries

\* What the API server answers is a read.
LEMMA ListReadTyped == api \in [Deployments -> Objects] => ListRead \in Reads
BY TimeAssumption DEF ListRead, Reads, Objects

LEMMA GetReadTyped ==
  api \in [Deployments -> Objects] /\ target \in Deployments => GetRead(target) \in Reads
BY TimeAssumption DEF GetRead, Reads, NoRead, Objects

LEMMA OlderTyped ==
  ASSUME NEW reads \in Reads, reads.age < Latency
  PROVE  Older(reads) \in Reads /\ (reads = NoRead => Older(reads) = NoRead)
BY TimeAssumption DEF Older, Reads

\* An entry gets older together with what it was true for, until it is dropped.
LEMMA AgingTyped ==
  ASSUME NEW e \in Entries,
         e.object # "none" => e.read <= e.age + Latency
  PROVE  /\ Aging(e) \in Entries
         /\ e = NoEntry => Aging(e) = NoEntry
         /\ Aging(e).object # "none" =>
              Aging(e).age < TTL /\ Aging(e).read <= Aging(e).age + Latency
<1>1. CASE e.object # "none" /\ e.age + 1 < TTL
  BY <1>1, TimeAssumption, NoEntryTyped DEF Aging, Entries
<1>2. CASE ~(e.object # "none" /\ e.age + 1 < TTL)
  BY <1>2, NoEntryTyped DEF Aging
<1> QED
  BY <1>1, <1>2

\* A store leaves entries, each of them no older than what it was stored from.
LEMMA StoredTyped ==
  ASSUME TypeOK, EntriesAge, NEW reads \in Reads
  PROVE  Stored(reads) \in [Deployments -> Entries] /\ Aged(Stored(reads))
<1> DEFINE st == Stored(reads)
<1>1. \A d \in Deployments :
        st[d] = IF reads.objects[d] = "none" THEN cache[d]
                ELSE [object |-> reads.objects[d], age |-> 0, read |-> reads.age]
  BY DEF Stored
<1>2. st = [d \in Deployments |-> st[d]]
  BY DEF Stored
<1> HIDE DEF st
<1>3. ASSUME NEW d \in Deployments
      PROVE  /\ st[d] \in Entries
             /\ st[d].object # "none" =>
                  st[d].age < TTL /\ st[d].read <= st[d].age + Latency
  <2>1. CASE reads.objects[d] = "none"
    BY <1>1, <2>1 DEF TypeOK, EntriesAge, Aged, Caching
  <2>2. CASE reads.objects[d] # "none"
    <3>1. reads.objects[d] \in Objects \cup {"none"} /\ reads.age \in 0 .. Latency
      BY DEF Reads
    <3>2. st[d] = [object |-> reads.objects[d], age |-> 0, read |-> reads.age]
      BY <1>1, <2>2
    <3> QED
      BY <3>1, <3>2, TimeAssumption DEF Entries
  <2> QED
    BY <2>1, <2>2
<1>4. st \in [Deployments -> Entries] /\ Aged(st)
  BY <1>2, <1>3 DEF Aged
<1> QED
  BY <1>4 DEF st

LEMMA ManagedAreDeployments == Managed \subseteq Deployments
BY NamesAssumption DEF Managed

\* Who takes part does not change.
LEMMA SameParticipants ==
  ASSUME UNCHANGED static
  PROVE  /\ config' = config /\ spec' = spec
         /\ Caching' <=> Caching
         /\ \A d : (Participates(d))' <=> Participates(d)
         /\ \A d : (RecoveryEnabled(d))' <=> RecoveryEnabled(d)
BY DEF static, Participates, Managed, AnnotatedForIt, Caching, RecoveryEnabled

\* A candidate's annotations ask for the recovery.
LEMMA CandidateAsks ==
  ASSUME NEW d, NEW object, isRecoveryCandidate(d, object)
  PROVE  AnnotatedForIt(d) /\ object # "none"
BY DEF isRecoveryCandidate, AnnotatedForIt, OnFargate

-----------------------------------------------------------------------------
(* What a list of Deployments leads to. *)

\* The cache is empty as long as there is none.
NoCache(entries) == ~Caching => \A d \in Deployments : entries[d] = NoEntry

LEMMA VisitKeeps ==
  ASSUME Inv, UNCHANGED <<static, api>>,
         NEW objects, NEW entries \in [Deployments -> Entries], NEW since \in 0 .. TTL + 1,
         Visit(objects, entries, since), NoCache(entries), Aged(entries),
         \A d \in Deployments : isRecoveryCandidate(d, objects[d]) => Participates(d)
  PROVE  Inv'
<1> DEFINE candidates == {d \in Deployments : isRecoveryCandidate(d, objects[d])}
<1>0. /\ config' = config /\ spec' = spec /\ api' = api /\ (Caching' <=> Caching)
      /\ \A d : Participates(d)' <=> Participates(d)
  BY SameParticipants
<1>t. /\ config \in Config /\ spec \in [Deployments -> Annotations]
      /\ api \in [Deployments -> Objects] /\ refresh \in Reads /\ target \in Deployments
  BY DEF Inv, TypeOK, Caching
<1>1. CASE Panic
  <2> DEFINE empty == [d \in Deployments |-> NoEntry]
  <2>1. empty \in [Deployments -> Entries] /\ \A d \in Deployments : empty[d] = NoEntry
    BY NoEntryTyped
  <2>2. /\ cache' = empty /\ lastRefresh' = TTL + 1 /\ lastRefresh' \in 0 .. TTL + 1
        /\ refresh' = NoRead /\ held' = NoRead /\ pc' = "idle" /\ todo' = {}
        /\ target' = target
    BY <1>1, TimeAssumption DEF Panic
  <2> HIDE DEF empty
  <2>3. TypeOK'
    BY <1>0, <1>t, <2>1, <2>2, NoReadTyped DEF TypeOK, Steps
  <2>4. CacheIsUsed' /\ EntriesAge'
    BY <2>1, <2>2, NoEntryTyped DEF CacheIsUsed, EntriesAge, Aged
  <2>5. VisitsParticipants'
    BY <2>2 DEF VisitsParticipants
  <2> QED
    BY <2>3, <2>4, <2>5 DEF Inv
<1>2. CASE /\ pc' \in {"idle", "next"}
           /\ todo' = candidates
           /\ held' = NoRead
           /\ cache' = entries /\ lastRefresh' = since
           /\ UNCHANGED <<refresh, target>>
  <2>1. candidates \subseteq Deployments /\ \A d \in candidates : Participates(d)
    OBVIOUS
  <2> HIDE DEF candidates
  <2>2. TypeOK'
    BY <1>0, <1>t, <1>2, <2>1, NoReadTyped DEF TypeOK, Steps, NoCache, Caching
  <2>3. CacheIsUsed' /\ EntriesAge'
    BY <1>0, <1>2 DEF Inv, CacheIsUsed, EntriesAge, Aged, Caching
  <2>4. VisitsParticipants'
    BY <1>0, <1>2, <2>1 DEF VisitsParticipants
  <2> QED
    BY <2>2, <2>3, <2>4 DEF Inv
<1> QED
  BY <1>1, <1>2 DEF Visit

-----------------------------------------------------------------------------
(* The invariant holds at the beginning, and every action keeps it. *)

LEMMA InitInv == Init => Inv
<1> SUFFICES ASSUME Init PROVE Inv
  OBVIOUS
<1>1. PICK s \in Settings : config = s.config /\ spec = s.spec
  BY DEF Init
<1>2. config \in Config /\ spec \in [Deployments -> Annotations]
  BY <1>1, SettingsAssumption
<1>3. api \in [Deployments -> Objects]
  BY DEF Init, Objects
<1>4. cache \in [Deployments -> Entries] /\ \A d \in Deployments : cache[d] = NoEntry
  BY NoEntryTyped DEF Init
<1>5. TypeOK
  BY <1>2, <1>3, <1>4, NoReadTyped, NamesAssumption, TimeAssumption DEF Init, TypeOK, Steps
<1>6. CacheIsUsed /\ EntriesAge /\ VisitsParticipants
  BY <1>4, NoEntryTyped DEF Init, CacheIsUsed, EntriesAge, Aged, VisitsParticipants
<1> QED
  BY <1>5, <1>6 DEF Inv

\* What steps that do not touch the Deployment visited, nor end a visit, have in
\* common: the rest of the invariant follows from the cache's part.
LEMMA SameVisits ==
  ASSUME VisitsParticipants, UNCHANGED <<static, pc, todo, target>>
  PROVE  VisitsParticipants'
BY SameParticipants DEF VisitsParticipants

\* RefreshRead: what is read is on its way to a cache there is.
LEMMA RefreshReadInv == Inv /\ RefreshRead => Inv'
<1> SUFFICES ASSUME Inv, RefreshRead PROVE Inv'
  OBVIOUS
<1>1. ListRead \in Reads
  BY ListReadTyped DEF Inv, TypeOK
<1>2. UNCHANGED static /\ (Caching' <=> Caching) /\ Caching
  BY SameParticipants DEF RefreshRead
<1>3. TypeOK'
  BY <1>1, <1>2 DEF Inv, TypeOK, RefreshRead, static, Caching
<1>4. CacheIsUsed' /\ EntriesAge'
  BY <1>2 DEF Inv, CacheIsUsed, EntriesAge, Aged, RefreshRead
<1>5. VisitsParticipants'
  BY SameVisits DEF Inv, RefreshRead
<1> QED
  BY <1>3, <1>4, <1>5 DEF Inv

\* RefreshEnd: a store leaves entries as old as the request at most.
LEMMA RefreshEndInv == Inv /\ RefreshEnd => Inv'
<1> SUFFICES ASSUME Inv, RefreshEnd PROVE Inv'
  OBVIOUS
<1>1. Stored(refresh) \in [Deployments -> Entries] /\ Aged(Stored(refresh))
  BY StoredTyped DEF Inv, TypeOK
<1>2. UNCHANGED static /\ (Caching' <=> Caching) /\ Caching
  BY SameParticipants DEF RefreshEnd, Inv, CacheIsUsed
<1>3. cache' \in [Deployments -> Entries] /\ lastRefresh' \in 0 .. TTL + 1 /\ EntriesAge'
  <2>1. CASE cache' = Stored(refresh) /\ lastRefresh' = 0
    BY <1>1, <2>1, TimeAssumption DEF EntriesAge, Aged
  <2>2. CASE UnchangedCache
    BY <2>2 DEF UnchangedCache, Inv, TypeOK, EntriesAge, Aged
  <2> QED
    BY <2>1, <2>2 DEF RefreshEnd
<1>4. TypeOK'
  BY <1>2, <1>3, NoReadTyped DEF Inv, TypeOK, RefreshEnd, static, Caching
<1>5. CacheIsUsed'
  BY <1>2 DEF CacheIsUsed
<1>6. VisitsParticipants'
  BY SameVisits DEF Inv, RefreshEnd
<1> QED
  BY <1>3, <1>4, <1>5, <1>6 DEF Inv

\* Tick: an entry and what it was true for get older together, and the entry is
\* dropped when it expires.
LEMMA TickInv == Inv /\ Tick => Inv'
<1> SUFFICES ASSUME Inv, Tick PROVE Inv'
  OBVIOUS
<1>1. UNCHANGED static /\ (Caching' <=> Caching)
  BY SameParticipants DEF Tick
<1>2. refresh' \in Reads /\ held' \in Reads
      /\ (refresh = NoRead => refresh' = NoRead) /\ (held = NoRead => held' = NoRead)
  BY OlderTyped DEF Inv, TypeOK, Tick
<1>3. \A d \in Deployments : cache'[d] = Aging(cache[d])
  BY DEF Tick
<1>4. /\ cache' \in [Deployments -> Entries] /\ EntriesAge'
      /\ \A d \in Deployments : cache[d] = NoEntry => cache'[d] = NoEntry
  <2>1. cache \in [Deployments -> Entries]
    BY DEF Inv, TypeOK, Caching
  <2>2. ASSUME NEW d \in Deployments
        PROVE  /\ cache'[d] \in Entries
               /\ cache[d] = NoEntry => cache'[d] = NoEntry
               /\ cache'[d].object # "none" =>
                    cache'[d].age < TTL /\ cache'[d].read <= cache'[d].age + Latency
    BY <1>3, <2>1, AgingTyped DEF Inv, EntriesAge, Aged
  <2>3. cache' = [d \in Deployments |-> cache'[d]]
    BY DEF Tick
  <2> QED
    BY <2>2, <2>3 DEF EntriesAge, Aged
<1>5. lastRefresh' \in 0 .. TTL + 1
  BY TimeAssumption DEF Inv, TypeOK, Tick
<1>6. TypeOK'
  BY <1>1, <1>2, <1>3, <1>4, <1>5 DEF Inv, TypeOK, Tick, static, Caching
<1>7. CacheIsUsed'
  BY <1>1, <1>2 DEF Inv, CacheIsUsed, Tick
<1>8. VisitsParticipants'
  BY SameVisits DEF Inv, Tick
<1> QED
  BY <1>4, <1>6, <1>7, <1>8 DEF Inv

\* Migrate and CooldownEnds change the API server alone.
LEMMA OthersInv ==
  ASSUME Inv, NEW d \in Deployments, Migrate(d) \/ CooldownEnds(d)
  PROVE  Inv'
<1>1. /\ UNCHANGED <<static, cache, lastRefresh, refresh, pc, todo, target, held>>
      /\ api' \in [Deployments -> Objects]
  BY DEF Inv, TypeOK, Caching, Migrate, CooldownEnds, Objects
<1>2. TypeOK' /\ CacheIsUsed' /\ EntriesAge'
  BY <1>1 DEF Inv, TypeOK, CacheIsUsed, EntriesAge, Aged, Caching, static
<1>3. VisitsParticipants'
  BY <1>1, SameVisits DEF Inv
<1> QED
  BY <1>2, <1>3 DEF Inv

\* List: what the cache lists takes part if its annotations ask for it.
LEMMA ListInv == Inv /\ List => Inv'
<1> SUFFICES ASSUME Inv, List PROVE Inv'
  OBVIOUS
<1>0. Caching /\ UNCHANGED <<static, api>> /\ (Caching' <=> Caching)
  BY SameParticipants DEF List
<1>1. CASE Visit([d \in Deployments |-> cache[d].object], cache, lastRefresh)
  <2> DEFINE objects == [d \in Deployments |-> cache[d].object]
  <2>1. \A d \in Deployments : isRecoveryCandidate(d, objects[d]) => Participates(d)
    BY <1>0, CandidateAsks DEF Participates
  <2>2. /\ cache \in [Deployments -> Entries] /\ lastRefresh \in 0 .. TTL + 1
        /\ NoCache(cache) /\ Aged(cache)
    BY DEF Inv, TypeOK, NoCache, EntriesAge, Caching
  <2> HIDE DEF objects
  <2>3. Visit(objects, cache, lastRefresh)
    BY <1>1 DEF objects
  <2> QED
    BY <1>0, <2>1, <2>2, <2>3, VisitKeeps
<1>2. CASE /\ pc' = "keeplist"
           /\ held' = ListRead
           /\ UNCHANGED <<cache, lastRefresh, refresh, todo, target>>
  <2>1. ListRead \in Reads
    BY ListReadTyped DEF Inv, TypeOK, Caching
  <2>2. TypeOK' /\ CacheIsUsed' /\ EntriesAge'
    BY <1>0, <1>2, <2>1
       DEF Inv, TypeOK, CacheIsUsed, EntriesAge, Aged, Caching, static, Steps
  <2>3. VisitsParticipants'
    BY <1>0, <1>2, SameParticipants DEF Inv, VisitsParticipants
  <2> QED
    BY <2>2, <2>3 DEF Inv
<1>3. CASE /\ pc' = "discover"
           /\ UNCHANGED <<cache, lastRefresh, refresh, todo, target, held>>
  <2>1. pc = "idle"
    BY DEF List, Begins
  <2>2. TypeOK' /\ CacheIsUsed' /\ EntriesAge'
    BY <1>0, <1>3, <2>1
       DEF Inv, TypeOK, CacheIsUsed, EntriesAge, Aged, Caching, static, Steps
  <2>3. VisitsParticipants'
    BY <1>0, <1>3, SameParticipants DEF Inv, VisitsParticipants
  <2> QED
    BY <2>2, <2>3 DEF Inv
<1> QED
  BY <1>1, <1>2, <1>3 DEF List

LEMMA KeepListInv == Inv /\ KeepList => Inv'
<1> SUFFICES ASSUME Inv, KeepList PROVE Inv'
  OBVIOUS
<1>0. Caching /\ UNCHANGED <<static, api>>
  BY DEF KeepList, Inv, CacheIsUsed
<1>1. \A d \in Deployments : isRecoveryCandidate(d, held.objects[d]) => Participates(d)
  BY <1>0, CandidateAsks DEF Participates
<1>2. held \in Reads
  BY DEF Inv, TypeOK, Caching
<1>3. /\ Stored(held) \in [Deployments -> Entries] /\ Aged(Stored(held))
      /\ NoCache(Stored(held)) /\ 0 \in 0 .. TTL + 1
  BY <1>0, <1>2, StoredTyped, TimeAssumption DEF Inv, NoCache
<1>4. Visit(held.objects, Stored(held), 0)
  BY DEF KeepList
<1> QED
  BY <1>0, <1>1, <1>3, <1>4, VisitKeeps

\* Discover: what is found is managed, and what is managed takes part.
LEMMA DiscoverInv == Inv /\ Discover => Inv'
<1> SUFFICES ASSUME Inv, Discover PROVE Inv'
  OBVIOUS
<1>0. UNCHANGED <<static, api>> /\ (Caching' <=> Caching)
  BY SameParticipants DEF Discover
<1>p. pc \in {"discover", "idle"}
  BY DEF Discover, Begins
<1>1. ASSUME NEW found \in SUBSET Managed, Visited(found)
      PROVE  Inv'
  <2>1. found \subseteq Deployments /\ \A d \in found : Participates(d)
    BY ManagedAreDeployments DEF Participates
  <2>2. CASE Optimised
    <3> DEFINE objects == [d \in Deployments |-> IF d \in found THEN api[d] ELSE "none"]
    <3>1. \A d \in Deployments : isRecoveryCandidate(d, objects[d]) => Participates(d)
      BY <2>1, CandidateAsks
    <3>2. /\ cache \in [Deployments -> Entries] /\ lastRefresh \in 0 .. TTL + 1
          /\ NoCache(cache) /\ Aged(cache)
      BY DEF Inv, TypeOK, NoCache, EntriesAge, Caching
    <3> HIDE DEF objects
    <3>3. Visit(objects, cache, lastRefresh)
      BY <1>1, <2>2 DEF Visited, objects
    <3> QED
      BY <1>0, <3>1, <3>2, <3>3, VisitKeeps
  <2>3. CASE ~Optimised
    <3>1. /\ pc' \in {"idle", "next"} /\ todo' = found
          /\ UNCHANGED <<cache, lastRefresh, refresh, target, held>>
      BY <1>1, <2>3 DEF Visited, UnchangedCache
    <3>2. TypeOK' /\ CacheIsUsed' /\ EntriesAge'
      BY <1>0, <1>p, <2>1, <3>1
         DEF Inv, TypeOK, CacheIsUsed, EntriesAge, Aged, Caching, static, Steps
    <3>3. VisitsParticipants'
      BY <1>0, <2>1, <3>1, SameParticipants DEF VisitsParticipants
    <3> QED
      BY <3>2, <3>3 DEF Inv
  <2> QED
    BY <2>2, <2>3
<1>2. ASSUME RoundEnds, UnchangedCache, UNCHANGED refresh
      PROVE  Inv'
  <2>1. /\ pc' = "idle" /\ todo' = {}
        /\ UNCHANGED <<cache, lastRefresh, refresh, target, held>>
    BY <1>2 DEF RoundEnds, UnchangedCache
  <2>2. TypeOK' /\ CacheIsUsed' /\ EntriesAge'
    BY <1>0, <1>p, <2>1
       DEF Inv, TypeOK, CacheIsUsed, EntriesAge, Aged, Caching, static, Steps
  <2>3. VisitsParticipants'
    BY <2>1 DEF VisitsParticipants
  <2> QED
    BY <2>2, <2>3 DEF Inv
<1> QED
  BY <1>1, <1>2 DEF Discover

LEMMA NextDeploymentInv == Inv /\ NextDeployment => Inv'
<1> SUFFICES ASSUME Inv, NextDeployment PROVE Inv'
  OBVIOUS
<1>0. UNCHANGED <<static, api, cache, lastRefresh, refresh>> /\ (Caching' <=> Caching)
  BY SameParticipants DEF NextDeployment
<1>1. /\ pc = "next" /\ held' = held
      /\ pc' \in {"check", "attempt", "idle"}
      /\ \/ target' \in todo /\ todo' \subseteq todo
         \/ pc' = "idle" /\ target' = target /\ todo' = {}
  BY DEF NextDeployment, RoundEnds
<1>2. TypeOK' /\ CacheIsUsed' /\ EntriesAge'
  BY <1>0, <1>1
     DEF Inv, TypeOK, CacheIsUsed, EntriesAge, Aged, Caching, static, Steps
<1>3. VisitsParticipants'
  BY <1>0, <1>1, SameParticipants DEF Inv, VisitsParticipants
<1> QED
  BY <1>2, <1>3 DEF Inv

\* Whatever is decided, a visit goes on with the Deployment it has, or ends.
LEMMA DecideSteps ==
  ASSUME TypeOK, NEW object, Decide(object)
  PROVE  /\ todo' = todo
         /\ \/ pc' = "attempt" /\ target' = target
            \/ pc' = "next" /\ target' = Configured
BY DEF Decide

LEMMA CheckHitInv == Inv /\ CheckHit => Inv'
<1> SUFFICES ASSUME Inv, CheckHit PROVE Inv'
  OBVIOUS
<1>0. UNCHANGED <<static, api, cache, lastRefresh, refresh, held>> /\ (Caching' <=> Caching)
  BY SameParticipants DEF CheckHit
<1>1. /\ pc = "check" /\ todo' = todo
      /\ \/ pc' = "attempt" /\ target' = target
         \/ pc' = "next" /\ target' = Configured
  BY DecideSteps DEF CheckHit, Inv
<1>2. TypeOK' /\ CacheIsUsed' /\ EntriesAge'
  BY <1>0, <1>1, NamesAssumption
     DEF Inv, TypeOK, CacheIsUsed, EntriesAge, Aged, Caching, static, Steps
<1>3. VisitsParticipants'
  BY <1>0, <1>1, SameParticipants DEF Inv, VisitsParticipants
<1> QED
  BY <1>2, <1>3 DEF Inv

LEMMA CheckMissInv == Inv /\ CheckMiss => Inv'
<1> SUFFICES ASSUME Inv, CheckMiss PROVE Inv'
  OBVIOUS
<1>0. UNCHANGED <<static, api, cache, lastRefresh, refresh>> /\ (Caching' <=> Caching)
  BY SameParticipants DEF CheckMiss
<1>1. pc = "check" /\ GetRead(target) \in Reads
  BY GetReadTyped DEF CheckMiss, Inv, TypeOK, Caching
<1>2. /\ todo' = todo
      /\ \/ pc' = "keep" /\ Caching /\ held' = GetRead(target) /\ target' = target
         \/ pc' = "attempt" /\ held' = held /\ target' = target
         \/ pc' = "next" /\ held' = held /\ target' = Configured
  BY DecideSteps DEF CheckMiss, Inv
<1>3. TypeOK' /\ CacheIsUsed' /\ EntriesAge'
  BY <1>0, <1>1, <1>2, NamesAssumption
     DEF Inv, TypeOK, CacheIsUsed, EntriesAge, Aged, Caching, static, Steps
<1>4. VisitsParticipants'
  BY <1>0, <1>1, <1>2, SameParticipants DEF Inv, VisitsParticipants
<1> QED
  BY <1>3, <1>4 DEF Inv

LEMMA KeepInv == Inv /\ Keep => Inv'
<1> SUFFICES ASSUME Inv, Keep PROVE Inv'
  OBVIOUS
<1>0. UNCHANGED <<static, api, lastRefresh, refresh>> /\ Caching /\ (Caching' <=> Caching)
  BY SameParticipants DEF Keep, Inv, CacheIsUsed
<1>1. /\ pc = "keep" /\ cache' = Stored(held) /\ held' = NoRead /\ todo' = todo
      /\ \/ pc' = "attempt" /\ target' = target
         \/ pc' = "next" /\ target' = Configured
  BY DecideSteps DEF Keep, Inv
<1>2. Stored(held) \in [Deployments -> Entries] /\ Aged(Stored(held))
  BY StoredTyped DEF Inv, TypeOK
<1>3. TypeOK'
  BY <1>0, <1>1, <1>2, NamesAssumption, NoReadTyped
     DEF Inv, TypeOK, Caching, static, Steps
<1>4. CacheIsUsed' /\ EntriesAge'
  BY <1>0, <1>1, <1>2 DEF CacheIsUsed, EntriesAge, Aged
<1>5. VisitsParticipants'
  BY <1>0, <1>1, SameParticipants DEF Inv, VisitsParticipants
<1> QED
  BY <1>3, <1>4, <1>5 DEF Inv

\* The end of an attempt drops an entry and leaves the Deployment.
LEMMA AttemptEndsKeeps ==
  ASSUME Inv, AttemptEnds("next"), todo' = todo, api' \in [Deployments -> Objects],
         pc \in {"attempt", "recovering"}
  PROVE  Inv'
<1>0. UNCHANGED <<static, lastRefresh, refresh, held>> /\ (Caching' <=> Caching)
  BY SameParticipants DEF AttemptEnds
<1>1. /\ pc' = "next" /\ target' = Configured
      /\ cache' = IF Caching THEN [cache EXCEPT ![target] = NoEntry] ELSE cache
  BY DEF AttemptEnds
<1>2. /\ cache' \in [Deployments -> Entries]
      /\ \A d \in Deployments : cache'[d] = NoEntry \/ cache'[d] = cache[d]
  BY <1>1, NoEntryTyped DEF Inv, TypeOK, Caching
<1>3. TypeOK'
  BY <1>0, <1>1, <1>2, NamesAssumption DEF Inv, TypeOK, Caching, static, Steps
<1>4. CacheIsUsed'
  BY <1>0, <1>1 DEF Inv, CacheIsUsed
<1>5. EntriesAge'
  BY <1>2, NoEntryTyped DEF Inv, EntriesAge, Aged
<1>6. VisitsParticipants'
  BY <1>0, <1>1, SameParticipants DEF Inv, VisitsParticipants
<1> QED
  BY <1>3, <1>4, <1>5, <1>6 DEF Inv

\* Attempt: a recovery begins of a Deployment whose recovery is not disabled.
LEMMA AttemptInv == Inv /\ Attempt => Inv'
<1> SUFFICES ASSUME Inv, Attempt PROVE Inv'
  OBVIOUS
<1>0. pc = "attempt" /\ todo' = todo /\ api' = api /\ api \in [Deployments -> Objects]
  BY DEF Attempt, Inv, TypeOK, Caching
<1>1. CASE /\ RecoveryEnabled(target)
           /\ pc' = "recovering"
           /\ UNCHANGED <<static, cache, lastRefresh, refresh, target, held>>
  <2>0. Caching' <=> Caching
    BY <1>1, SameParticipants
  <2>1. TypeOK' /\ CacheIsUsed' /\ EntriesAge'
    BY <1>0, <1>1, <2>0
       DEF Inv, TypeOK, CacheIsUsed, EntriesAge, Aged, Caching, static, Steps
  <2>2. VisitsParticipants'
    BY <1>0, <1>1, SameParticipants DEF Inv, VisitsParticipants
  <2> QED
    BY <2>1, <2>2 DEF Inv
<1>2. CASE AttemptEnds("next")
  BY <1>0, <1>2, AttemptEndsKeeps
<1> QED
  BY <1>1, <1>2 DEF Attempt

LEMMA RecoverInv == Inv /\ Recover => Inv'
<1> SUFFICES ASSUME Inv, Recover PROVE Inv'
  OBVIOUS
<1>1. api' \in [Deployments -> Objects]
  BY DEF Recover, Inv, TypeOK, Caching
<1> QED
  BY <1>1, AttemptEndsKeeps DEF Recover

LEMMA StutterInv == Inv /\ UNCHANGED vars => Inv'
BY SameParticipants
   DEF vars, Inv, TypeOK, CacheIsUsed, EntriesAge, Aged, Caching, static, VisitsParticipants

LEMMA StepInv == Inv /\ [Next]_vars => Inv'
<1>1. Inv /\ Round => Inv'
  BY ListInv, KeepListInv, DiscoverInv, NextDeploymentInv, CheckHitInv, CheckMissInv,
     KeepInv, AttemptInv, RecoverInv DEF Round
<1>2. Inv /\ Environment => Inv'
  BY TickInv, RefreshReadInv, RefreshEndInv, OthersInv DEF Environment
<1> QED
  BY <1>1, <1>2, StutterInv DEF Next

LEMMA AlwaysInv == Spec => []Inv
BY InitInv, StepInv, PTL DEF Spec

-----------------------------------------------------------------------------
(* The results. *)

\* Every reachable state has its type; in particular nothing is cached without a
\* cache, and what a read has brought is held only until it is stored.
THEOREM RoundsTyped == Spec => []TypeOK
<1>1. Inv => TypeOK
  BY DEF Inv
<1> QED
  BY <1>1, AlwaysInv, PTL

\* What a round decides on was true no longer ago than the TTL and one request,
\* whatever the order in which the round and the background refresh store what
\* they have read.
THEOREM StalenessIsBounded == Spec => []StaleIsBounded
<1>1. Inv => StaleIsBounded
  <2> SUFFICES ASSUME Inv, NEW d \in Deployments, Hit(d)
               PROVE  cache[d].read < TTL + Latency
    BY DEF StaleIsBounded
  <2>1. cache[d] \in Entries
    BY DEF Inv, TypeOK, Caching
  <2>2. cache[d].age < TTL /\ cache[d].read <= cache[d].age + Latency
    BY DEF Inv, EntriesAge, Aged, Hit
  <2> QED
    BY <2>1, <2>2, TimeAssumption DEF Entries
<1> QED
  BY <1>1, AlwaysInv, PTL

\* Without a cache only the Deployment of single mode, or one with the opt-in
\* annotation, is recovered, by either manager and on whatever path of discovery,
\* rate limiter and batches the round found it.
THEOREM RecoversOptedInWithoutCache ==
  (\A s \in Settings : s.config.caching = "off") => (Spec => []RecoversOnlyOptedIn)
<1> SUFFICES ASSUME \A s \in Settings : s.config.caching = "off"
             PROVE  Spec => []RecoversOnlyOptedIn
  OBVIOUS
<1>1. Init => ~Caching
  BY DEF Init, Caching
<1>2. ~Caching /\ [Next]_vars => ~Caching'
  <2>1. [Next]_vars => UNCHANGED static
    BY DEF Next, Round, Environment, List, KeepList, Discover, NextDeployment, CheckHit,
           CheckMiss, Keep, Attempt, AttemptEnds, Recover, Tick, RefreshRead,
           RefreshEnd, Migrate, CooldownEnds, vars
  <2> QED
    BY <2>1, SameParticipants
<1>3. Inv /\ ~Caching => RecoversOnlyOptedIn
  <2> SUFFICES ASSUME Inv, ~Caching, pc = "recovering"
               PROVE  IF config.mode = "single" THEN target = Configured
                                                ELSE spec[target].optIn # "none"
    BY DEF RecoversOnlyOptedIn
  <2>1. target \in Managed
    BY DEF Inv, VisitsParticipants, Participates
  <2> QED
    BY <2>1 DEF Managed
<1> QED
  BY <1>1, <1>2, <1>3, AlwaysInv, PTL DEF Spec

\* A recovery begins only of a Deployment that is on Fargate and out of its
\* cooldown at that moment, whatever the cache said when it was chosen.
THEOREM RecoveryBeginsWhenDue == Spec => BeginsOnlyWhenDue
<1> DEFINE P == pc # "recovering" /\ pc' = "recovering" => api[target'] = "due"
<1>1. Inv /\ [Next]_vars => P
  <2> SUFFICES ASSUME Inv, [Next]_vars, pc # "recovering", pc' = "recovering"
               PROVE  api[target'] = "due"
    OBVIOUS
  <2>1. CASE Attempt
    BY <2>1 DEF Attempt, AttemptEnds
  <2>2. ASSUME List \/ KeepList \/ Discover
        PROVE  FALSE
    <3>1. ASSUME NEW objects, NEW entries, NEW since, Visit(objects, entries, since)
          PROVE  pc' # "recovering"
      BY <3>1 DEF Visit, Panic
    <3>2. ASSUME NEW found, Visited(found)
          PROVE  pc' # "recovering"
      BY <3>1, <3>2 DEF Visited
    <3>3. List => pc' # "recovering"
      BY <3>1 DEF List
    <3>4. KeepList => pc' # "recovering"
      BY <3>1 DEF KeepList
    <3>5. Discover => pc' # "recovering"
      BY <3>2 DEF Discover, RoundEnds
    <3> QED
      BY <2>2, <3>3, <3>4, <3>5
  <2>3. ASSUME NextDeployment \/ CheckHit \/ CheckMiss \/ Keep
        PROVE  FALSE
    BY <2>3, DecideSteps DEF NextDeployment, RoundEnds, CheckHit, CheckMiss, Keep, Inv
  <2>4. CASE Recover
    BY <2>4 DEF Recover
  <2>5. CASE Environment \/ UNCHANGED vars
    BY <2>5 DEF Environment, Tick, RefreshRead, RefreshEnd, Migrate, CooldownEnds, vars
  <2> QED
    BY <2>1, <2>2, <2>3, <2>4, <2>5 DEF Next, Round
<1>2. Inv /\ [Next]_vars => [P]_vars
  BY <1>1
<1> QED
  BY <1>2, AlwaysInv, PTL DEF Spec, BeginsOnlyWhenDue

-----------------------------------------------------------------------------
(* Nobody is passed over. *)

Visiting == {"next", "check", "keep", "attempt", "recovering"}

\* A list of Deployments to visit belongs to a round that visits them.
ListIsVisited == todo # {} => pc \in Visiting

\* What is left of the list after a step, but for the Deployment it turns to.
TurnsTo == pc' \in {"check", "attempt"} /\ todo' = todo \ {target'}

LEMMA VisitLists ==
  ASSUME NEW objects, NEW entries, NEW since, Visit(objects, entries, since)
  PROVE  ListIsVisited'
BY DEF Visit, Panic, ListIsVisited, Visiting

\* A list step begins where no list is left; a step of the visit keeps the list or
\* turns to one of its Deployments; and the others do not touch it.
LEMMA StepTurns ==
  ASSUME Inv, ListIsVisited, [Next]_vars
  PROVE  /\ ListIsVisited'
         /\ todo = {} \/ todo' = todo \/ TurnsTo
<1>1. CASE List
  <2>1. todo = {}
    BY <1>1 DEF List, Begins, ListIsVisited, Visiting
  <2>2. CASE pc' \in {"keeplist", "discover"} /\ UNCHANGED todo
    BY <2>1, <2>2 DEF ListIsVisited
  <2>3. CASE \E objects, entries, since : Visit(objects, entries, since)
    BY <2>1, <2>3, VisitLists
  <2> QED
    BY <1>1, <2>2, <2>3 DEF List
<1>2. CASE KeepList
  BY <1>2, VisitLists DEF KeepList, ListIsVisited, Visiting
<1>3. CASE Discover
  <2>1. todo = {}
    BY <1>3 DEF Discover, Begins, ListIsVisited, Visiting
  <2>2. ASSUME NEW found, Visited(found) PROVE ListIsVisited'
    <3>1. CASE Optimised
      BY <2>2, <3>1, VisitLists DEF Visited
    <3>2. CASE ~Optimised
      BY <2>2, <3>2 DEF Visited, ListIsVisited, Visiting
    <3> QED
      BY <3>1, <3>2
  <2>3. RoundEnds => ListIsVisited'
    BY DEF RoundEnds, ListIsVisited
  <2> QED
    BY <1>3, <2>1, <2>2, <2>3 DEF Discover
<1>4. CASE NextDeployment
  <2>1. CASE todo = {} /\ RoundEnds
    BY <2>1 DEF RoundEnds, ListIsVisited
  <2>2. CASE \E d \in todo : /\ target' = d /\ todo' = todo \ {d}
                             /\ pc' = IF Optimised THEN "check" ELSE "attempt"
    BY <2>2 DEF TurnsTo, ListIsVisited, Visiting
  <2> QED
    BY <1>4, <2>1, <2>2 DEF NextDeployment
<1>5. CASE CheckHit \/ CheckMiss \/ Keep
  <2>1. todo' = todo /\ pc' \in Visiting
    BY <1>5, DecideSteps DEF CheckHit, CheckMiss, Keep, Inv, Visiting
  <2> QED
    BY <2>1 DEF ListIsVisited
<1>6. CASE Attempt \/ Recover
  BY <1>6 DEF Attempt, Recover, AttemptEnds, ListIsVisited, Visiting
<1>7. CASE Environment \/ UNCHANGED vars
  BY <1>7 DEF Environment, Tick, RefreshRead, RefreshEnd, Migrate, CooldownEnds, vars,
              ListIsVisited
<1> QED
  BY <1>1, <1>2, <1>3, <1>4, <1>5, <1>6, <1>7 DEF Next, Round

\* No Deployment a round has chosen is passed over: it stays on the list, whatever
\* becomes of the others and of the cache, until the round turns to it.  This is
\* the safety core of EveryDueIsTried.
THEOREM NobodyIsPassedOver ==
  Spec => [][\A d \in todo :
               d \in todo' \/ (target' = d /\ pc' \in {"check", "attempt"})]_vars
<1> DEFINE P == \A d \in todo :
                  d \in todo' \/ (target' = d /\ pc' \in {"check", "attempt"})
<1>1. Init => ListIsVisited
  BY DEF Init, ListIsVisited
<1>2. Inv /\ ListIsVisited /\ [Next]_vars => ListIsVisited'
  BY StepTurns
<1>3. Inv /\ ListIsVisited /\ [Next]_vars => [P]_vars
  BY StepTurns DEF TurnsTo
<1> QED
  BY <1>1, <1>2, <1>3, AlwaysInv, PTL DEF Spec

=============================================================================
