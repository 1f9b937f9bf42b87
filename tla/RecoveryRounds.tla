---------------------------- MODULE RecoveryRounds ----------------------------
(***************************************************************************)
(* The rounds of the recovery loop (recovery.go, optimized_recovery.go):   *)
(* which Deployments a round finds, on what data it decides, and whether   *)
(* each of them gets its turn.  What a recovery does to its Deployment is  *)
(* ComputeMigration; here it has a beginning and an outcome.               *)
(*                                                                         *)
(* With an optimisation configured the optimised manager runs the rounds.  *)
(* With caching its data comes from the deployment cache                   *)
(* (deployment_cache.go), which a background goroutine refreshes, and the  *)
(* list it starts from is the namespace, not what discovery manages.       *)
(*                                                                         *)
(* A definition whose comment begins with "Mutant" is a plausible mistake  *)
(* in the definition below it; no specification uses it.                   *)
(***************************************************************************)
EXTENDS Integers

CONSTANTS
  Deployments,  \* the Deployments of the namespace
  Configured,   \* DEPLOYMENT_NAME, the one of single mode
  Watched,      \* the one whose requests are answered some time
  Settings,     \* the configurations and annotations to start from
  TTL,          \* the cache's TTL, in ticks
  Latency       \* the longest a request may take, in ticks

Modes == {"single", "namespace", "cluster"}

\* limiter "empty": RATE_LIMITING_BURST is 0; batch "empty": BATCH_SIZE is not
\* positive.  Validate accepts both.
Config ==
  [mode : Modes, caching : {"off", "on"},
   limiter : {"off", "on", "empty"}, batch : {"off", "on", "empty"}]

\* optIn: the opt-in annotation; enabled: recovery-enabled, where "1" is a value
\* ParseBool takes for true; service: a Service selects the Deployment.
Annotations ==
  [optIn : {"true", "yes", "none"}, enabled : {"true", "1", "false", "none"},
   service : BOOLEAN]

ASSUME NamesAssumption == Configured \in Deployments /\ Watched \in Deployments
ASSUME SettingsAssumption ==
  Settings \subseteq [config : Config, spec : [Deployments -> Annotations]]
ASSUME TimeAssumption == TTL \in Nat \ {0} /\ Latency \in Nat \ {0}

VARIABLES
  config,       \* the configuration, as LoadConfig returned it
  spec,         \* the annotations and the Service of each Deployment
  api,          \* the Deployments on the API server
  cache,        \* DeploymentCache.deployments, without those that have expired
  lastRefresh,  \* the time since the last refresh of the whole list
  refresh,      \* the background refresh: what it has read and not stored yet
  pc,           \* where the round is
  todo,         \* the Deployments the round has still to visit
  target,       \* the Deployment it visits; Configured while it visits none
  held          \* what it has read for the cache and not stored yet

static == <<config, spec>>
vars == <<static, api, cache, lastRefresh, refresh, pc, todo, target, held>>

-----------------------------------------------------------------------------
(* Data. *)

\* On Spot; on Fargate less than the cooldown ago; on Fargate and due.
Objects == {"spot", "cooling", "due"}

\* What a request has read, and how long ago it did.
Reads == [objects : [Deployments -> Objects \cup {"none"}], age : 0 .. Latency]
NoRead == [objects |-> [d \in Deployments |-> "none"], age |-> 0]

\* What a List, and a Get, read at this moment.
ListRead == [objects |-> api, age |-> 0]
GetRead(d) == [NoRead EXCEPT !.objects[d] = api[d]]

\* age: the time since it was stored; read: the time since it was true.
Entries == [object : Objects \cup {"none"}, age : 0 .. TTL, read : Nat]
NoEntry == [object |-> "none", age |-> 0, read |-> 0]

Steps == {"idle", "keeplist", "discover", "next", "check", "keep",
          "attempt", "recovering"}

Caching == config.caching = "on"

Optimised == Caching \/ config.limiter # "off" \/ config.batch # "off"

TypeOK ==
  /\ config \in Config
  /\ spec \in [Deployments -> Annotations]
  /\ api \in [Deployments -> Objects]
  /\ cache \in [Deployments -> Entries]
  /\ lastRefresh \in 0 .. TTL + 1
  /\ refresh \in Reads
  /\ pc \in Steps
  /\ todo \subseteq Deployments
  /\ target \in Deployments
  /\ held \in Reads
  /\ held # NoRead => pc \in {"keeplist", "keep"}
  /\ ~Caching => \A d \in Deployments : cache[d] = NoEntry

Init ==
  /\ \E s \in Settings : config = s.config /\ spec = s.spec
  /\ api \in [Deployments -> {"spot", "due"}]
  /\ cache = [d \in Deployments |-> NoEntry]
  /\ lastRefresh = TTL + 1
  /\ refresh = NoRead
  /\ pc = "idle"
  /\ todo = {}
  /\ target = Configured
  /\ held = NoRead

-----------------------------------------------------------------------------
(* What the annotations and the configuration mean. *)

\* DiscoverManagedDeployments; it does not know cluster mode.
Managed ==
  CASE config.mode = "single" -> {Configured}
    [] config.mode = "namespace" ->
         {d \in Deployments : spec[d].optIn # "none" /\ spec[d].service}
    [] OTHER -> {}

\* GetRecoveryEnabled, with recovery on in the configuration.
RecoveryEnabled(d) == spec[d].enabled # "false"

OnFargate(object) == object \in {"cooling", "due"}

isRecoveryCandidate(d, object) ==
  /\ OnFargate(object)
  /\ IF spec[d].enabled # "none" THEN spec[d].enabled = "true"
                                 ELSE spec[d].optIn = "true"

-----------------------------------------------------------------------------
(* The cache. *)

Stored(reads) ==
  [d \in Deployments |->
     IF reads.objects[d] = "none" THEN cache[d]
     ELSE [object |-> reads.objects[d], age |-> 0, read |-> reads.age]]

Hit(d) == cache[d].object # "none"

UnchangedCache == UNCHANGED <<cache, lastRefresh>>

\* backgroundRefresh, every half TTL: a list request, and the lock once it has
\* answered.
RefreshRead ==
  /\ Caching
  /\ refresh = NoRead
  /\ refresh' = ListRead
  /\ UNCHANGED <<static, api, cache, lastRefresh, pc, todo, target, held>>

RefreshEnd ==
  /\ refresh # NoRead
  /\ refresh' = NoRead
  /\ \/ cache' = Stored(refresh) /\ lastRefresh' = 0
     \/ UnchangedCache
  /\ UNCHANGED <<static, api, pc, todo, target, held>>

-----------------------------------------------------------------------------
(* Time, and what others do to the Deployments. *)

Older(reads) == IF reads = NoRead THEN reads ELSE [reads EXCEPT !.age = @ + 1]

\* What has expired is never looked at again, so it is dropped.
Aging(entry) ==
  IF entry.object # "none" /\ entry.age + 1 < TTL
    THEN [object |-> entry.object, age |-> entry.age + 1, read |-> entry.read + 1]
    ELSE NoEntry

\* A request that takes longer has failed.
Tick ==
  /\ refresh.age < Latency /\ held.age < Latency
  /\ cache' = [d \in Deployments |-> Aging(cache[d])]
  /\ lastRefresh' = IF lastRefresh > TTL THEN lastRefresh ELSE lastRefresh + 1
  /\ refresh' = Older(refresh)
  /\ held' = Older(held)
  /\ UNCHANGED <<static, api, pc, todo, target>>

\* The event loop migrates a Deployment that discovery manages.
Migrate(d) ==
  /\ d \in Managed
  /\ api[d] = "spot"
  /\ api' = [api EXCEPT ![d] = "cooling"]
  /\ UNCHANGED <<static, cache, lastRefresh, refresh, pc, todo, target, held>>

CooldownEnds(d) ==
  /\ api[d] = "cooling"
  /\ api' = [api EXCEPT ![d] = "due"]
  /\ UNCHANGED <<static, cache, lastRefresh, refresh, pc, todo, target, held>>

-----------------------------------------------------------------------------
(* A round: what it visits. *)

\* A round that is over, or has nothing to visit.
RoundEnds == pc' = "idle" /\ todo' = {} /\ UNCHANGED <<target, held>>

\* A tick of the recovery interval.  The rate limiter's Wait fails at once when
\* nothing can be taken from it.
Begins == pc = "idle" /\ ~(Optimised /\ config.limiter = "empty")

\* processBatchRecovery: the number of a batch is computed with a division by
\* its size, or the batch sliced with it; the program ends in a panic, and the
\* kubelet starts it again.
Panic ==
  /\ pc' = "idle" /\ todo' = {} /\ held' = NoRead
  /\ cache' = [d \in Deployments |-> NoEntry]
  /\ lastRefresh' = TTL + 1
  /\ refresh' = NoRead
  /\ UNCHANGED target

\* The candidates among the Deployments listed, whatever the batches; entries and
\* since are the cache, and the time since its refresh, that listing them leaves.
Visit(objects, entries, since) ==
  LET candidates == {d \in Deployments : isRecoveryCandidate(d, objects[d])} IN
  IF candidates # {} /\ config.batch = "empty"
    THEN Panic
    ELSE /\ pc' = IF candidates = {} THEN "idle" ELSE "next"
         /\ todo' = candidates
         /\ held' = NoRead
         /\ cache' = entries /\ lastRefresh' = since
         /\ UNCHANGED <<refresh, target>>

\* ListDeployments: the entries that have not expired, unless the last refresh is
\* older than the TTL.  On an error the round falls back on discovery.
List ==
  /\ Begins /\ Caching
  /\ \/ /\ lastRefresh <= TTL
        /\ Visit([d \in Deployments |-> cache[d].object], cache, lastRefresh)
     \/ /\ lastRefresh > TTL
        /\ pc' = "keeplist"
        /\ held' = ListRead
        /\ UNCHANGED <<cache, lastRefresh, refresh, todo, target>>
     \/ /\ lastRefresh > TTL
        /\ pc' = "discover"
        /\ UNCHANGED <<cache, lastRefresh, refresh, todo, target, held>>
  /\ UNCHANGED <<static, api>>

KeepList ==
  /\ pc = "keeplist"
  /\ Visit(held.objects, Stored(held), 0)
  /\ UNCHANGED <<static, api>>

\* A Deployment whose Service cannot be looked up, or which cannot be read, is
\* skipped.  The regular manager looks for Spot nodes once, and visits what was
\* found without reading it.
Visited(found) ==
  IF Optimised
    THEN Visit([d \in Deployments |-> IF d \in found THEN api[d] ELSE "none"],
               cache, lastRefresh)
    ELSE /\ pc' = IF found = {} THEN "idle" ELSE "next"
         /\ todo' = found
         /\ UnchangedCache
         /\ UNCHANGED <<refresh, target, held>>

Discover ==
  /\ pc = "discover" \/ (Begins /\ ~Caching)
  /\ \/ \E found \in SUBSET Managed : Visited(found)
     \/ RoundEnds /\ UnchangedCache /\ UNCHANGED refresh
  /\ UNCHANGED <<static, api>>

-----------------------------------------------------------------------------
(* A round: one Deployment. *)

\* Both managers go on after an error.  The order is that of the list, which for
\* the cache is that of a map.
NextDeployment ==
  /\ pc = "next"
  /\ \/ \E d \in todo :
          /\ target' = d
          /\ todo' = todo \ {d}
          /\ pc' = IF Optimised THEN "check" ELSE "attempt"
          /\ UNCHANGED held
     \/ todo = {} /\ RoundEnds
  /\ UNCHANGED <<static, api, cache, lastRefresh, refresh>>

\* attemptSingleDeploymentRecovery decides whether it is worth an attempt; the
\* search for Spot nodes may find none.
Decide(object) ==
  /\ \/ /\ isRecoveryCandidate(target, object)
        /\ RecoveryEnabled(target)
        /\ object = "due"
        /\ pc' = "attempt" /\ UNCHANGED target
     \/ pc' = "next" /\ target' = Configured
  /\ UNCHANGED todo

\* Mutant: a read is kept whether there is a cache or not.
CheckMissKeeps ==
  /\ pc = "check"
  /\ ~Hit(target)
  /\ \/ /\ pc' = "keep"
        /\ held' = GetRead(target)
        /\ UNCHANGED <<todo, target>>
     \/ Decide(api[target]) /\ UNCHANGED held
  /\ UNCHANGED <<static, api, cache, lastRefresh, refresh>>

\* Mutant: a hit makes the entry younger.
CheckAndRenew ==
  /\ pc = "check"
  /\ Hit(target)
  /\ Decide(cache[target].object)
  /\ cache' = [cache EXCEPT ![target].age = 0]
  /\ UNCHANGED <<static, api, lastRefresh, refresh, held>>

\* On a hit it decides on the entry.
CheckHit ==
  /\ pc = "check"
  /\ Hit(target)
  /\ Decide(cache[target].object)
  /\ UNCHANGED <<static, api, cache, lastRefresh, refresh, held>>

\* On a miss, or without a cache, on what it reads; an error of the cache's
\* request is followed by a request of its own.
CheckMiss ==
  /\ pc = "check"
  /\ ~Hit(target)
  /\ \/ /\ Caching
        /\ pc' = "keep"
        /\ held' = GetRead(target)
        /\ UNCHANGED <<todo, target>>
     \/ Decide(api[target]) /\ UNCHANGED held
  /\ UNCHANGED <<static, api, cache, lastRefresh, refresh>>

Keep ==
  /\ pc = "keep"
  /\ cache' = Stored(held)
  /\ Decide(held.objects[target])
  /\ held' = NoRead
  /\ UNCHANGED <<static, api, lastRefresh, refresh>>

\* Success or failure, the entry is dropped afterwards.
AttemptEnds(goesOn) ==
  /\ pc' = goesOn /\ target' = Configured
  /\ cache' = IF Caching THEN [cache EXCEPT ![target] = NoEntry] ELSE cache
  /\ UNCHANGED <<static, lastRefresh, refresh, held>>

\* Mutant: what made it a candidate is not looked at again.
AttemptUnread ==
  /\ pc = "attempt"
  /\ pc' = "recovering"
  /\ UNCHANGED <<static, api, cache, lastRefresh, refresh, todo, target, held>>

\* attemptDeploymentRecovery reads the Deployment again and decides on that.
Attempt ==
  /\ pc = "attempt"
  /\ \/ /\ api[target] = "due" /\ RecoveryEnabled(target)
        /\ pc' = "recovering"
        /\ UNCHANGED <<static, cache, lastRefresh, refresh, target, held>>
     \/ AttemptEnds("next")
  /\ UNCHANGED <<api, todo>>

\* Mutant: a recovery that fails ends the round.
RecoverOrLeave ==
  /\ pc = "recovering"
  /\ \E outcome \in Objects :
       /\ api' = [api EXCEPT ![target] = outcome]
       /\ AttemptEnds(IF outcome = "spot" THEN "next" ELSE "idle")
       /\ todo' = IF outcome = "spot" THEN todo ELSE {}

\* It ends on Spot, or back on Fargate with the failure recorded or, when that
\* write fails, not recorded.
Recover ==
  /\ pc = "recovering"
  /\ \E outcome \in Objects : api' = [api EXCEPT ![target] = outcome]
  /\ AttemptEnds("next")
  /\ UNCHANGED todo

-----------------------------------------------------------------------------

Round ==
  \/ List \/ KeepList \/ Discover
  \/ NextDeployment \/ CheckHit \/ CheckMiss \/ Keep \/ Attempt \/ Recover

Environment ==
  \/ Tick \/ RefreshRead \/ RefreshEnd
  \/ \E d \in Deployments : Migrate(d) \/ CooldownEnds(d)

Next == Round \/ Environment

Spec == Init /\ [][Next]_vars

\* A request that is made again and again is answered some time, and finds the
\* Spot nodes there are.  This is asked of the lists, and of the requests about one
\* Deployment; those about the others may always fail.
Answers ==
  /\ SF_vars(List /\ pc' # "discover")
  /\ SF_vars(Discover /\ Visited(Managed))
  /\ SF_vars((CheckHit \/ CheckMiss \/ Keep) /\ target = Watched /\ pc' = "attempt")
  /\ SF_vars(Attempt /\ target = Watched /\ pc' = "recovering")

\* The age of the list is compared with the TTL twice, and between the two the
\* entries may expire: the list is empty, and the round over.  That is an instant,
\* which does not come each time.
ListAtTheInstant == List /\ lastRefresh = TTL

\* The loop runs, time passes, and every request of the refresh ends.
FairSpec ==
  /\ Spec
  /\ WF_vars(Round) /\ WF_vars(Tick) /\ WF_vars(RefreshEnd)
  /\ Answers
  /\ <>[][~ListAtTheInstant]_vars

-----------------------------------------------------------------------------
(* Properties that hold. *)

\* What an entry holds was true no longer ago than the TTL and one request,
\* however often it was hit and whatever the order of the stores.
StaleIsBounded ==
  \A d \in Deployments : Hit(d) => cache[d].read < TTL + Latency

\* A recovery begins only while its Deployment is on Fargate and out of its
\* cooldown, however old the entry that made it a candidate.
BeginsOnlyWhenDue ==
  [][pc # "recovering" /\ pc' = "recovering" => api[target'] = "due"]_vars

\* The Deployments whose recovery the configuration makes happen.
Recoverable(d) ==
  /\ RecoveryEnabled(d)
  /\ ~Caching => d \in Managed
  /\ Optimised => /\ isRecoveryCandidate(d, "due")
                  /\ config.limiter # "empty" /\ config.batch # "empty"

\* One of them that stays due is tried some time, although other Deployments fail
\* in every round and the cache holds what was true before.
EveryDueIsTried ==
  Recoverable(Watched) /\ api[Watched] = "due" ~>
    api[Watched] # "due" \/ (pc = "recovering" /\ target = Watched)

-----------------------------------------------------------------------------
(* What the documentation says, and the code does not always do. *)

\* config.toml: in single mode one specific Deployment is managed, in the others
\* those with the opt-in annotation, and "Deployments without this annotation will
\* be ignored".  Without a cache a recovery is of such a Deployment; with one the
\* round starts from the namespace, and recovery-enabled is enough.
RecoversOnlyOptedIn ==
  pc = "recovering" =>
    IF config.mode = "single" THEN target = Configured
                              ELSE spec[target].optIn # "none"

=============================================================================
