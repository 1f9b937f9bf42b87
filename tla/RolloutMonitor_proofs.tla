------------------------ MODULE RolloutMonitor_proofs ------------------------
(***************************************************************************)
(* For every number of replicas, of writes and of events under way: a wait *)
(* that returns nil returns it for a rollout the controller has seen end,  *)
(* and one that keeps waiting with nothing left to receive has reason to.  *)
(***************************************************************************)
EXTENDS RolloutMonitor, SequenceTheorems, TLAPS

-----------------------------------------------------------------------------
(* The inductive invariant. *)

\* The status never runs ahead of the Deployment.
Observed ==
  /\ dep.observed <= dep.generation
  /\ template <= dep.generation
  /\ mine <= dep.generation

\* The reason NewReplicaSetAvailable beside updated pods is no longer that of an
\* earlier template.
ReasonIsCurrent ==
  dep.observed >= template /\ dep.progressing = "available" /\ dep.updated > 0
    => dep.generation \in rolled

\* An event of the watch is not older than the call, and right about its rollout.
Sound(d) ==
  /\ d.generation >= mine
  /\ isRolloutComplete(d) => d.generation \in rolled

EventsAreSound == \A i \in DOMAIN stream : Sound(stream[i])

Answered ==
  /\ OkMeansRolledOut
  /\ pc # "returned" => result = "none"

Inv == TypeOK /\ Observed /\ ReasonIsCurrent /\ EventsAreSound /\ Answered

-----------------------------------------------------------------------------
(* Lemmas. *)

\* What a channel of events is after a send, and what is received from it.
LEMMA Sent ==
  ASSUME NEW S, NEW s \in Seq(S), NEW e \in S
  PROVE  /\ Append(s, e) \in Seq(S)
         /\ \A i \in DOMAIN Append(s, e) :
              \/ i \in DOMAIN s /\ Append(s, e)[i] = s[i]
              \/ Append(s, e)[i] = e
OBVIOUS

LEMMA Received ==
  ASSUME NEW S, NEW s \in Seq(S), s # <<>>
  PROVE  /\ Head(s) \in S /\ Head(s) = s[1] /\ 1 \in DOMAIN s
         /\ Tail(s) \in Seq(S)
         /\ \A i \in DOMAIN Tail(s) : i + 1 \in DOMAIN s /\ Tail(s)[i] = s[i + 1]
OBVIOUS

\* What may be known of a Deployment whose status looks complete.
LEMMA CompleteIsRolledOut ==
  ASSUME TypeOK, Observed, ReasonIsCurrent, isRolloutComplete(dep)
  PROVE  dep.generation \in rolled
BY ReplicasAssumption DEF TypeOK, Observed, ReasonIsCurrent, isRolloutComplete,
                          Deployment, Counts, Generations

\* Without a write there is nothing new to know.
LEMMA SameCluster ==
  ASSUME Inv, UnchangedCluster, mine' = mine
  PROVE  Observed' /\ ReasonIsCurrent'
BY DEF Inv, UnchangedCluster, Observed, ReasonIsCurrent

\* A write that keeps what is known of the Deployment keeps the rest: the watch
\* gets an event that is sound.
LEMMA StoreKeeps ==
  ASSUME Inv, NEW d \in Deployment, Store(d),
         d.generation >= dep.generation,
         rolled \subseteq rolled', rolled' \subseteq Generations,
         template' \in Generations, pods' \in Pods, blame' \in Generations,
         Observed', ReasonIsCurrent'
  PROVE  Inv'
<1> USE DEF Store
<1>0. stream \in Seq(Deployment) /\ (stream' = Append(stream, d) \/ stream' = stream)
  BY DEF Inv, TypeOK
<1>1. TypeOK'
  <2>1. stream' \in Seq(Deployment)
    BY <1>0, Sent
  <2>2. pc' # "select" => stream' = <<>>
    BY DEF Inv, TypeOK
  <2> QED
    BY <2>1, <2>2 DEF Inv, TypeOK
<1>2. Sound(d)'
  <2>1. d = dep' /\ mine' = mine
    BY DEF Store
  <2>2. d.generation >= mine'
    BY <2>1 DEF Observed
  <2>3. isRolloutComplete(dep)' => d.generation \in rolled'
    BY <1>1, <2>1, ReplicasAssumption DEF TypeOK, Observed, ReasonIsCurrent,
         isRolloutComplete, Deployment, Counts, Generations
  <2> QED
    BY <2>1, <2>2, <2>3 DEF Sound, isRolloutComplete
<1>3. EventsAreSound'
  <2> SUFFICES ASSUME NEW i \in DOMAIN stream'
               PROVE  Sound(stream[i])'
    BY DEF EventsAreSound
  <2>1. mine' = mine
    BY DEF Store
  <2>2. CASE i \in DOMAIN stream /\ stream'[i] = stream[i]
    BY <2>1, <2>2 DEF Inv, EventsAreSound, Sound, isRolloutComplete
  <2>3. CASE stream'[i] = d
    BY <1>2, <2>3 DEF Sound, isRolloutComplete
  <2>4. \/ i \in DOMAIN stream /\ stream'[i] = stream[i]
        \/ stream'[i] = d
    BY <1>0, Sent
  <2> QED
    BY <2>2, <2>3, <2>4
<1>4. Answered'
  BY DEF Inv, Answered, OkMeansRolledOut, Store
<1> QED
  BY <1>1, <1>3, <1>4 DEF Inv

\* A return is sound when its answer is.
LEMMA ReturnKeeps ==
  ASSUME Inv, UnchangedCluster, NEW answer \in Results,
         NEW generation \in Generations, Return(answer, generation),
         answer = "ok" => generation >= mine /\ generation \in rolled
  PROVE  Inv'
<1>1. TypeOK'
  BY DEF Inv, TypeOK, Return, UnchangedCluster
<1>2. Observed' /\ ReasonIsCurrent'
  BY SameCluster DEF Return
<1>3. EventsAreSound' /\ Answered'
  BY DEF EventsAreSound, Answered, OkMeansRolledOut, Return, UnchangedCluster
<1> QED
  BY <1>1, <1>2, <1>3 DEF Inv

\* So is a watch that begins, which shows the Deployment as it is.
LEMMA OpenKeeps ==
  ASSUME Inv, UnchangedCluster, pc \in {"watch", "select"}, Open
  PROVE  Inv'
<1>1. CASE Return("error", 0)
  BY <1>1, ReturnKeeps, BoundAssumption DEF Results, Generations
<1>2. CASE /\ pc' = "select"
           /\ stream' = <<dep>>
           /\ UNCHANGED <<expired, result, mine, seen>>
  <2>1. TypeOK'
    BY <1>2 DEF Inv, TypeOK, UnchangedCluster, Waiting
  <2>2. Observed' /\ ReasonIsCurrent'
    BY <1>2, SameCluster
  <2>3. Sound(dep)'
    BY <1>2, <2>1, <2>2, ReplicasAssumption DEF UnchangedCluster, Sound, TypeOK, Observed,
         ReasonIsCurrent, isRolloutComplete, Deployment, Counts, Generations
  <2>4. EventsAreSound'
    BY <1>2, <2>3 DEF EventsAreSound, Sound, isRolloutComplete, UnchangedCluster
  <2>5. Answered'
    BY <1>2 DEF Inv, Answered, OkMeansRolledOut, UnchangedCluster
  <2> QED
    BY <2>1, <2>2, <2>4, <2>5 DEF Inv
<1> QED
  BY <1>1, <1>2 DEF Open

-----------------------------------------------------------------------------
(* The initial state and the steps. *)

LEMMA InitInv == Init => Inv
<1> SUFFICES ASSUME Init
             PROVE  Inv
  OBVIOUS
<1>1. 0 \in Generations /\ 1 \in Generations /\ 0 \in Counts /\ Replicas \in Counts
  BY ReplicasAssumption, BoundAssumption DEF Generations, Counts
<1>2. dep \in Deployment /\ pods \in Pods
  BY <1>1, ReplicasAssumption DEF Init, Deployment, Pods
<1>3. TypeOK
  <2>1. stream \in Seq(Deployment)
    BY DEF Init
  <2> QED
    BY <1>1, <1>2, <2>1 DEF Init, TypeOK, Results
<1>4. Observed /\ ReasonIsCurrent /\ EventsAreSound /\ Answered
  BY DEF Init, Observed, ReasonIsCurrent, EventsAreSound, Answered, OkMeansRolledOut
<1> QED
  BY <1>3, <1>4 DEF Inv

LEMMA WriteInv == Inv /\ (NewTemplate \/ NewStrategy) => Inv'
<1> SUFFICES ASSUME Inv, NewTemplate \/ NewStrategy
             PROVE  Inv'
  OBVIOUS
<1> DEFINE d == [dep EXCEPT !.generation = @ + 1]
<1>0. dep \in Deployment /\ dep.generation + 1 \in Generations
  <2>1. dep \in Deployment /\ dep.generation < MaxGeneration
    BY DEF Inv, TypeOK, NewTemplate, NewStrategy
  <2> QED
    BY <2>1, BoundAssumption DEF Deployment, Generations
<1>1. /\ d \in Deployment
      /\ d.generation = dep.generation + 1
      /\ d.observed = dep.observed /\ d.updated = dep.updated
      /\ d.progressing = dep.progressing
  BY <1>0 DEF Deployment
<1>2. dep' = d /\ mine' = mine
  BY DEF NewTemplate, NewStrategy, Store
<1>3. dep.generation \in Nat /\ dep.observed \in Nat /\ template \in Nat /\ mine \in Nat
  BY DEF Inv, TypeOK, Deployment, Generations
<1>4. /\ d.generation \in Generations /\ d.generation >= dep.generation
      /\ template \in Generations /\ pods \in Pods /\ blame \in Generations
      /\ rolled \subseteq Generations
  BY <1>1, <1>3 DEF Inv, TypeOK, Deployment
<1>5. CASE NewTemplate
  <2>1. template' = d.generation /\ rolled' = rolled /\ blame' = blame
    BY <1>1, <1>5 DEF NewTemplate
  <2>2. Observed' /\ ReasonIsCurrent'
    BY <1>1, <1>2, <1>3, <2>1 DEF Inv, Observed, ReasonIsCurrent
  <2>3. pods' \in Pods
    BY <1>5, ReplicasAssumption DEF NewTemplate, Inv, TypeOK, Pods, Counts
  <2>4. Store(d)
    BY <1>5 DEF NewTemplate
  <2> HIDE DEF d
  <2> QED
    BY <1>1, <1>4, <2>1, <2>2, <2>3, <2>4, StoreKeeps
<1>6. CASE NewStrategy
  <2>1. /\ template' = template /\ pods' = pods /\ blame' = blame
        /\ dep.generation \in rolled => d.generation \in rolled'
        /\ rolled \subseteq rolled' /\ rolled' \subseteq rolled \cup {d.generation}
    BY <1>1, <1>6 DEF NewStrategy
  <2>2. Observed' /\ ReasonIsCurrent'
    BY <1>1, <1>2, <1>3, <2>1 DEF Inv, Observed, ReasonIsCurrent
  <2>3. Store(d)
    BY <1>6 DEF NewStrategy
  <2> HIDE DEF d
  <2>4. rolled' \subseteq Generations
    BY <1>4, <2>1
  <2> QED
    BY <1>1, <1>4, <2>1, <2>2, <2>3, <2>4, StoreKeeps
<1> QED
  BY <1>5, <1>6

LEMMA PodsInv == Inv /\ PodsChange => Inv'
<1> SUFFICES ASSUME Inv, PodsChange
             PROVE  Inv'
  OBVIOUS
<1>1. TypeOK'
  BY DEF Inv, TypeOK, PodsChange, wait
<1>2. Observed' /\ ReasonIsCurrent' /\ EventsAreSound' /\ Answered'
  BY DEF Inv, PodsChange, wait, Observed, ReasonIsCurrent, EventsAreSound, Sound,
         isRolloutComplete, Answered, OkMeansRolledOut
<1> QED
  BY <1>1, <1>2 DEF Inv

LEMMA SyncInv ==
  ASSUME Inv, NEW reason \in {"progressing", "available", "deadline"},
         NEW failure \in BOOLEAN, Sync(reason, failure)
  PROVE  Inv'
<1> DEFINE d == [dep EXCEPT !.observed = dep.generation, !.updated = pods.created,
                            !.ready = pods.ready + pods.old,
                            !.available = pods.available + pods.old,
                            !.progressing = reason, !.failure = failure]
<1>1. pods.created \in Counts /\ pods.ready + pods.old \in Nat
        /\ pods.available + pods.old \in Nat
  BY ReplicasAssumption DEF Inv, TypeOK, Pods, Counts
<1>2. /\ d \in Deployment
      /\ d.generation = dep.generation /\ d.observed = dep.generation
      /\ d.updated = pods.created /\ d.progressing = reason
  BY <1>1 DEF Inv, TypeOK, Deployment
<1>3. Store(d)
  BY DEF Sync
<1>4. dep' = d /\ mine' = mine /\ template' = template /\ pods' = pods
  BY <1>3 DEF Store, Sync
<1>5. dep.generation \in Generations /\ dep.generation \in Nat
        /\ dep.observed \in Nat /\ template \in Nat /\ mine \in Nat
        /\ dep.updated \in Nat /\ pods.created \in Nat
  BY <1>1 DEF Inv, TypeOK, Deployment, Generations, Counts
<1>6. /\ rolled \subseteq rolled' /\ rolled' \subseteq rolled \cup {dep.generation}
      /\ blame' \in {blame, dep.generation}
      /\ RolledOut => dep.generation \in rolled'
      /\ reason = "available"
           => RolledOut \/ (dep.progressing = reason /\ MayKeepReason)
  BY DEF Sync
<1> HIDE DEF d
<1>7. Observed'
  BY <1>2, <1>4, <1>5 DEF Inv, Observed
<1>8. ReasonIsCurrent'
  BY <1>2, <1>4, <1>5, <1>6 DEF Inv, ReasonIsCurrent, MayKeepReason
<1>9. /\ rolled' \subseteq Generations /\ blame' \in Generations
      /\ template' \in Generations /\ pods' \in Pods
  BY <1>4, <1>5, <1>6 DEF Inv, TypeOK
<1>10. d.generation >= dep.generation
  BY <1>2, <1>5
<1> QED
  BY <1>2, <1>3, <1>6, <1>7, <1>8, <1>9, <1>10, StoreKeeps

LEMMA GetInv == Inv /\ Get => Inv'
<1> SUFFICES ASSUME Inv, Get
             PROVE  Inv'
  OBVIOUS
<1>1. UnchangedCluster /\ pc = "get"
  BY DEF Get
<1>2. CASE isRolloutComplete(dep) /\ Return("ok", dep.generation)
  <2>1. dep.generation \in Generations /\ dep.generation >= mine
    BY DEF Inv, TypeOK, Observed, Deployment, Generations
  <2> QED
    BY <1>1, <1>2, <2>1, CompleteIsRolledOut, ReturnKeeps DEF Inv, Results
<1>3. CASE pc' = "watch" /\ UNCHANGED <<stream, expired, result, mine, seen>>
  <2>1. TypeOK'
    BY <1>1, <1>3 DEF Inv, TypeOK, UnchangedCluster, Waiting
  <2>2. EventsAreSound' /\ Answered'
    BY <1>1, <1>3 DEF Inv, EventsAreSound, Sound, isRolloutComplete, Answered,
                      OkMeansRolledOut, UnchangedCluster
  <2> QED
    BY <1>1, <1>3, <2>1, <2>2, SameCluster DEF Inv
<1>4. CASE Return("error", 0)
  BY <1>1, <1>4, ReturnKeeps, BoundAssumption DEF Results, Generations
<1> QED
  BY <1>2, <1>3, <1>4 DEF Get

LEMMA ReceiveInv == Inv /\ Receive => Inv'
<1> SUFFICES ASSUME Inv, Receive
             PROVE  Inv'
  OBVIOUS
<1> DEFINE d == Head(stream)
<1>1. UnchangedCluster /\ pc = "select" /\ stream \in Seq(Deployment) /\ stream # <<>>
  BY DEF Receive, Inv, TypeOK
<1>2. d \in Deployment /\ d.generation \in Generations
  <2>1. d \in Deployment
    BY <1>1, Received
  <2> HIDE DEF d
  <2> QED
    BY <2>1 DEF Deployment
<1>3. Sound(d)
  BY <1>1, Received DEF Inv, EventsAreSound
<1>4. CASE isRolloutComplete(d) /\ Return("ok", d.generation)
  BY <1>1, <1>2, <1>3, <1>4, ReturnKeeps DEF Sound, Results
<1>5. CASE Return("failed", d.generation)
  BY <1>1, <1>2, <1>5, ReturnKeeps DEF Results
<1>6. CASE stream' = Tail(stream) /\ UNCHANGED <<pc, expired, result, mine, seen>>
  <2>1. TypeOK'
    BY <1>1, <1>6, Received DEF Inv, TypeOK, UnchangedCluster
  <2>2. \A i \in DOMAIN stream' :
          i + 1 \in DOMAIN stream /\ stream'[i] = stream[i + 1]
    BY <1>1, <1>6, Received
  <2>3. EventsAreSound'
    BY <1>1, <1>6, <2>2 DEF Inv, EventsAreSound, Sound, isRolloutComplete,
                            UnchangedCluster
  <2>4. Answered'
    BY <1>1, <1>6 DEF Inv, Answered, OkMeansRolledOut, UnchangedCluster
  <2> QED
    BY <1>1, <1>6, <2>1, <2>3, <2>4, SameCluster DEF Inv
<1> QED
  BY <1>4, <1>5, <1>6 DEF Receive

LEMMA OtherInv == Inv /\ (Call \/ Watch \/ Restart \/ Timeout \/ Expire) => Inv'
<1> SUFFICES ASSUME Inv, Call \/ Watch \/ Restart \/ Timeout \/ Expire
             PROVE  Inv'
  OBVIOUS
<1>1. CASE Call
  <2>1. TypeOK'
    BY <1>1 DEF Inv, TypeOK, Call, UnchangedCluster, Waiting, Deployment
  <2>2. Observed' /\ ReasonIsCurrent' /\ EventsAreSound' /\ Answered'
    BY <1>1, <2>1 DEF Inv, TypeOK, Call, UnchangedCluster, Observed, ReasonIsCurrent,
                EventsAreSound, Answered, OkMeansRolledOut, Generations, Deployment
  <2> QED
    BY <2>1, <2>2 DEF Inv
<1>2. CASE Watch \/ Restart
  BY <1>2, OpenKeeps DEF Watch, Restart
<1>3. CASE Timeout
  BY <1>3, ReturnKeeps, BoundAssumption DEF Timeout, Results, Generations
<1>4. CASE Expire
  <2>1. TypeOK'
    BY <1>4 DEF Inv, TypeOK, Expire, UnchangedCluster
  <2>2. Observed' /\ ReasonIsCurrent' /\ EventsAreSound' /\ Answered'
    BY <1>4 DEF Inv, Expire, UnchangedCluster, Observed, ReasonIsCurrent,
                EventsAreSound, Sound, isRolloutComplete, Answered, OkMeansRolledOut
  <2> QED
    BY <2>1, <2>2 DEF Inv
<1> QED
  BY <1>1, <1>2, <1>3, <1>4

LEMMA StepInv == Inv /\ [Next]_vars => Inv'
<1> SUFFICES ASSUME Inv, [Next]_vars
             PROVE  Inv'
  OBVIOUS
<1>1. CASE Cluster
  BY <1>1, WriteInv, PodsInv, SyncInv DEF Cluster
<1>2. CASE Get \/ Receive
  BY <1>2, GetInv, ReceiveInv
<1>3. CASE Call \/ Watch \/ Restart \/ Timeout \/ Expire
  BY <1>3, OtherInv
<1>4. CASE UNCHANGED vars
  BY <1>4 DEF vars, wait, Inv, TypeOK, Observed, ReasonIsCurrent, EventsAreSound, Sound,
              isRolloutComplete, Answered, OkMeansRolledOut
<1> QED
  BY <1>1, <1>2, <1>3, <1>4 DEF Next

LEMMA InvHolds == Spec => []Inv
BY InitInv, StepInv, PTL DEF Spec

-----------------------------------------------------------------------------
(* What a wait still has to receive. *)

\* The last event under way shows the Deployment as it is.
EndsWithNow == pc = "select" /\ stream # <<>> => stream[Len(stream)] = dep

UpToDate == EndsWithNow /\ QuietMeansUnfinished

\* The last event stays the last while those before it are received.
LEMMA LastStays ==
  ASSUME NEW S, NEW s \in Seq(S), s # <<>>
  PROVE  IF Tail(s) = <<>> THEN s[Len(s)] = Head(s)
                           ELSE Tail(s)[Len(Tail(s))] = s[Len(s)]
<1>1. /\ Len(Tail(s)) = Len(s) - 1 /\ Tail(s) \in Seq(S)
      /\ \A i \in 1 .. Len(Tail(s)) : Tail(s)[i] = s[i + 1]
  BY HeadTailProperties
<1>2. Len(s) \in Nat \ {0} /\ (Tail(s) # <<>> => Len(Tail(s)) \in Nat \ {0})
  BY <1>1, EmptySeq
<1>3. Tail(s) = <<>> => Len(Tail(s)) = 0
  BY EmptySeq
<1>4. Head(s) = s[1]
  BY DEF Head
<1> QED
  BY <1>1, <1>2, <1>3, <1>4

\* Only an open watch makes a claim.
LEMMA NotWatching ==
  ASSUME pc' # "select"
  PROVE  UpToDate'
BY DEF UpToDate, EndsWithNow, QuietMeansUnfinished

\* What is written while a watch is open is the last event of it.
LEMMA StoreUpToDate ==
  ASSUME Inv, NEW d \in Deployment, Store(d)
  PROVE  UpToDate'
<1>1. CASE pc = "select"
  <2>1. dep' = d /\ stream' = Append(stream, d) /\ stream \in Seq(Deployment)
    BY <1>1 DEF Store, Inv, TypeOK
  <2>2. stream' # <<>> /\ stream'[Len(stream')] = d
    BY <2>1
  <2> QED
    BY <2>1, <2>2 DEF UpToDate, EndsWithNow, QuietMeansUnfinished
<1>2. CASE pc # "select"
  BY <1>2, NotWatching DEF Store
<1> QED
  BY <1>1, <1>2

\* A watch that begins has the Deployment as it is to show.
LEMMA OpenUpToDate ==
  ASSUME UnchangedCluster, Open
  PROVE  UpToDate'
<1>1. CASE pc' = "select" /\ stream' = <<dep>>
  <2>1. stream' # <<>> /\ stream'[Len(stream')] = dep
    BY <1>1
  <2> QED
    BY <2>1 DEF UpToDate, EndsWithNow, QuietMeansUnfinished, UnchangedCluster
<1>2. CASE Return("error", 0)
  BY <1>2, NotWatching DEF Return
<1> QED
  BY <1>1, <1>2 DEF Open

\* The last event is received only when it is not what the wait is for.
LEMMA ReceiveUpToDate ==
  ASSUME Inv, UpToDate, Receive
  PROVE  UpToDate'
<1> DEFINE d == Head(stream)
<1>1. /\ UnchangedCluster /\ pc = "select"
      /\ stream \in Seq(Deployment) /\ stream # <<>>
  BY DEF Receive, Inv, TypeOK
<1>2. CASE Return("ok", d.generation) \/ Return("failed", d.generation)
  BY <1>2, NotWatching DEF Return
<1>3. CASE /\ ~isRolloutComplete(d) /\ ~isRolloutFailed(d)
           /\ stream' = Tail(stream) /\ pc' = pc
  <2>1. stream[Len(stream)] = dep
    BY <1>1 DEF UpToDate, EndsWithNow
  <2>2. CASE stream' = <<>>
    <3>1. d = dep
      BY <1>1, <1>3, <2>1, <2>2, LastStays
    <3> QED
      BY <1>1, <1>3, <2>2, <3>1
         DEF UpToDate, EndsWithNow, QuietMeansUnfinished, UnchangedCluster,
             isRolloutComplete, isRolloutFailed
  <2>3. CASE stream' # <<>>
    <3>1. stream'[Len(stream')] = stream[Len(stream)]
      BY <1>1, <1>3, <2>3, LastStays
    <3> QED
      BY <1>1, <2>1, <2>3, <3>1
         DEF UpToDate, EndsWithNow, QuietMeansUnfinished, UnchangedCluster
  <2> QED
    BY <2>2, <2>3
<1> QED
  BY <1>2, <1>3 DEF Receive

\* The writes of the Deployment are writes of a Deployment.
LEMMA WritesTyped ==
  ASSUME Inv, NEW d, dep' = d, Inv'
  PROVE  d \in Deployment
BY DEF Inv, TypeOK

LEMMA ClusterUpToDate ==
  ASSUME Inv, Inv', UpToDate, Cluster
  PROVE  UpToDate'
<1>1. ASSUME NEW d, Store(d) PROVE UpToDate'
  <2>1. dep' = d
    BY <1>1 DEF Store
  <2> QED
    BY <1>1, <2>1, WritesTyped, StoreUpToDate
<1>2. CASE NewTemplate \/ NewStrategy
  BY <1>1, <1>2 DEF NewTemplate, NewStrategy
<1>3. CASE PodsChange
  BY <1>3 DEF PodsChange, wait, UpToDate, EndsWithNow, QuietMeansUnfinished,
              isRolloutComplete, isRolloutFailed
<1>4. CASE \E reason \in {"progressing", "available", "deadline"}, failure \in BOOLEAN :
             Sync(reason, failure)
  BY <1>1, <1>4 DEF Sync
<1> QED
  BY <1>2, <1>3, <1>4 DEF Cluster

LEMMA UpToDateStep == Inv /\ Inv' /\ UpToDate /\ [Next]_vars => UpToDate'
<1> SUFFICES ASSUME Inv, Inv', UpToDate, [Next]_vars
             PROVE  UpToDate'
  OBVIOUS
<1>1. CASE Cluster
  BY <1>1, ClusterUpToDate
<1>2. CASE Watch \/ Restart
  BY <1>2, OpenUpToDate DEF Watch, Restart
<1>3. CASE Receive
  BY <1>3, ReceiveUpToDate
<1>4. CASE Call \/ Get \/ Timeout
  BY <1>4, NotWatching DEF Call, Get, Timeout, Return
<1>5. CASE Expire \/ UNCHANGED vars
  BY <1>5 DEF Expire, vars, wait, UnchangedCluster, UpToDate, EndsWithNow,
              QuietMeansUnfinished, isRolloutComplete, isRolloutFailed
<1> QED
  BY <1>1, <1>2, <1>3, <1>4, <1>5 DEF Next

-----------------------------------------------------------------------------
(* Theorems. *)

\* No event is kept when WaitForRollout has returned: every return stops the watch.
THEOREM MonitorTyped == Spec => []TypeOK
<1>1. Inv => TypeOK
  BY DEF Inv
<1> QED
  BY <1>1, InvHolds, PTL

\* A nil from WaitForRollout is about the caller's generation or a later one, and
\* the controller has seen that one rolled out, whatever the replicas, the writes of
\* others and the age of the events.
THEOREM NilMeansRolledOut == Spec => []OkMeansRolledOut
<1>1. Inv => OkMeansRolledOut
  BY DEF Inv, Answered
<1> QED
  BY <1>1, InvHolds, PTL

\* A wait with nothing left to receive has missed nothing: the Deployment as it is has
\* neither been rolled out nor failed, however many watches were closed on it and
\* whatever they still had under way.
THEOREM NoNewsIsMissed == Spec => []QuietMeansUnfinished
<1>1. Init => UpToDate
  BY DEF Init, UpToDate, EndsWithNow, QuietMeansUnfinished
<1>2. UpToDate => QuietMeansUnfinished
  BY DEF UpToDate
<1> QED
  BY <1>1, <1>2, InvHolds, UpToDateStep, PTL DEF Spec

=============================================================================
