---------------------------- MODULE RolloutMonitor ----------------------------
(***************************************************************************)
(* WaitForRollout (monitor.go): how a goroutine learns that a Deployment   *)
(* it has patched is rolled out.  It reads the Deployment once, then       *)
(* watches it, and opens the watch anew when its channel closes, until the *)
(* rollout is complete, has failed, or the deadline has passed.            *)
(*                                                                         *)
(* What it sees is never the pods but the status the Deployment controller *)
(* last wrote, which is late: a watch event may be older than the          *)
(* Deployment, and the status older than the pods.  Meanwhile others may   *)
(* write the Deployment again.                                             *)
(*                                                                         *)
(* A definition whose comment begins with "Mutant" is a plausible mistake  *)
(* in the definition below it; no specification uses it.                   *)
(***************************************************************************)
EXTENDS Integers, Sequences

CONSTANTS
  Replicas,       \* spec.replicas
  MaxGeneration,  \* bound on the writes of the Deployment's spec
  MaxEvents       \* bound on the events under way in a watch

ASSUME ReplicasAssumption == Replicas \in Nat \ {0}
ASSUME BoundAssumption == MaxGeneration \in Nat \ {0} /\ MaxEvents \in Nat \ {0}

VARIABLES
  dep,      \* the Deployment on the API server: its generation and status
  pods,     \* the pods there really are
  template, \* the generation that last changed the pod template
  pc,       \* where WaitForRollout is
  stream,   \* the events of the open watch that are not yet received
  expired,  \* the deadline has passed, or the caller's context is done
  result,   \* what it returned
  mine,     \* history: the generation when it was called
  seen,     \* history: the generation whose status ended it
  rolled,   \* history: the generations the controller has seen rolled out
  blame     \* history: the generation the controller last reported failing

wait == <<pc, stream, expired, result, mine, seen>>
vars == <<dep, pods, template, wait, rolled, blame>>

Generations == 0 .. MaxGeneration
Counts == 0 .. Replicas

\* progressing: status and reason of the condition Progressing; failure: the
\* condition ReplicaFailure is True.
Deployment ==
  [generation : Generations, observed : Generations,
   updated : Counts, ready : Nat, available : Nat,
   progressing : {"progressing", "available", "deadline"}, failure : BOOLEAN]

\* Pods of the current template, and ready pods of older ones.
Pods == [created : Counts, ready : Counts, available : Counts, old : Nat]

\* One call is followed: nothing of a call is left when it returns.
Waiting == {"get", "watch", "select"}
Results == {"none", "ok", "failed", "expired", "error"}

TypeOK ==
  /\ dep \in Deployment
  /\ pods \in Pods
  /\ template \in Generations
  /\ pc \in {"idle", "returned"} \cup Waiting
  /\ stream \in Seq(Deployment) /\ (pc # "select" => stream = <<>>)
  /\ expired \in BOOLEAN
  /\ result \in Results
  /\ mine \in Generations
  /\ seen \in Generations
  /\ rolled \subseteq Generations
  /\ blame \in Generations

\* A Deployment that was created and has come up.
Init ==
  /\ dep = [generation |-> 1, observed |-> 1, updated |-> Replicas,
            ready |-> Replicas, available |-> Replicas,
            progressing |-> "available", failure |-> FALSE]
  /\ pods = [created |-> Replicas, ready |-> Replicas, available |-> Replicas,
             old |-> 0]
  /\ template = 1
  /\ pc = "idle"
  /\ stream = <<>>
  /\ expired = FALSE
  /\ result = "none"
  /\ mine = 0
  /\ seen = 0
  /\ rolled = {1}
  /\ blame = 0

-----------------------------------------------------------------------------
(* The Deployment: writes of its spec, the controller and the kubelets. *)

\* Every write of the Deployment is an event of an open watch.
Store(d) ==
  /\ dep' = d
  /\ IF pc = "select"
       THEN Len(stream) < MaxEvents /\ stream' = Append(stream, d)
       ELSE UNCHANGED stream
  /\ UNCHANGED <<pc, expired, result, mine, seen>>

\* A patch of the template: the pods there are belong to an older one.
NewTemplate ==
  /\ dep.generation < MaxGeneration
  /\ Store([dep EXCEPT !.generation = @ + 1])
  /\ template' = dep.generation + 1
  /\ pods' = [created |-> 0, ready |-> 0, available |-> 0,
              old |-> pods.old + pods.ready]
  /\ UNCHANGED <<rolled, blame>>

\* A patch of the strategy raises the generation too, and leaves the pods alone.
NewStrategy ==
  /\ dep.generation < MaxGeneration
  /\ Store([dep EXCEPT !.generation = @ + 1])
  /\ rolled' = rolled \cup
       (IF dep.generation \in rolled THEN {dep.generation + 1} ELSE {})
  /\ UNCHANGED <<template, pods, blame>>

\* A pod is created, gets ready, is available, is lost, or one of an older
\* template is deleted.
PodsChange ==
  /\ pods' \in
       {[pods EXCEPT !.created = @ + 1], [pods EXCEPT !.ready = @ + 1],
        [pods EXCEPT !.available = @ + 1], [pods EXCEPT !.old = @ - 1],
        [pods EXCEPT !.ready = @ - 1, !.available = @ - 1]} \cap Pods
  /\ pods'.available <= pods'.ready
  /\ pods'.ready <= pods'.created
  /\ UNCHANGED <<dep, template, wait, rolled, blame>>

RolledOut == pods.available = Replicas /\ pods.old = 0

\* Progressing keeps the reason of an earlier rollout until a pod of the new
\* template has been created.
MayKeepReason ==
  IF dep.observed < template THEN pods.created = 0
                             ELSE pods.created <= dep.updated

\* The controller writes the status of what it sees.
Sync(reason, failure) ==
  /\ reason = "available" => RolledOut \/ (dep.progressing = reason /\ MayKeepReason)
  /\ reason = "deadline" => ~RolledOut
  /\ RolledOut => reason = "available" /\ ~failure
  /\ Store([dep EXCEPT !.observed = dep.generation, !.updated = pods.created,
                       !.ready = pods.ready + pods.old,
                       !.available = pods.available + pods.old,
                       !.progressing = reason, !.failure = failure])
  /\ rolled' = rolled \cup (IF RolledOut THEN {dep.generation} ELSE {})
  /\ blame' = IF reason = "deadline" \/ failure THEN dep.generation ELSE blame
  /\ UNCHANGED <<template, pods>>

-----------------------------------------------------------------------------
(* What WaitForRollout makes of a status. *)

\* Mutant: the generation is not compared.
CompleteOfAnyGeneration(d) ==
  /\ d.updated = Replicas /\ d.ready = Replicas /\ d.available = Replicas
  /\ d.progressing = "available"

isRolloutComplete(d) ==
  /\ d.generation = d.observed
  /\ d.updated = Replicas /\ d.ready = Replicas /\ d.available = Replicas
  /\ d.progressing = "available"

isRolloutFailed(d) == d.progressing = "deadline" \/ d.failure

-----------------------------------------------------------------------------
(* WaitForRollout. *)

\* Mutant: the watch is left open.
ReturnWatching(answer, generation) ==
  /\ pc' = "returned"
  /\ result' = answer
  /\ seen' = generation
  /\ UNCHANGED <<stream, expired, mine>>

\* Every return cancels the context and stops the watch.
Return(answer, generation) ==
  /\ pc' = "returned"
  /\ result' = answer
  /\ seen' = generation
  /\ stream' = <<>>
  /\ UNCHANGED <<expired, mine>>

UnchangedCluster == UNCHANGED <<dep, pods, template, rolled, blame>>

Call ==
  /\ pc = "idle"
  /\ pc' = "get"
  /\ mine' = dep.generation
  /\ UNCHANGED <<stream, expired, result, seen>>
  /\ UnchangedCluster

Get ==
  /\ pc = "get"
  /\ \/ isRolloutComplete(dep) /\ Return("ok", dep.generation)
     \/ /\ ~isRolloutComplete(dep)
        /\ pc' = "watch"
        /\ UNCHANGED <<stream, expired, result, mine, seen>>
     \/ Return("error", 0)
  /\ UnchangedCluster

\* A watch without a resource version begins with an Added event of the
\* Deployment as it is.
Open ==
  \/ /\ pc' = "select"
     /\ stream' = <<dep>>
     /\ UNCHANGED <<expired, result, mine, seen>>
  \/ Return("error", 0)

Watch ==
  /\ pc = "watch"
  /\ Open
  /\ UnchangedCluster

\* Events of other types than Added and Modified are skipped; none is modelled.
Receive ==
  /\ pc = "select"
  /\ stream # <<>>
  /\ LET d == Head(stream) IN
       IF isRolloutComplete(d) THEN Return("ok", d.generation)
       ELSE IF isRolloutFailed(d) THEN Return("failed", d.generation)
       ELSE stream' = Tail(stream) /\ UNCHANGED <<pc, expired, result, mine, seen>>
  /\ UnchangedCluster

\* Mutant: the watch goes on from where the Deployment is, without an event.
RestartFromNow ==
  /\ pc = "select"
  /\ \/ /\ stream' = <<>>
        /\ UNCHANGED <<pc, expired, result, mine, seen>>
     \/ Return("error", 0)
  /\ UnchangedCluster

\* The channel closes, with or without an Error event before it, and what was
\* under way is lost.
Restart ==
  /\ pc = "select"
  /\ Open
  /\ UnchangedCluster

\* Mutant: the deadline is looked at between two events only.
TimeoutBetweenEvents ==
  /\ expired
  /\ pc = "select" /\ stream # <<>>
  /\ Return("expired", 0)
  /\ UnchangedCluster

\* The select takes either case when both are ready; a call under way when the
\* deadline passes fails.
Timeout ==
  /\ expired
  /\ pc \in Waiting
  /\ Return("expired", 0)
  /\ UnchangedCluster

Expire ==
  /\ pc \in Waiting
  /\ ~expired
  /\ expired' = TRUE
  /\ UNCHANGED <<pc, stream, result, mine, seen>>
  /\ UnchangedCluster

-----------------------------------------------------------------------------

Cluster ==
  \/ NewTemplate \/ NewStrategy \/ PodsChange
  \/ \E reason \in {"progressing", "available", "deadline"}, failure \in BOOLEAN :
       Sync(reason, failure)

Next == Cluster \/ Call \/ Get \/ Watch \/ Receive \/ Restart \/ Timeout \/ Expire

Spec == Init /\ [][Next]_vars

\* Calls are answered, and a goroutine with something to do does it.  Nothing is
\* owed by the cluster, and neither is a deadline.
Fairness == WF_vars(Get) /\ WF_vars(Watch) /\ WF_vars(Receive) /\ WF_vars(Timeout)

FairSpec == Spec /\ Fairness

-----------------------------------------------------------------------------
(* Properties that hold. *)

\* A wait that returns nil returns it for a generation that is not older than the
\* caller's patch, and which the controller has seen rolled out: every replica of
\* that template was available and no older pod was left.  It never takes the
\* ready pods of the old template, or the status of the old one, for the new.
OkMeansRolledOut == result = "ok" => seen >= mine /\ seen \in rolled

\* A wait that has received all there is waits for good reason: the Deployment as it
\* is, and not only as it was seen, is neither rolled out nor failing.  No write
\* falls between two watches, or between the first read and the first watch.
QuietMeansUnfinished ==
  pc = "select" /\ stream = <<>> => ~isRolloutComplete(dep) /\ ~isRolloutFailed(dep)

\* When the deadline has passed every wait returns.
EndsAtDeadline == pc \in Waiting /\ expired ~> pc = "returned"

\* A rollout that is complete and stays so ends the wait, without the deadline,
\* whatever events were lost with the watches that closed.
NothingMissed ==
  [](pc \in Waiting /\ []isRolloutComplete(dep) => <>(pc = "returned"))

-----------------------------------------------------------------------------
(* What the code says, and does not do. *)

\* monitor.go: "isRolloutFailed checks if the deployment rollout has failed".  A
\* wait fails only for a rollout the controller has reported failing since the
\* caller patched the Deployment.
FailsForItsRollout == result = "failed" => blame >= mine

=============================================================================
