--------------------------- MODULE ComputeMigration ---------------------------
(***************************************************************************)
(* One Deployment and the two goroutines of the orchestrator that move it  *)
(* between Spot and Fargate in single-deployment mode:                     *)
(*                                                                         *)
(*   - the event loop, which on a spot interruption notice runs            *)
(*     handleSingleDeploymentSpotInterruption (orchestrator.go);           *)
(*   - the recovery manager, whose ticker runs attemptDeploymentRecovery   *)
(*     (recovery.go).                                                      *)
(*                                                                         *)
(* They share the Deployment on the API server and the in-memory State,    *)
(* and nothing serialises them.  Each API call is a step of its own, so    *)
(* every interleaving of calls is explored, and so are the writes of the   *)
(* Deployment controller, API errors, failed rollouts, failed health       *)
(* checks and restarts of the process.                                     *)
(*                                                                         *)
(* Time: an annotation time stamp is its age, saturated at Cooldown.  The  *)
(* code compares the age with the cooldown and nothing else, so a missing  *)
(* stamp and an expired one are the same value.                            *)
(*                                                                         *)
(* A definition whose comment begins with "Mutant" is a plausible mistake  *)
(* in the definition below it; no specification uses it.                   *)
(***************************************************************************)
EXTENDS Integers

CONSTANTS
  Cooldown,         \* RecoveryCooldown, in clock ticks
  DryRun,           \* config.DryRun
  RecoveryEnabled,  \* config.RecoveryEnabled
  Failures,         \* what may fail: "api", "rollout", "health"
  Notices,          \* whether spot interruption notices arrive
  Restarts,         \* whether the process may crash and start again
  Strategies        \* the rollout strategies a Deployment may start with

ASSUME CooldownAssumption == Cooldown \in Nat \ {0}
ASSUME SwitchAssumption ==
  /\ DryRun \in BOOLEAN
  /\ RecoveryEnabled \in BOOLEAN
  /\ Notices \in BOOLEAN
  /\ Restarts \in BOOLEAN
ASSUME FailureAssumption == Failures \subseteq {"api", "rollout", "health"}

\* spec.strategy: maxUnavailable 0, "25%" or a positive count, or Recreate,
\* which has no rollingUpdate block.
StrategyKinds == {"zero", "quarter", "count", "recreate"}
ASSUME StrategyAssumption == Strategies \subseteq StrategyKinds

Handler  == "handler"
Recovery == "recovery"
Workers  == {Handler, Recovery}
Compute  == {"spot", "fargate"}
Ages     == 0 .. Cooldown

VARIABLES
  dep,       \* the Deployment on the API server
  copy,      \* the object updateRecoveryAnnotations has read and will write
  fresh,     \* copy still carries the Deployment's resourceVersion
  task,      \* task[w]: where goroutine w is, and its local variables
  cur,       \* State.currentComputeType
  status,    \* State.status
  sinceMove  \* history: age of the last move of the template to Fargate

vars == <<dep, copy, fresh, task, cur, status, sinceMove>>

\* compute: the compute-type label, with the nodeSelector and the tolerations
\* every patch replaces along with it.  annotated: the annotations map exists;
\* state, migrated: the annotations state and migrated-at.  rolledOut: what
\* isRolloutComplete answers for the object as it is now.
Deployment ==
  [compute : Compute, strategy : StrategyKinds, rolledOut : BOOLEAN,
   annotated : BOOLEAN, state : Compute \cup {"none"}, migrated : Ages]

Labels ==
  {"idle", "detectAnnotation", "detectSpec", "remember", "strategyGet",
   "strategyPatch", "patchGet", "patchApply", "annotationGet",
   "annotationInit", "annotationWrite", "wait", "verify", "revert", "restore",
   "fail", "record", "settle", "setSpot", "setHealthy", "setFargate", "noteGet",
   "notePut"}

\* job: the first patch of a migration or recovery, or the patch that reverts
\* it.  target: the computeType argument of PatchComputeTypeWithReason.
\* note: the status argument of updateRecoveryAnnotations.  stamp: the time
\* SetDeploymentState has taken and not yet written.  found: the compute type the
\* event loop has detected and not yet put into State.
Task ==
  [pc : Labels, job : {"forward", "back"}, target : Compute,
   note : {"attempting", "success", "failed"}, stamp : Ages, found : Compute]

TypeOK ==
  /\ dep \in Deployment
  /\ copy \in Deployment
  /\ fresh \in BOOLEAN
  /\ task \in [Workers -> Task]
  /\ cur \in Compute \cup {"unknown"}
  /\ status \in {"healthy", "migrating", "error"}
  /\ sinceMove \in Ages

-----------------------------------------------------------------------------

Blank ==
  [compute |-> "spot", strategy |-> "zero", rolledOut |-> FALSE,
   annotated |-> FALSE, state |-> "none", migrated |-> Cooldown]

Idle ==
  [pc |-> "idle", job |-> "forward", target |-> "fargate",
   note |-> "attempting", stamp |-> Cooldown, found |-> "spot"]

\* NewOrchestrator leaves status "healthy" and the compute type unknown; the
\* Deployment is what an operator, or an earlier run, has left.
Init ==
  /\ dep \in {d \in Deployment :
                /\ d.strategy \in Strategies
                /\ d.rolledOut
                /\ d.state \in {"none", d.compute}
                /\ d.migrated = Cooldown
                /\ d.state # "none" => d.annotated}
  /\ copy = Blank
  /\ fresh = FALSE
  /\ task = [w \in Workers |-> Idle]
  /\ cur = "unknown"
  /\ status = "healthy"
  /\ sinceMove = Cooldown

-----------------------------------------------------------------------------

ApiError == "api" \in Failures

At(w, label) == task[w].pc = label

Goto(w, label) == task' = [task EXCEPT ![w].pc = label]

\* A write by anyone gives the Deployment a new resourceVersion; a patch that
\* changes nothing does not.
Store(d) ==
  /\ dep' = d
  /\ fresh' = (fresh /\ d = dep)

\* A change of spec raises metadata.generation above status.observedGeneration,
\* so the rollout is not complete until the controller has caught up.
WithStrategy(d, s) ==
  [d EXCEPT !.strategy = s, !.rolledOut = @ /\ d.strategy = s]

WithCompute(d, c) ==
  [d EXCEPT !.compute = c, !.rolledOut = @ /\ d.compute = c]

-----------------------------------------------------------------------------
(* The event loop: handleSingleDeploymentSpotInterruption and what it calls. *)

\* The first call of a migration: dry run skips the Kubernetes calls and
\* reports success.
FirstCall == IF DryRun THEN "record" ELSE "strategyGet"

\* A notice leaves the event channel; the loop handles one at a time.
Notice ==
  /\ Notices
  /\ At(Handler, "idle")
  /\ status' = "migrating"
  /\ Goto(Handler, IF cur = "unknown" THEN "detectAnnotation" ELSE FirstCall)
  /\ UNCHANGED <<dep, copy, fresh, cur, sinceMove>>

\* Mutant: the fallback to the template is missing.
DetectedFromAnnotation(d) == d.state

\* GetDeploymentState: the annotation, and without one the template.
Detected(d) == IF d.state = "none" THEN d.compute ELSE d.state

Found(c) ==
  task' = [task EXCEPT ![Handler].found = c, ![Handler].pc = "remember"]

DetectAnnotation ==
  /\ At(Handler, "detectAnnotation")
  /\ \/ Found(Detected(dep))
     \/ ApiError /\ Goto(Handler, "detectSpec")
  /\ UNCHANGED <<dep, copy, fresh, cur, status, sinceMove>>

\* detectCurrentComputeType; when it fails too, spot is assumed.
DetectSpec ==
  /\ At(Handler, "detectSpec")
  /\ \/ Found(dep.compute)
     \/ ApiError /\ Found("spot")
  /\ UNCHANGED <<dep, copy, fresh, cur, status, sinceMove>>

\* SetCurrentComputeType of what was found, though a recovery may have set it in
\* between.
Remember ==
  /\ At(Handler, "remember")
  /\ cur' = task[Handler].found
  /\ task' = [task EXCEPT ![Handler].found = "spot", ![Handler].pc = FirstCall]
  /\ UNCHANGED <<dep, copy, fresh, status, sinceMove>>

\* IntOrString.IntValue() of a percentage is 0, whatever the percentage.
IntValueIsZero(strategy) == strategy \in {"zero", "quarter"}

\* ensureZeroDowntimeStrategy: the read ...
StrategyGet ==
  /\ At(Handler, "strategyGet")
  /\ \/ Goto(Handler, IF IntValueIsZero(dep.strategy) THEN "patchGet"
                                                     ELSE "strategyPatch")
     \/ ApiError /\ Goto(Handler, "fail")
  /\ UNCHANGED <<dep, copy, fresh, cur, status, sinceMove>>

\* Mutant: an error of ensureZeroDowntimeStrategy is only a warning.
StrategyPatchOptional ==
  /\ At(Handler, "strategyPatch")
  /\ \/ /\ dep.strategy # "recreate"
        /\ Store(WithStrategy(dep, "zero"))
     \/ /\ ApiError \/ dep.strategy = "recreate"
        /\ UNCHANGED <<dep, fresh>>
  /\ Goto(Handler, "patchGet")
  /\ UNCHANGED <<copy, cur, status, sinceMove>>

\* ... and the JSON patch, which a Recreate Deployment refuses: it has no
\* rollingUpdate to replace maxUnavailable in.  An error leaves open whether the
\* patch was applied: the answer may be what was lost.
StrategyPatch ==
  /\ At(Handler, "strategyPatch")
  /\ \/ /\ dep.strategy # "recreate"
        /\ Store(WithStrategy(dep, "zero"))
        /\ \/ Goto(Handler, "patchGet")
           \/ ApiError /\ Goto(Handler, "fail")
     \/ /\ ApiError \/ dep.strategy = "recreate"
        /\ Goto(Handler, "fail")
        /\ UNCHANGED <<dep, fresh>>
  /\ UNCHANGED <<copy, cur, status, sinceMove>>

\* Mutant: a rollback that went well ends the migration with nil.
RestoreAndSucceed ==
  /\ At(Handler, "restore")
  /\ \/ /\ dep.strategy # "recreate"
        /\ Store(WithStrategy(dep, "quarter"))
     \/ /\ ApiError \/ dep.strategy = "recreate"
        /\ UNCHANGED <<dep, fresh>>
  /\ Goto(Handler, IF task[Handler].job = "back" THEN "record" ELSE "fail")
  /\ UNCHANGED <<copy, cur, status, sinceMove>>

\* rollbackZeroDowntimeStrategy: "25%" whatever the strategy was before; its
\* failure is logged and ignored by both callers, which then return an error.
Restore ==
  /\ At(Handler, "restore")
  /\ \/ /\ dep.strategy # "recreate"
        /\ Store(WithStrategy(dep, "quarter"))
     \/ /\ ApiError \/ dep.strategy = "recreate"
        /\ UNCHANGED <<dep, fresh>>
  /\ Goto(Handler, "fail")
  /\ UNCHANGED <<copy, cur, status, sinceMove>>

\* Mutant: the failure path forgets SetStatus("error").
FailSilently ==
  /\ At(Handler, "fail")
  /\ task' = [task EXCEPT ![Handler] = Idle]
  /\ UNCHANGED <<dep, copy, fresh, cur, status, sinceMove>>

\* The migration returned an error.
Fail ==
  /\ At(Handler, "fail")
  /\ status' = "error"
  /\ task' = [task EXCEPT ![Handler] = Idle]
  /\ UNCHANGED <<dep, copy, fresh, cur, sinceMove>>

\* The migration returned nil: SetCurrentComputeType, then SetStatus.
Record ==
  /\ At(Handler, "record")
  /\ cur' = "fargate"
  /\ Goto(Handler, "settle")
  /\ UNCHANGED <<dep, copy, fresh, status, sinceMove>>

Settle ==
  /\ At(Handler, "settle")
  /\ status' = "healthy"
  /\ task' = [task EXCEPT ![Handler] = Idle]
  /\ UNCHANGED <<dep, copy, fresh, cur, sinceMove>>

-----------------------------------------------------------------------------
(* What both goroutines call: PatchComputeTypeWithReason, WaitForRollout and *)
(* verifyMigration, for a patch forward and for the patch that reverts it.   *)

\* Where a goroutine goes when PatchComputeTypeWithReason returns an error.
NoteFailure(w) == [task[w] EXCEPT !.pc = "noteGet", !.note = "failed"]

AfterPatchError(w) ==
  IF w = Recovery
    THEN NoteFailure(w)
    ELSE [task[w] EXCEPT !.pc = IF task[w].job = "forward" THEN "restore"
                                                             ELSE "fail"]

\* The read that decides whether there is anything to patch.
PatchGet(w) ==
  /\ At(w, "patchGet")
  /\ \/ Goto(w, IF dep.compute = task[w].target THEN "wait" ELSE "patchApply")
     \/ ApiError /\ task' = [task EXCEPT ![w] = AfterPatchError(w)]
  /\ UNCHANGED <<dep, copy, fresh, cur, status, sinceMove>>

\* Mutant: the revert does not record the state it restores.
PatchApplyUnrecorded(w) ==
  /\ At(w, "patchApply")
  /\ Store(WithCompute(dep, task[w].target))
  /\ Goto(w, IF task[w].job = "back" THEN "wait" ELSE "annotationGet")
  /\ UNCHANGED <<copy, cur, status, sinceMove>>

\* The JSON patch carries no resourceVersion: it applies to whatever the
\* Deployment has become since it was read.  After an error it may have, too.
PatchApply(w) ==
  /\ At(w, "patchApply")
  /\ \/ /\ Store(WithCompute(dep, task[w].target))
        /\ sinceMove' = IF dep.compute = "spot" /\ task[w].target = "fargate"
                          THEN 0 ELSE sinceMove
        /\ \/ Goto(w, "annotationGet")
           \/ ApiError /\ task' = [task EXCEPT ![w] = AfterPatchError(w)]
     \/ /\ ApiError
        /\ task' = [task EXCEPT ![w] = AfterPatchError(w)]
        /\ UNCHANGED <<dep, fresh, sinceMove>>
  /\ UNCHANGED <<copy, cur, status>>

\* SetDeploymentState takes the time, then reads whether there are annotations.
\* Any error from here to AnnotationWrite is logged and forgotten.
AnnotationGet(w) ==
  /\ At(w, "annotationGet")
  /\ \/ task' = [task EXCEPT ![w].stamp = 0,
                   ![w].pc = IF dep.annotated THEN "annotationWrite"
                                              ELSE "annotationInit"]
     \/ ApiError /\ Goto(w, "wait")
  /\ UNCHANGED <<dep, copy, fresh, cur, status, sinceMove>>

\* "add /metadata/annotations {}" replaces a map that has appeared meanwhile.
AnnotationInit(w) ==
  /\ At(w, "annotationInit")
  /\ \/ /\ Store([dep EXCEPT !.annotated = TRUE, !.state = "none",
                             !.migrated = Cooldown])
        /\ Goto(w, "annotationWrite")
     \/ /\ ApiError
        /\ \/ Store([dep EXCEPT !.annotated = TRUE, !.state = "none",
                                !.migrated = Cooldown])
           \/ UNCHANGED <<dep, fresh>>
        /\ task' = [task EXCEPT ![w].pc = "wait", ![w].stamp = Cooldown]
  /\ UNCHANGED <<copy, cur, status, sinceMove>>

AnnotationWrite(w) ==
  /\ At(w, "annotationWrite")
  /\ \/ Store([dep EXCEPT !.state = task[w].target, !.migrated = task[w].stamp])
     \/ ApiError /\ UNCHANGED <<dep, fresh>>
  /\ task' = [task EXCEPT ![w].pc = "wait", ![w].stamp = Cooldown]
  /\ UNCHANGED <<copy, cur, status, sinceMove>>

\* Mutant: the event loop does not tell a rollback from a migration.
AfterWaitVerifies(w) ==
  IF w = Handler \/ task[w].job = "forward" THEN "verify" ELSE "setFargate"

\* WaitForRollout returns nil once it has seen the rollout complete, whoever's
\* patch that was; a time-out, a failed rollout or a watch error end it too.
AfterWait(w) ==
  CASE task[w].job = "forward" -> "verify"
    [] w = Handler             -> "restore"
    [] OTHER                   -> "setFargate"

\* Mutant: a failed rollout of the recovery is recorded and not reverted.
AfterWaitErrorKept(w) ==
  IF w = Recovery THEN NoteFailure(w) ELSE [task[w] EXCEPT !.pc = "revert"]

AfterWaitError(w) ==
  CASE task[w].job = "forward" -> [task[w] EXCEPT !.pc = "revert"]
    [] w = Handler             -> [task[w] EXCEPT !.pc = "fail"]
    [] OTHER                   -> NoteFailure(w)

\* Mutant: no time-out.
WaitForEver(w) ==
  /\ At(w, "wait")
  /\ dep.rolledOut /\ Goto(w, AfterWait(w))
  /\ UNCHANGED <<dep, copy, fresh, cur, status, sinceMove>>

Wait(w) ==
  /\ At(w, "wait")
  /\ \/ dep.rolledOut /\ Goto(w, AfterWait(w))
     \/ /\ Failures \cap {"api", "rollout"} # {}
        /\ task' = [task EXCEPT ![w] = AfterWaitError(w)]
  /\ UNCHANGED <<dep, copy, fresh, cur, status, sinceMove>>

\* The look-ups of pods and endpoints fail, or find none that is ready.  One ready
\* pod and one ready endpoint will do, on whatever compute they run: the answer
\* says nothing of dep.compute.
VerifyFails == Failures \cap {"api", "health"} # {}

Verify(w) ==
  /\ At(w, "verify")
  /\ \/ Goto(w, IF w = Handler THEN "record" ELSE "setSpot")
     \/ VerifyFails /\ Goto(w, "revert")
  /\ UNCHANGED <<dep, copy, fresh, cur, status, sinceMove>>

\* rollbackMigration takes its target from State; rollbackToFargate has one.
RollbackTarget(w) ==
  IF w = Handler /\ cur = "fargate" THEN "spot" ELSE "fargate"

Revert(w) ==
  /\ At(w, "revert")
  /\ task' = [task EXCEPT ![w].pc = "patchGet", ![w].job = "back",
                          ![w].target = RollbackTarget(w)]
  /\ UNCHANGED <<dep, copy, fresh, cur, status, sinceMove>>

-----------------------------------------------------------------------------
(* The recovery manager. *)

\* Mutant: the comparison with the cooldown is the wrong way round.
CooldownRunning(d) == d.migrated < Cooldown

\* shouldAttemptRecoveryWithConfig; its backoff never holds a recovery back,
\* because the failed-attempts annotation it reads never parses.
CooldownOver(d) == d.migrated >= Cooldown

\* A tick of the recovery ticker that finds spot nodes and, in one read of the
\* Deployment, Fargate and no cooldown.
RecoveryTick ==
  /\ At(Recovery, "idle")
  /\ RecoveryEnabled
  /\ dep.compute = "fargate"
  /\ CooldownOver(dep)
  /\ task' = [task EXCEPT ![Recovery] =
                [Idle EXCEPT !.pc = "noteGet", !.target = "spot"]]
  /\ UNCHANGED <<dep, copy, fresh, cur, status, sinceMove>>

\* updateRecoveryAnnotations: a Get, then an Update of the whole object, which
\* the API server refuses when the resourceVersion is no longer current.
Noted(d, note) ==
  [d EXCEPT !.annotated = TRUE,
            !.migrated = CASE note = "attempting" -> @
                           [] note = "success"    -> Cooldown
                           [] note = "failed"     -> 0]

AfterNote ==
  IF task[Recovery].note = "attempting"
    THEN [task[Recovery] EXCEPT !.pc = "patchGet"]
    ELSE Idle

NoteGet ==
  /\ At(Recovery, "noteGet")
  /\ \/ /\ copy' = dep
        /\ fresh' = TRUE
        /\ Goto(Recovery, "notePut")
     \/ /\ ApiError
        /\ task' = [task EXCEPT ![Recovery] = AfterNote]
        /\ UNCHANGED <<copy, fresh>>
  /\ UNCHANGED <<dep, cur, status, sinceMove>>

\* Mutant: the Update is forced through, without its resourceVersion.
NotePutForced ==
  /\ At(Recovery, "notePut")
  /\ dep' = Noted(copy, task[Recovery].note)
  /\ task' = [task EXCEPT ![Recovery] = AfterNote]
  /\ copy' = Blank
  /\ fresh' = FALSE
  /\ UNCHANGED <<cur, status, sinceMove>>

NotePut ==
  /\ At(Recovery, "notePut")
  /\ \/ fresh /\ dep' = Noted(copy, task[Recovery].note)
     \/ (~fresh \/ ApiError) /\ UNCHANGED dep
  /\ task' = [task EXCEPT ![Recovery] = AfterNote]
  /\ copy' = Blank
  /\ fresh' = FALSE
  /\ UNCHANGED <<cur, status, sinceMove>>

\* The State of a successful recovery, one setter at a time, and of a
\* successful rollback to Fargate.
SetSpot ==
  /\ At(Recovery, "setSpot")
  /\ cur' = "spot"
  /\ Goto(Recovery, "setHealthy")
  /\ UNCHANGED <<dep, copy, fresh, status, sinceMove>>

SetHealthy ==
  /\ At(Recovery, "setHealthy")
  /\ status' = "healthy"
  /\ task' = [task EXCEPT ![Recovery].pc = "noteGet",
                          ![Recovery].note = "success"]
  /\ UNCHANGED <<dep, copy, fresh, cur, sinceMove>>

SetFargate ==
  /\ At(Recovery, "setFargate")
  /\ cur' = "fargate"
  /\ task' = [task EXCEPT ![Recovery] = NoteFailure(Recovery)]
  /\ UNCHANGED <<dep, copy, fresh, status, sinceMove>>

-----------------------------------------------------------------------------
(* The environment: the Deployment controller, the process and the clock. *)

\* The controller and the kubelets bring the Deployment to its template.
RolloutCompletes ==
  /\ ~dep.rolledOut
  /\ Store([dep EXCEPT !.rolledOut = TRUE])
  /\ UNCHANGED <<copy, task, cur, status, sinceMove>>

\* Pods stop being ready, a reclaimed node's among them.
PodsLost ==
  /\ "health" \in Failures
  /\ dep.rolledOut
  /\ Store([dep EXCEPT !.rolledOut = FALSE])
  /\ UNCHANGED <<copy, task, cur, status, sinceMove>>

\* The controller's revision annotation creates the map.
ControllerAnnotates ==
  /\ ~dep.annotated
  /\ Store([dep EXCEPT !.annotated = TRUE])
  /\ UNCHANGED <<copy, task, cur, status, sinceMove>>

\* Any other status update by the controller: a new resourceVersion only.
StatusUpdate ==
  /\ fresh
  /\ ~dep.rolledOut
  /\ fresh' = FALSE
  /\ UNCHANGED <<dep, copy, task, cur, status, sinceMove>>

Older(age) == IF age < Cooldown THEN age + 1 ELSE Cooldown

Tick ==
  /\ dep' = [dep EXCEPT !.migrated = Older(@)]
  /\ copy' = [copy EXCEPT !.migrated = Older(@)]
  /\ task' = [w \in Workers |-> [task[w] EXCEPT !.stamp = Older(@)]]
  /\ sinceMove' = Older(sinceMove)
  /\ UNCHANGED <<fresh, cur, status>>

\* The process dies and starts again: State and both goroutines are lost, the
\* Deployment is not.
Restart ==
  /\ Restarts
  /\ task' = [w \in Workers |-> Idle]
  /\ copy' = Blank
  /\ fresh' = FALSE
  /\ cur' = "unknown"
  /\ status' = "healthy"
  /\ UNCHANGED <<dep, sinceMove>>

-----------------------------------------------------------------------------

Shared(w) ==
  \/ PatchGet(w) \/ PatchApply(w)
  \/ AnnotationGet(w) \/ AnnotationInit(w) \/ AnnotationWrite(w)
  \/ Wait(w) \/ Verify(w) \/ Revert(w)

HandlerStep ==
  \/ DetectAnnotation \/ DetectSpec \/ Remember \/ StrategyGet \/ StrategyPatch
  \/ Restore \/ Fail \/ Record \/ Settle
  \/ Shared(Handler)

RecoveryStep ==
  \/ RecoveryTick \/ NoteGet \/ NotePut
  \/ SetSpot \/ SetHealthy \/ SetFargate
  \/ Shared(Recovery)

Environment ==
  RolloutCompletes \/ PodsLost \/ ControllerAnnotates \/ StatusUpdate \/ Tick

Next == Notice \/ HandlerStep \/ RecoveryStep \/ Environment \/ Restart

Spec == Init /\ [][Next]_vars

\* Both goroutines keep running, time passes and rollouts that can complete
\* do.  Notices, failures and restarts are never owed.
Fairness ==
  /\ WF_vars(HandlerStep)
  /\ WF_vars(RecoveryStep)
  /\ WF_vars(RolloutCompletes)
  /\ WF_vars(Tick)

FairSpec == Spec /\ Fairness

\* The behaviours in which the goroutines happen to take turns.  The code has no
\* lock that would make them: what holds of SerialSpec and not of Spec is what the
\* missing lock costs.
Serial == At(Handler, "idle") \/ At(Recovery, "idle")

SerialSpec == Init /\ [][Next /\ Serial']_vars

-----------------------------------------------------------------------------
(* Properties that hold. *)

\* Every way out of handleSingleDeploymentSpotInterruption, and a restart in the
\* middle of it, leaves a status other than "migrating" behind, whatever the
\* recovery manager writes meanwhile.
IdleStatusSettled == At(Handler, "idle") => status # "migrating"

\* updateRecoveryAnnotations writes back a whole Deployment it read earlier, and
\* never takes back what the event loop or the controller wrote in between: the
\* template, the strategy and the state annotation are as they were.
UpdateLosesNothing ==
  [][NotePut => /\ dep'.compute = dep.compute
                /\ dep'.strategy = dep.strategy
                /\ dep'.rolledOut = dep.rolledOut
                /\ dep'.state = dep.state]_vars

\* From the strategy check to the patch of the template, maxUnavailable stays
\* what the check read or wrote, though a recovery may run in between.
MigratesWithStrategy ==
  task[Handler].pc \in {"patchGet", "patchApply"}
      /\ task[Handler].job = "forward" =>
    IntValueIsZero(dep.strategy)

\* As long as nobody has written the Deployment since updateRecoveryAnnotations
\* read it, the object it writes back is the Deployment.
CopyCurrent == fresh => copy = dep

\* The inductive invariant of the safety theorems.
Inv == TypeOK /\ CopyCurrent /\ IdleStatusSettled /\ MigratesWithStrategy

\* As long as the goroutines take turns, and without API errors and restarts, the
\* state annotation agrees with the template whenever both are idle, the failed
\* rollouts and their rollbacks included.  When they overlap, it does not: they
\* patch the template and write the annotation in opposite orders.
AnnotationAgrees ==
  At(Handler, "idle") /\ At(Recovery, "idle") =>
    dep.state \in {"none", dep.compute}

\* Whenever State says "healthy" and nothing is under way, its compute type is that
\* of the template, or unknown.  The target of the next rollback rests on it, and
\* nobody compares the two: State is written one to three calls after the template,
\* by either goroutine, on some of the ways out and not on others.  It holds as long
\* as the goroutines take turns and no API call fails; a recovery that moves the
\* Deployment in the middle of a migration leaves State with "fargate" on Spot.
StateAgrees ==
  At(Handler, "idle") /\ At(Recovery, "idle") /\ status = "healthy" =>
    cur \in {"unknown", dep.compute}

\* README: "Automatically rolls back to Fargate if recovery fails".  Without API
\* errors, a recovery that records its failure leaves the template on Fargate.
\* This holds as long as the goroutines take turns; the rollback of a migration
\* that started on Fargate can move it to Spot behind the recovery's back.
FailedRecoveryIsOnFargate ==
  task[Recovery].pc \in {"noteGet", "notePut"} /\ task[Recovery].note = "failed" =>
    dep.compute = "fargate"

\* A notice that has been handled has the Deployment on Fargate or the status
\* "error": no way out of the migration, of its roll back and of their errors ends
\* well anywhere else.  This holds as long as the goroutines take turns.  When they
\* overlap a recovery that finds no migrated-at between the patch of the template
\* and the write of the annotation takes the Deployment back to Spot, and the event
\* loop records "fargate" and "healthy".
Evacuates ==
  [][HandlerStep /\ At(Handler, "idle")' =>
       dep.compute = "fargate" \/ status' = "error"]_vars

\* The event loop always comes back to its channel: no call in a migration
\* blocks for ever.
HandlerReturns == []<>At(Handler, "idle")

\* Once the process stops crashing, a Deployment cannot stay on Fargate for ever
\* while no notice comes and no recovery fails: no cooldown, bookkeeping or lost
\* annotation holds it there.
RecoveryFailing ==
  task[Recovery].job = "back" \/ task[Recovery].note = "failed"

Stranded == At(Handler, "idle") /\ ~RecoveryFailing /\ dep.compute = "fargate"

ComesBackToSpot == <>[][~Restart]_vars => ~<>[]Stranded

-----------------------------------------------------------------------------
(* What the documentation says, and the code does not always do. *)

\* README: recovery respects the cooldown after a migration.  As long as the
\* goroutines take turns it does, without API errors and restarts.  When they
\* overlap it does not even once the migration is over: a recovery it overtook can
\* delete or outdate the migrated-at it wrote, and the next tick starts another.
CooldownRespected ==
  [][RecoveryTick /\ At(Handler, "idle") => sinceMove >= Cooldown]_vars

=============================================================================
