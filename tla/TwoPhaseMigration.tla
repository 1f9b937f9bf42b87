--------------------------- MODULE TwoPhaseMigration ---------------------------
(***************************************************************************)
(* The migration of several Deployments in multi-deployment mode           *)
(* (orchestrator.go): handleMultiDeploymentSpotInterruption groups the     *)
(* affected pods, phaseFanOut patches the Deployments one after the other, *)
(* and phaseObserve starts a goroutine for each patched one, which waits   *)
(* for the rollout, verifies, rolls back on failure and reports on a       *)
(* channel.  The process can be told to stop at any time; from then on     *)
(* every API call fails, and main gives up after ten seconds.              *)
(*                                                                         *)
(* Each API call is a step of its own.  The recovery manager is off: what  *)
(* it and a migration do to one Deployment is the subject of               *)
(* ComputeMigration, and so are the annotations a patch writes, which      *)
(* nothing here reads.                                                     *)
(*                                                                         *)
(* A definition whose comment begins with "Mutant" is a plausible mistake  *)
(* in the definition below it; no specification uses it.                   *)
(***************************************************************************)
CONSTANTS
  Deployments,
  SpotOnly,    \* those whose configuration does not allow Fargate
  Faulty,      \* those whose calls, rollouts and health checks may fail
  Failures,    \* what may fail for them: "api", "rollout", "health"
  Strategies,  \* the rollout strategies a Deployment may start with
  DryRun,      \* config.DryRun
  Stops        \* whether the process may be told to stop

StrategyKinds == {"zero", "quarter", "count", "recreate"}

ASSUME SubsetAssumption ==
  /\ SpotOnly \subseteq Deployments
  /\ Faulty \subseteq Deployments
  /\ Failures \subseteq {"api", "rollout", "health"}
  /\ Strategies \subseteq StrategyKinds
ASSUME SwitchAssumption == DryRun \in BOOLEAN /\ Stops \in BOOLEAN

VARIABLES
  dep,       \* dep[d]: the Deployment on the API server
  phase,     \* where the event loop is
  pc,        \* pc[d]: how far the migration of d is
  ended,     \* ended[d]: how the last migration of d ended
  success,   \* phaseObserve has collected a success
  answer,    \* what the handler has returned, if it is over
  stopping   \* the context is cancelled

vars == <<dep, phase, pc, ended, success, answer, stopping>>

Compute == {"spot", "fargate"}

Deployment ==
  [compute : Compute, strategy : StrategyKinds, rolledOut : BOOLEAN]

\* The steps of one Deployment, in phaseFanOut and in its goroutine.
FanOutSteps == {"strategyGet", "strategyPatch", "patchGet", "patchApply", "restore"}
ObserveSteps ==
  {"wait", "verify", "backGet", "backApply", "backWait", "backRestore"}

\* "affected": its pods are in the event.  "chosen": it is among the
\* DeploymentConfigInfos.  "patched": among the patchedDeployments.  "sent": its
\* result is in the channel.
Labels ==
  {"out", "affected", "chosen", "patched", "sent"} \cup FanOutSteps \cup ObserveSteps

Ends == {"none", "skipped", "migrated", "reverted", "stuck", "interrupted"}

TypeOK ==
  /\ dep \in [Deployments -> Deployment]
  /\ phase \in {"idle", "group", "fanOut", "observe"}
  /\ pc \in [Deployments -> Labels]
  /\ ended \in [Deployments -> Ends]
  /\ success \in BOOLEAN
  /\ answer \in {"none", "nil", "error"}
  /\ stopping \in BOOLEAN

Init ==
  /\ dep \in [Deployments -> {d \in Deployment :
                                d.rolledOut /\ d.strategy \in Strategies}]
  /\ phase = "idle"
  /\ pc = [d \in Deployments |-> "out"]
  /\ ended = [d \in Deployments |-> "none"]
  /\ success = FALSE
  /\ answer = "none"
  /\ stopping = FALSE

-----------------------------------------------------------------------------

\* An API call about d can return an answer, or an error.
Answers == ~stopping
May(d, failure) == d \in Faulty /\ failure \in Failures
Errs(d) == stopping \/ May(d, "api")

\* The migration of d goes on to label l, or ends as e with its own label l.
Goto(d, l) == pc' = [pc EXCEPT ![d] = l] /\ UNCHANGED ended
End(d, e, l) == pc' = [pc EXCEPT ![d] = l] /\ ended' = [ended EXCEPT ![d] = e]

\* A change of the template or the strategy begins a rollout.
SetCompute(d, c) ==
  dep' = [dep EXCEPT ![d].compute = c,
                     ![d].rolledOut = @ /\ dep[d].compute = c]

SetStrategy(d, s) ==
  dep' = [dep EXCEPT ![d].strategy = s,
                     ![d].rolledOut = @ /\ dep[d].strategy = s]

\* IntOrString.IntValue() of a percentage is 0.
IntValueIsZero(strategy) == strategy \in {"zero", "quarter"}

\* The handler returns to the event loop.
Return(a) == phase' = "idle" /\ answer' = a

-----------------------------------------------------------------------------
(* The event loop and the first two steps of the handler. *)

\* The select of the event loop may take an event though the context is done.
Notice(D) ==
  /\ phase = "idle"
  /\ D # {}
  /\ phase' = "group"
  /\ pc' = [d \in Deployments |-> IF d \in D THEN "affected" ELSE "out"]
  /\ answer' = "none"
  /\ UNCHANGED <<dep, ended, success, stopping>>

\* What groupPodsByDeployment and getDeploymentConfigs can return: a Deployment
\* one of whose calls fails is left out without a word.
Groupings ==
  {D \in SUBSET (Deployments \ SpotOnly) :
     /\ \A d \in D : pc[d] = "affected" /\ Answers
     /\ \A d \in Deployments \ (D \cup SpotOnly) : pc[d] = "affected" => Errs(d)}

\* A dry run ends before the first phase, and so does one without Deployments.
FansOut(D) == D # {} /\ ~DryRun

\* Who owns the pods and who allows Fargate nobody changes here, so reading it is
\* one step.
Group ==
  /\ phase = "group"
  /\ \E D \in Groupings :
       IF FansOut(D)
         THEN /\ phase' = "fanOut"
              /\ pc' = [d \in Deployments |-> IF d \in D THEN "chosen" ELSE "out"]
              /\ UNCHANGED answer
         ELSE /\ Return("nil")
              /\ pc' = [d \in Deployments |-> "out"]
  /\ UNCHANGED <<dep, ended, success, stopping>>

-----------------------------------------------------------------------------
(* phaseFanOut: one Deployment after the other, none of them waited for. *)

Begin(d) ==
  /\ phase = "fanOut"
  /\ pc[d] = "chosen"
  /\ \A e \in Deployments : pc[e] \notin FanOutSteps
  /\ Goto(d, "strategyGet")
  /\ UNCHANGED <<dep, phase, success, answer, stopping>>

\* Mutant: an error ends phaseFanOut, not only this turn of its loop.
StrategyGetReturns(d) ==
  /\ pc[d] = "strategyGet"
  /\ \/ /\ Answers
        /\ Goto(d, IF IntValueIsZero(dep[d].strategy) THEN "patchGet"
                                                      ELSE "strategyPatch")
        /\ UNCHANGED <<phase, answer>>
     \/ /\ Errs(d)
        /\ Return("error")
        /\ pc' = [e \in Deployments |-> "out"]
        /\ ended' = [ended EXCEPT ![d] = "skipped"]
  /\ UNCHANGED <<dep, success, stopping>>

StrategyGet(d) ==
  /\ pc[d] = "strategyGet"
  /\ \/ /\ Answers
        /\ Goto(d, IF IntValueIsZero(dep[d].strategy) THEN "patchGet"
                                                      ELSE "strategyPatch")
     \/ Errs(d) /\ End(d, "skipped", "out")
  /\ UNCHANGED <<dep, phase, success, answer, stopping>>

\* Mutant: an error of the strategy patch is only a warning.
StrategyPatchOptional(d) ==
  /\ pc[d] = "strategyPatch"
  /\ \/ Answers /\ dep[d].strategy # "recreate" /\ SetStrategy(d, "zero")
     \/ (Errs(d) \/ dep[d].strategy = "recreate") /\ UNCHANGED dep
  /\ Goto(d, "patchGet")
  /\ UNCHANGED <<phase, success, answer, stopping>>

\* A Recreate Deployment refuses the patch; any other error may be that of a patch
\* the API server has applied, when its answer is lost or the context is
\* cancelled in the middle of the call.
StrategyPatch(d) ==
  /\ pc[d] = "strategyPatch"
  /\ \/ /\ Answers
        /\ dep[d].strategy # "recreate"
        /\ SetStrategy(d, "zero")
        /\ Goto(d, "patchGet")
     \/ /\ Errs(d) \/ dep[d].strategy = "recreate"
        /\ \/ UNCHANGED dep
           \/ dep[d].strategy # "recreate" /\ SetStrategy(d, "zero")
        /\ End(d, "skipped", "out")
  /\ UNCHANGED <<phase, success, answer, stopping>>

PatchGet(d) ==
  /\ pc[d] = "patchGet"
  /\ \/ /\ Answers
        /\ Goto(d, IF dep[d].compute = "fargate" THEN "patched" ELSE "patchApply")
     \/ Errs(d) /\ Goto(d, "restore")
  /\ UNCHANGED <<dep, phase, success, answer, stopping>>

\* Mutant: a failed patch is logged, and its Deployment observed.
PatchApplyBlind(d) ==
  /\ pc[d] = "patchApply"
  /\ \/ Answers /\ SetCompute(d, "fargate")
     \/ Errs(d) /\ UNCHANGED dep
  /\ Goto(d, "patched")
  /\ UNCHANGED <<phase, success, answer, stopping>>

\* A patch that failed has changed nothing, or was applied without an answer: its
\* Deployment is on its way to Fargate, and phaseFanOut leaves it out.
PatchApply(d) ==
  /\ pc[d] = "patchApply"
  /\ \/ /\ Answers
        /\ SetCompute(d, "fargate")
        /\ Goto(d, "patched")
     \/ /\ Errs(d)
        /\ UNCHANGED dep \/ SetCompute(d, "fargate")
        /\ Goto(d, "restore")
  /\ UNCHANGED <<phase, success, answer, stopping>>

\* rollbackZeroDowntimeStrategyForDeployment, whose failure is only logged: a
\* patch that went through without an answer is one that went through.
Restored(d) ==
  \/ dep[d].strategy # "recreate" /\ SetStrategy(d, "quarter")
  \/ (Errs(d) \/ dep[d].strategy = "recreate") /\ UNCHANGED dep

Restore(d) ==
  /\ pc[d] = "restore"
  /\ Restored(d)
  /\ End(d, "skipped", "out")
  /\ UNCHANGED <<phase, success, answer, stopping>>

-----------------------------------------------------------------------------
(* phaseObserve: a goroutine for each patched Deployment. *)

Observe ==
  /\ phase = "fanOut"
  /\ \A d \in Deployments : pc[d] \in {"out", "patched"}
  /\ IF \E d \in Deployments : pc[d] = "patched"
       THEN /\ phase' = "observe"
            /\ pc' = [d \in Deployments |-> IF pc[d] = "patched" THEN "wait" ELSE pc[d]]
            /\ UNCHANGED answer
       ELSE Return("nil") /\ UNCHANGED pc
  /\ UNCHANGED <<dep, ended, success, stopping>>

\* WaitForRollout: an error is an API error, a failed rollout or a time-out.
WaitErrs(d) == Errs(d) \/ May(d, "rollout")

Wait(d) ==
  /\ pc[d] = "wait"
  /\ \/ Answers /\ dep[d].rolledOut /\ Goto(d, "verify")
     \/ WaitErrs(d) /\ Goto(d, "backGet")
  /\ UNCHANGED <<dep, phase, success, answer, stopping>>

\* verifyDeploymentMigration: pods of the Deployment, endpoints of its service.
VerifyErrs(d) == Errs(d) \/ May(d, "health")

Verify(d) ==
  /\ pc[d] = "verify"
  /\ \/ Answers /\ End(d, "migrated", "sent")
     \/ VerifyErrs(d) /\ Goto(d, "backGet")
  /\ UNCHANGED <<dep, phase, success, answer, stopping>>

\* rollbackDeploymentMigration, always to Spot.
BackGet(d) ==
  /\ pc[d] = "backGet"
  /\ \/ Answers /\ Goto(d, IF dep[d].compute = "spot" THEN "backWait" ELSE "backApply")
     \/ Errs(d) /\ End(d, "stuck", "sent")
  /\ UNCHANGED <<dep, phase, success, answer, stopping>>

\* Mutant: the rollback patches a Deployment of the event, not its own.
BackApplyOfAnother(d) ==
  /\ pc[d] = "backApply"
  /\ \/ /\ Answers
        /\ \E e \in Deployments : pc[e] # "out" /\ SetCompute(e, "spot")
        /\ Goto(d, "backWait")
     \/ Errs(d) /\ End(d, "stuck", "sent") /\ UNCHANGED dep
  /\ UNCHANGED <<phase, success, answer, stopping>>

BackApply(d) ==
  /\ pc[d] = "backApply"
  /\ \/ /\ Answers
        /\ SetCompute(d, "spot")
        /\ Goto(d, "backWait")
     \/ /\ Errs(d)
        /\ UNCHANGED dep \/ SetCompute(d, "spot")
        /\ End(d, "stuck", "sent")
  /\ UNCHANGED <<phase, success, answer, stopping>>

\* Mutant: the goroutine returns without a result when its rollback fails.
BackWaitSilent(d) ==
  /\ pc[d] = "backWait"
  /\ \/ Answers /\ dep[d].rolledOut /\ Goto(d, "backRestore")
     \/ WaitErrs(d) /\ End(d, "stuck", "out")
  /\ UNCHANGED <<dep, phase, success, answer, stopping>>

BackWait(d) ==
  /\ pc[d] = "backWait"
  /\ \/ Answers /\ dep[d].rolledOut /\ Goto(d, "backRestore")
     \/ WaitErrs(d) /\ End(d, "stuck", "sent")
  /\ UNCHANGED <<dep, phase, success, answer, stopping>>

BackRestore(d) ==
  /\ pc[d] = "backRestore"
  /\ Restored(d)
  /\ End(d, "reverted", "sent")
  /\ UNCHANGED <<phase, success, answer, stopping>>

Succeeded(d) == success \/ ended[d] = "migrated"

\* Mutant: the first success is enough to return.
CollectFirst(d) ==
  /\ pc[d] = "sent"
  /\ pc' = [pc EXCEPT ![d] = "out"]
  /\ IF Succeeded(d) \/ \A e \in Deployments \ {d} : pc[e] = "out"
       THEN Return(IF Succeeded(d) THEN "nil" ELSE "error") /\ success' = FALSE
       ELSE success' = Succeeded(d) /\ UNCHANGED <<phase, answer>>
  /\ UNCHANGED <<dep, ended, stopping>>

\* The handler receives a result and returns with the last one: with nil if a
\* Deployment has migrated, and otherwise with an error, which the event loop
\* makes the status "error".
Collect(d) ==
  /\ pc[d] = "sent"
  /\ pc' = [pc EXCEPT ![d] = "out"]
  /\ IF \A e \in Deployments \ {d} : pc[e] = "out"
       THEN Return(IF Succeeded(d) THEN "nil" ELSE "error") /\ success' = FALSE
       ELSE success' = Succeeded(d) /\ UNCHANGED <<phase, answer>>
  /\ UNCHANGED <<dep, ended, stopping>>

-----------------------------------------------------------------------------
(* The environment: the Deployment controller and the operating system. *)

RolloutCompletes(d) ==
  /\ ~dep[d].rolledOut
  /\ dep' = [dep EXCEPT ![d].rolledOut = TRUE]
  /\ UNCHANGED <<phase, pc, ended, success, answer, stopping>>

PodsLost(d) ==
  /\ May(d, "health")
  /\ dep[d].rolledOut
  /\ dep' = [dep EXCEPT ![d].rolledOut = FALSE]
  /\ UNCHANGED <<phase, pc, ended, success, answer, stopping>>

\* SIGTERM cancels the context.
Stop ==
  /\ Stops
  /\ ~stopping
  /\ stopping' = TRUE
  /\ UNCHANGED <<dep, phase, pc, ended, success, answer>>

\* main returns once the event loop has, or ten seconds later; the process is
\* started again.
InMigration(d) ==
  pc[d] \in FanOutSteps \cup {"patched"} \cup ObserveSteps

Exit ==
  /\ stopping
  /\ stopping' = FALSE
  /\ phase' = "idle"
  /\ pc' = [d \in Deployments |-> "out"]
  /\ ended' = [d \in Deployments |-> IF InMigration(d) THEN "interrupted" ELSE ended[d]]
  /\ success' = FALSE
  /\ answer' = "none"
  /\ UNCHANGED dep

-----------------------------------------------------------------------------

Handler ==
  \/ Group
  \/ \E d \in Deployments :
       \/ Begin(d) \/ StrategyGet(d) \/ StrategyPatch(d)
       \/ PatchGet(d) \/ PatchApply(d) \/ Restore(d)
  \/ Observe
  \/ \E d \in Deployments : Collect(d)

Observer(d) ==
  \/ Wait(d) \/ Verify(d)
  \/ BackGet(d) \/ BackApply(d) \/ BackWait(d) \/ BackRestore(d)

Next ==
  \/ \E D \in SUBSET Deployments : Notice(D)
  \/ Handler
  \/ \E d \in Deployments :
       Observer(d) \/ RolloutCompletes(d) \/ PodsLost(d)
  \/ Stop
  \/ Exit

Spec == Init /\ [][Next]_vars

\* The goroutines run and every API call returns, rollouts that can complete do.
\* Nobody owes a notice, a failure or a stop.
Fairness ==
  /\ WF_vars(Handler)
  /\ \A d \in Deployments : WF_vars(Observer(d)) /\ WF_vars(RolloutCompletes(d))

FairSpec == Spec /\ Fairness

-----------------------------------------------------------------------------

\* No goroutine of phaseObserve outlives the handler that started it: the next
\* notice never meets a rollback of the last one, and no result is left in a
\* channel.
ObserversDone == phase = "idle" => \A d \in Deployments : pc[d] = "out"

\* The handler never receives from a channel nobody will send on: while it does not
\* return, a goroutine has still to send its result or a result is in the channel.
SomebodyReports ==
  phase = "observe" => \E d \in Deployments : pc[d] \in {"sent"} \cup ObserveSteps

\* While the rollout to Fargate of a Deployment is under way, maxUnavailable is
\* what the zero-downtime check accepted, whatever happens to the others.
RollsOutWithStrategy ==
  \A d \in Deployments :
    pc[d] \in {"patchGet", "patchApply", "patched", "wait", "verify"} =>
      IntValueIsZero(dep[d].strategy)

\* Where the template is follows from how far the migration is.
TemplateFollows ==
  \A d \in Deployments :
    /\ pc[d] \in {"patched", "wait", "verify", "backGet", "backApply"} =>
         dep[d].compute = "fargate"
    /\ pc[d] \in {"backWait", "backRestore"} => dep[d].compute = "spot"

\* The two phases do not overlap, and no spot-only Deployment is in either.
PhaseFollows ==
  \A d \in Deployments :
    /\ phase = "group" => pc[d] \in {"out", "affected"}
    /\ phase = "fanOut" => pc[d] \in {"out", "chosen", "patched"} \cup FanOutSteps
    /\ phase = "observe" => pc[d] \in {"out", "sent"} \cup ObserveSteps
    /\ d \in SpotOnly => pc[d] \in {"out", "affected"}

\* The inductive invariant.
Inv ==
  /\ TypeOK
  /\ ObserversDone
  /\ RollsOutWithStrategy
  /\ TemplateFollows
  /\ PhaseFollows

\* Where the migration of a Deployment with label l stands; e is how its last one
\* ended.
Stage(l, e) ==
  IF l \in FanOutSteps THEN "begun"
  ELSE IF l \in {"patched", "wait", "verify", "backGet", "backApply"} THEN "moved"
  ELSE IF l \in {"backWait", "backRestore"} THEN "returning"
  ELSE e

Each == INSTANCE IndependentMigrations WITH
          compute <- [d \in Deployments |-> dep[d].compute],
          stage <- [d \in Deployments |-> Stage(pc[d], ended[d])]

\* README: "Each deployment succeeds/fails independently".  The handler with its
\* two phases and all its goroutines implements a migration for each Deployment
\* by itself, in which migrated means on Fargate, reverted means on Spot, and
\* skipped means untouched but for a patch whose answer is missing.
EachIndependent == Each!Spec

\* A Deployment whose own calls, rollout and health checks are in order gets to
\* Fargate, whatever fails for the others.  Recreate is the exception: its
\* strategy cannot be patched.
EachSoundOneMigrates ==
  []~stopping =>
    \A d \in Deployments \ Faulty :
      pc[d] = "chosen" /\ dep[d].strategy # "recreate" ~>
        ended[d] = "migrated" /\ pc[d] = "sent"

\* The handler returns to the event loop: no failure and no cancellation leaves it
\* waiting for a result that is never sent.
HandlerReturns == phase # "idle" ~> phase = "idle"

=============================================================================
