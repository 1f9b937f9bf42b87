------------------------ MODULE TwoPhaseMigration_proofs ------------------------
(***************************************************************************)
(* The invariant of TwoPhaseMigration, and that it implements              *)
(* IndependentMigrations, for every set of Deployments, every choice of    *)
(* faulty ones and of failures, and a stop at any time.                    *)
(***************************************************************************)
EXTENDS TwoPhaseMigration, TLAPS

\* What is required of a Deployment d with template x and label l in phase p.
Fits(p, d, x, l) ==
  /\ x \in Deployment
  /\ l \in Labels
  /\ l \in {"patchGet", "patchApply", "patched", "wait", "verify"} =>
       IntValueIsZero(x.strategy)
  /\ l \in {"patched", "wait", "verify", "backGet", "backApply"} =>
       x.compute = "fargate"
  /\ l \in {"backWait", "backRestore"} => x.compute = "spot"
  /\ p = "idle" => l = "out"
  /\ p = "group" => l \in {"out", "affected"}
  /\ p = "fanOut" => l \in {"out", "chosen", "patched"} \cup FanOutSteps
  /\ p = "observe" => l \in {"out", "sent"} \cup ObserveSteps
  /\ d \in SpotOnly => l \in {"out", "affected"}

AllFit == \A d \in Deployments : Fits(phase, d, dep[d], pc[d])

\* The invariant says of each Deployment that it fits, and nothing that relates
\* two of them.
LEMMA InvIsFits == Inv <=> TypeOK /\ AllFit
<1>1. ASSUME Inv PROVE AllFit
  BY <1>1
     DEF Inv, TypeOK, ObserversDone, RollsOutWithStrategy, TemplateFollows,
         PhaseFollows, AllFit, Fits
<1>2. ASSUME TypeOK, AllFit PROVE Inv
  BY <1>2
     DEF Inv, ObserversDone, RollsOutWithStrategy, TemplateFollows,
         PhaseFollows, AllFit, Fits
<1>3. QED
  BY <1>1, <1>2 DEF Inv

LEMMA FitsIsInv ==
  ASSUME TypeOK', AllFit'
  PROVE  Inv'
BY DEF Inv, ObserversDone, RollsOutWithStrategy, TemplateFollows,
       PhaseFollows, AllFit, Fits

\* Unless a step says so, it has nothing to do with the handler as a whole.
Apart == UNCHANGED <<phase, success, answer, stopping>>

\* A step of one Deployment leaves every other as it is.
LEMMA OneDeployment ==
  ASSUME Inv, NEW d \in Deployments, NEW x, NEW l, NEW e \in Ends,
         dep' = [dep EXCEPT ![d] = x],
         pc' = [pc EXCEPT ![d] = l],
         ended' = [ended EXCEPT ![d] = e],
         Apart,
         Fits(phase, d, x, l)
  PROVE  Inv'
<1>1. TypeOK /\ AllFit
  BY InvIsFits
<1>2. TypeOK'
  BY <1>1 DEF TypeOK, Fits, Apart
<1>3. \A f \in Deployments \ {d} : dep'[f] = dep[f] /\ pc'[f] = pc[f]
  BY <1>1 DEF TypeOK
<1>4. dep'[d] = x /\ pc'[d] = l
  BY <1>1 DEF TypeOK
<1>5. AllFit'
  BY <1>1, <1>3, <1>4 DEF AllFit, Apart
<1>6. QED
  BY <1>2, <1>5, FitsIsInv

\* Its three forms: the template, the label or the result stays.
LEMMA GotoInv ==
  ASSUME Inv, NEW d \in Deployments, NEW l, Goto(d, l), UNCHANGED dep, Apart,
         Fits(phase, d, dep[d], l)
  PROVE  Inv'
<1>1. dep' = [dep EXCEPT ![d] = dep[d]] /\ ended' = [ended EXCEPT ![d] = ended[d]]
  BY DEF Inv, TypeOK, Goto
<1>2. ended[d] \in Ends
  BY DEF Inv, TypeOK
<1>3. QED
  BY <1>1, <1>2, OneDeployment DEF Goto

LEMMA EndInv ==
  ASSUME Inv, NEW d \in Deployments, NEW e \in Ends, NEW l, End(d, e, l),
         UNCHANGED dep, Apart, Fits(phase, d, dep[d], l)
  PROVE  Inv'
<1>1. dep' = [dep EXCEPT ![d] = dep[d]]
  BY DEF Inv, TypeOK
<1>2. QED
  BY <1>1, OneDeployment DEF End

\* What a change of compute type or strategy makes of a Deployment.
LEMMA SetComputeIs ==
  ASSUME TypeOK, NEW d \in Deployments, NEW c \in Compute, SetCompute(d, c)
  PROVE  \E x \in Deployment :
           /\ dep' = [dep EXCEPT ![d] = x]
           /\ x.compute = c /\ x.strategy = dep[d].strategy
<1> DEFINE x == [dep[d] EXCEPT !.compute = c,
                               !.rolledOut = @ /\ dep[d].compute = c]
<1>1. dep[d] \in Deployment
  BY DEF TypeOK
<1>2. x \in Deployment /\ x.compute = c /\ x.strategy = dep[d].strategy
  BY <1>1 DEF Deployment
<1>3. dep' = [dep EXCEPT ![d] = x]
  BY <1>1 DEF SetCompute, TypeOK, Deployment
<1>4. QED
  BY <1>2, <1>3

LEMMA SetStrategyIs ==
  ASSUME TypeOK, NEW d \in Deployments, NEW s \in StrategyKinds, SetStrategy(d, s)
  PROVE  \E x \in Deployment :
           /\ dep' = [dep EXCEPT ![d] = x]
           /\ x.strategy = s /\ x.compute = dep[d].compute
<1> DEFINE x == [dep[d] EXCEPT !.strategy = s,
                               !.rolledOut = @ /\ dep[d].strategy = s]
<1>1. dep[d] \in Deployment
  BY DEF TypeOK
<1>2. x \in Deployment /\ x.strategy = s /\ x.compute = dep[d].compute
  BY <1>1 DEF Deployment
<1>3. dep' = [dep EXCEPT ![d] = x]
  BY <1>1 DEF SetStrategy, TypeOK, Deployment
<1>4. QED
  BY <1>2, <1>3

LEMMA RestoredIs ==
  ASSUME TypeOK, NEW d \in Deployments, Restored(d)
  PROVE  \E x \in Deployment :
           dep' = [dep EXCEPT ![d] = x] /\ x.compute = dep[d].compute
<1>1. CASE UNCHANGED dep
  BY <1>1 DEF TypeOK
<1>2. CASE SetStrategy(d, "quarter")
  BY <1>2, SetStrategyIs DEF StrategyKinds
<1>3. QED
  BY <1>1, <1>2 DEF Restored

LEMMA InitInv == Init => Inv
<1> SUFFICES ASSUME Init PROVE Inv
  OBVIOUS
<1>1. TypeOK
  BY SubsetAssumption DEF Init, TypeOK, Labels, Ends
<1>2. AllFit
  BY <1>1 DEF Init, TypeOK, AllFit, Fits, Labels
<1>3. QED
  BY <1>1, <1>2, InvIsFits

-----------------------------------------------------------------------------
(* The fan-out. *)

\* A Deployment in the fan-out is not spot-only, and the phase is the first; a
\* Deployment in its goroutine likewise in the second.
LEMMA InFanOut ==
  ASSUME Inv, NEW d \in Deployments, pc[d] \in FanOutSteps
  PROVE  phase = "fanOut" /\ d \notin SpotOnly
BY InvIsFits DEF AllFit, Fits, TypeOK, FanOutSteps, ObserveSteps

LEMMA InObserve ==
  ASSUME Inv, NEW d \in Deployments, pc[d] \in ObserveSteps
  PROVE  phase = "observe" /\ d \notin SpotOnly
BY InvIsFits DEF AllFit, Fits, TypeOK, FanOutSteps, ObserveSteps

\* What a Deployment needs to fit, in either phase, besides its type.
LEMMA FitsFanOut ==
  ASSUME phase = "fanOut", NEW d \in Deployments, d \notin SpotOnly,
         NEW x \in Deployment, NEW l,
         l \in {"out", "patched"} \cup FanOutSteps,
         l \in {"patchGet", "patchApply", "patched"} => IntValueIsZero(x.strategy),
         l = "patched" => x.compute = "fargate"
  PROVE  Fits(phase, d, x, l)
BY DEF Fits, Labels, FanOutSteps

LEMMA FitsObserve ==
  ASSUME phase = "observe", NEW d \in Deployments, d \notin SpotOnly,
         NEW x \in Deployment, NEW l,
         l \in {"out", "sent"} \cup ObserveSteps,
         l \in {"wait", "verify"} => IntValueIsZero(x.strategy),
         l \in {"wait", "verify", "backGet", "backApply"} => x.compute = "fargate",
         l \in {"backWait", "backRestore"} => x.compute = "spot"
  PROVE  Fits(phase, d, x, l)
BY DEF Fits, Labels, ObserveSteps

\* What the invariant says of the Deployment of a step.
LEMMA Here ==
  ASSUME Inv, NEW d \in Deployments
  PROVE  /\ TypeOK
         /\ dep[d] \in Deployment
         /\ Fits(phase, d, dep[d], pc[d])
BY InvIsFits DEF TypeOK, AllFit

LEMMA BeginInv ==
  ASSUME Inv, NEW d \in Deployments, Begin(d)
  PROVE  Inv'
<1>1. d \notin SpotOnly
  BY Here DEF Begin, Fits
<1>2. Fits(phase, d, dep[d], "strategyGet")
  BY <1>1, Here, FitsFanOut DEF Begin, FanOutSteps
<1>3. QED
  BY <1>2, GotoInv DEF Begin, Apart

LEMMA StrategyGetInv ==
  ASSUME Inv, NEW d \in Deployments, StrategyGet(d)
  PROVE  Inv'
<1>1. phase = "fanOut" /\ d \notin SpotOnly
  BY InFanOut DEF StrategyGet, FanOutSteps
<1>2. UNCHANGED dep /\ Apart
  BY DEF StrategyGet, Apart
<1>3. CASE Goto(d, IF IntValueIsZero(dep[d].strategy) THEN "patchGet"
                                                      ELSE "strategyPatch")
  <2>1. CASE IntValueIsZero(dep[d].strategy)
    <3>1. Fits(phase, d, dep[d], "patchGet")
      BY <1>1, <2>1, Here, FitsFanOut DEF FanOutSteps
    <3>2. QED
      BY <1>2, <1>3, <2>1, <3>1, GotoInv
  <2>2. CASE ~IntValueIsZero(dep[d].strategy)
    <3>1. Fits(phase, d, dep[d], "strategyPatch")
      BY <1>1, Here, FitsFanOut DEF FanOutSteps
    <3>2. QED
      BY <1>2, <1>3, <2>2, <3>1, GotoInv
  <2>3. QED
    BY <2>1, <2>2
<1>4. CASE End(d, "skipped", "out")
  <2>1. Fits(phase, d, dep[d], "out")
    BY <1>1, Here, FitsFanOut
  <2>2. QED
    BY <1>2, <1>4, <2>1, EndInv DEF Ends
<1>5. QED
  BY <1>3, <1>4 DEF StrategyGet

LEMMA StrategyPatchInv ==
  ASSUME Inv, NEW d \in Deployments, StrategyPatch(d)
  PROVE  Inv'
<1>1. phase = "fanOut" /\ d \notin SpotOnly
  BY InFanOut DEF StrategyPatch, FanOutSteps
<1>2. Apart
  BY DEF StrategyPatch, Apart
<1>3. CASE SetStrategy(d, "zero") /\ Goto(d, "patchGet")
  <2>1. PICK x \in Deployment : dep' = [dep EXCEPT ![d] = x] /\ x.strategy = "zero"
    BY <1>3, Here, SetStrategyIs DEF StrategyKinds
  <2>2. Fits(phase, d, x, "patchGet")
    BY <1>1, <2>1, FitsFanOut DEF FanOutSteps, IntValueIsZero
  <2>3. ended' = [ended EXCEPT ![d] = ended[d]] /\ ended[d] \in Ends
    BY <1>3, Here DEF Goto, TypeOK
  <2>4. QED
    BY <1>2, <1>3, <2>1, <2>2, <2>3, OneDeployment DEF Goto
<1>4. CASE End(d, "skipped", "out") /\ (UNCHANGED dep \/ SetStrategy(d, "zero"))
  <2>1. PICK x \in Deployment : dep' = [dep EXCEPT ![d] = x]
    <3>1. CASE UNCHANGED dep
      BY <3>1, Here DEF TypeOK
    <3>2. CASE SetStrategy(d, "zero")
      BY <3>2, Here, SetStrategyIs DEF StrategyKinds
    <3>3. QED
      BY <1>4, <3>1, <3>2
  <2>2. Fits(phase, d, x, "out")
    BY <1>1, FitsFanOut
  <2>3. QED
    BY <1>2, <1>4, <2>1, <2>2, OneDeployment DEF End, Ends
<1>5. QED
  BY <1>3, <1>4 DEF StrategyPatch

LEMMA PatchGetInv ==
  ASSUME Inv, NEW d \in Deployments, PatchGet(d)
  PROVE  Inv'
<1>1. phase = "fanOut" /\ d \notin SpotOnly
  BY InFanOut DEF PatchGet, FanOutSteps
<1>2. UNCHANGED dep /\ Apart /\ IntValueIsZero(dep[d].strategy)
  BY Here DEF PatchGet, Apart, Fits
<1>3. \/ dep[d].compute = "fargate" /\ Goto(d, "patched")
      \/ Goto(d, "patchApply")
      \/ Goto(d, "restore")
  BY DEF PatchGet
<1>4. /\ dep[d].compute = "fargate" => Fits(phase, d, dep[d], "patched")
      /\ Fits(phase, d, dep[d], "patchApply")
      /\ Fits(phase, d, dep[d], "restore")
  BY <1>1, <1>2, Here, FitsFanOut DEF FanOutSteps
<1>5. QED
  BY <1>2, <1>3, <1>4, GotoInv

LEMMA PatchApplyInv ==
  ASSUME Inv, NEW d \in Deployments, PatchApply(d)
  PROVE  Inv'
<1>1. phase = "fanOut" /\ d \notin SpotOnly
  BY InFanOut DEF PatchApply, FanOutSteps
<1>2. Apart /\ IntValueIsZero(dep[d].strategy)
  BY Here DEF PatchApply, Apart, Fits
<1>3. CASE SetCompute(d, "fargate") /\ Goto(d, "patched")
  <2>1. PICK x \in Deployment : /\ dep' = [dep EXCEPT ![d] = x]
                                /\ x.compute = "fargate"
                                /\ x.strategy = dep[d].strategy
    BY <1>3, Here, SetComputeIs DEF Compute
  <2>2. Fits(phase, d, x, "patched")
    BY <1>1, <1>2, <2>1, FitsFanOut
  <2>3. ended' = [ended EXCEPT ![d] = ended[d]] /\ ended[d] \in Ends
    BY <1>3, Here DEF Goto, TypeOK
  <2>4. QED
    BY <1>2, <1>3, <2>1, <2>2, <2>3, OneDeployment DEF Goto
<1>4. CASE Goto(d, "restore") /\ (UNCHANGED dep \/ SetCompute(d, "fargate"))
  <2>1. PICK x \in Deployment : dep' = [dep EXCEPT ![d] = x]
    <3>1. CASE UNCHANGED dep
      BY <3>1, Here DEF TypeOK
    <3>2. CASE SetCompute(d, "fargate")
      BY <3>2, Here, SetComputeIs DEF Compute
    <3>3. QED
      BY <1>4, <3>1, <3>2
  <2>2. Fits(phase, d, x, "restore")
    BY <1>1, FitsFanOut DEF FanOutSteps
  <2>3. ended' = [ended EXCEPT ![d] = ended[d]] /\ ended[d] \in Ends
    BY <1>4, Here DEF Goto, TypeOK
  <2>4. QED
    BY <1>2, <1>4, <2>1, <2>2, <2>3, OneDeployment DEF Goto
<1>5. QED
  BY <1>3, <1>4 DEF PatchApply

LEMMA RestoreInv ==
  ASSUME Inv, NEW d \in Deployments, Restore(d)
  PROVE  Inv'
<1>1. phase = "fanOut" /\ d \notin SpotOnly
  BY InFanOut DEF Restore, FanOutSteps
<1>2. PICK x \in Deployment : dep' = [dep EXCEPT ![d] = x]
  BY Here, RestoredIs DEF Restore
<1>3. Fits(phase, d, x, "out")
  BY <1>1, FitsFanOut
<1>4. QED
  BY <1>2, <1>3, OneDeployment DEF Restore, Apart, End, Ends

-----------------------------------------------------------------------------
(* The goroutines of phaseObserve. *)

LEMMA WaitInv ==
  ASSUME Inv, NEW d \in Deployments, Wait(d)
  PROVE  Inv'
<1>1. phase = "observe" /\ d \notin SpotOnly
  BY InObserve DEF Wait, ObserveSteps
<1>2. Fits(phase, d, dep[d], "verify") /\ Fits(phase, d, dep[d], "backGet")
  <2>1. IntValueIsZero(dep[d].strategy) /\ dep[d].compute = "fargate"
    BY Here DEF Wait, Fits
  <2>2. QED
    BY <1>1, <2>1, Here, FitsObserve DEF ObserveSteps
<1>3. QED
  BY <1>2, GotoInv DEF Wait, Apart

LEMMA VerifyInv ==
  ASSUME Inv, NEW d \in Deployments, Verify(d)
  PROVE  Inv'
<1>1. phase = "observe" /\ d \notin SpotOnly
  BY InObserve DEF Verify, ObserveSteps
<1>2. Fits(phase, d, dep[d], "sent") /\ Fits(phase, d, dep[d], "backGet")
  <2>1. dep[d].compute = "fargate"
    BY Here DEF Verify, Fits
  <2>2. QED
    BY <1>1, <2>1, Here, FitsObserve DEF ObserveSteps
<1>3. QED
  BY <1>2, GotoInv, EndInv DEF Verify, Apart, Ends

LEMMA BackGetInv ==
  ASSUME Inv, NEW d \in Deployments, BackGet(d)
  PROVE  Inv'
<1>1. phase = "observe" /\ d \notin SpotOnly
  BY InObserve DEF BackGet, ObserveSteps
<1>2. dep[d].compute = "fargate"
  BY Here DEF BackGet, Fits
<1>3. Fits(phase, d, dep[d], "sent") /\ Fits(phase, d, dep[d], "backApply")
  BY <1>1, <1>2, Here, FitsObserve DEF ObserveSteps
<1>4. QED
  BY <1>2, <1>3, GotoInv, EndInv DEF BackGet, Apart, Ends

LEMMA BackApplyInv ==
  ASSUME Inv, NEW d \in Deployments, BackApply(d)
  PROVE  Inv'
<1>1. phase = "observe" /\ d \notin SpotOnly
  BY InObserve DEF BackApply, ObserveSteps
<1>2. Apart
  BY DEF BackApply, Apart
<1>3. CASE SetCompute(d, "spot") /\ Goto(d, "backWait")
  <2>1. PICK x \in Deployment : dep' = [dep EXCEPT ![d] = x] /\ x.compute = "spot"
    BY <1>3, Here, SetComputeIs DEF Compute
  <2>2. Fits(phase, d, x, "backWait")
    BY <1>1, <2>1, FitsObserve DEF ObserveSteps
  <2>3. ended' = [ended EXCEPT ![d] = ended[d]] /\ ended[d] \in Ends
    BY <1>3, Here DEF Goto, TypeOK
  <2>4. QED
    BY <1>2, <1>3, <2>1, <2>2, <2>3, OneDeployment DEF Goto
<1>4. CASE End(d, "stuck", "sent") /\ (UNCHANGED dep \/ SetCompute(d, "spot"))
  <2>1. PICK x \in Deployment : dep' = [dep EXCEPT ![d] = x]
    <3>1. CASE UNCHANGED dep
      BY <3>1, Here DEF TypeOK
    <3>2. CASE SetCompute(d, "spot")
      BY <3>2, Here, SetComputeIs DEF Compute
    <3>3. QED
      BY <1>4, <3>1, <3>2
  <2>2. Fits(phase, d, x, "sent")
    BY <1>1, FitsObserve
  <2>3. QED
    BY <1>2, <1>4, <2>1, <2>2, OneDeployment DEF End, Ends
<1>5. QED
  BY <1>3, <1>4 DEF BackApply

LEMMA BackWaitInv ==
  ASSUME Inv, NEW d \in Deployments, BackWait(d)
  PROVE  Inv'
<1>1. phase = "observe" /\ d \notin SpotOnly
  BY InObserve DEF BackWait, ObserveSteps
<1>2. Fits(phase, d, dep[d], "sent") /\ Fits(phase, d, dep[d], "backRestore")
  <2>1. dep[d].compute = "spot"
    BY Here DEF BackWait, Fits
  <2>2. QED
    BY <1>1, <2>1, Here, FitsObserve DEF ObserveSteps
<1>3. QED
  BY <1>2, GotoInv, EndInv DEF BackWait, Apart, Ends

LEMMA BackRestoreInv ==
  ASSUME Inv, NEW d \in Deployments, BackRestore(d)
  PROVE  Inv'
<1>1. phase = "observe" /\ d \notin SpotOnly
  BY InObserve DEF BackRestore, ObserveSteps
<1>2. PICK x \in Deployment : dep' = [dep EXCEPT ![d] = x]
  BY Here, RestoredIs DEF BackRestore
<1>3. Fits(phase, d, x, "sent")
  BY <1>1, FitsObserve
<1>4. QED
  BY <1>2, <1>3, OneDeployment DEF BackRestore, Apart, End, Ends

-----------------------------------------------------------------------------
(* The steps of the handler as a whole, and of the environment. *)

\* A Deployment that is out of the handler fits in any phase.
LEMMA OutFits ==
  ASSUME NEW d \in Deployments, NEW x \in Deployment, NEW p
  PROVE  Fits(p, d, x, "out")
BY DEF Fits, Labels, FanOutSteps, ObserveSteps

LEMMA NoticeInv ==
  ASSUME Inv, NEW D \in SUBSET Deployments, Notice(D)
  PROVE  Inv'
<1>1. TypeOK'
  BY Here, InvIsFits DEF Notice, TypeOK, Labels
<1>2. ASSUME NEW d \in Deployments PROVE Fits(phase', d, dep'[d], pc'[d])
  <2>1. /\ phase' = "group" /\ dep'[d] \in Deployment
        /\ pc'[d] \in {"out", "affected"}
    BY Here DEF Notice
  <2>2. QED
    BY <2>1 DEF Fits, Labels
<1>3. QED
  BY <1>1, <1>2, FitsIsInv DEF AllFit

LEMMA GroupInv ==
  ASSUME Inv, Group
  PROVE  Inv'
<1>1. TypeOK
  BY InvIsFits
<1>2. PICK D \in SUBSET Deployments :
        /\ D \cap SpotOnly = {}
        /\ \/ /\ phase' = "idle" /\ answer' = "nil"
              /\ pc' = [d \in Deployments |-> "out"]
           \/ /\ phase' = "fanOut" /\ UNCHANGED answer
              /\ pc' = [d \in Deployments |-> IF d \in D THEN "chosen" ELSE "out"]
  BY DEF Group, Groupings, Return
<1>3. UNCHANGED <<dep, ended, success, stopping>>
  BY DEF Group, Groupings
<1>4. TypeOK'
  BY <1>1, <1>2, <1>3 DEF TypeOK, Labels
<1>5. ASSUME NEW d \in Deployments PROVE Fits(phase', d, dep'[d], pc'[d])
  <2>1. dep'[d] \in Deployment
    BY <1>3, Here
  <2>2. CASE pc'[d] = "out"
    BY <2>1, <2>2, OutFits
  <2>3. CASE pc'[d] = "chosen" /\ phase' = "fanOut" /\ d \notin SpotOnly
    BY <2>1, <2>3 DEF Fits, Labels
  <2>4. QED
    BY <1>2, <2>2, <2>3
<1>6. QED
  BY <1>4, <1>5, FitsIsInv DEF AllFit

LEMMA ObserveInv ==
  ASSUME Inv, Observe
  PROVE  Inv'
<1>1. TypeOK
  BY InvIsFits
<1>2. TypeOK'
  BY <1>1 DEF Observe, Return, TypeOK, Labels, ObserveSteps
<1>3. ASSUME NEW d \in Deployments PROVE Fits(phase', d, dep'[d], pc'[d])
  <2>1. dep'[d] = dep[d] /\ dep[d] \in Deployment
    BY Here DEF Observe
  <2>2. pc[d] \in {"out", "patched"}
    BY DEF Observe
  <2>3. CASE pc[d] = "out"
    <3>1. pc'[d] = "out"
      BY <1>1, <2>3 DEF Observe, Return, TypeOK
    <3>2. QED
      BY <2>1, <3>1, OutFits
  <2>4. CASE pc[d] = "patched"
    <3>1. phase' = "observe" /\ pc'[d] = "wait"
      BY <1>1, <2>4 DEF Observe, TypeOK
    <3>2. /\ d \notin SpotOnly
          /\ IntValueIsZero(dep[d].strategy)
          /\ dep[d].compute = "fargate"
      BY <2>4, Here DEF Fits
    <3>3. QED
      BY <2>1, <3>1, <3>2 DEF Fits, Labels, ObserveSteps
  <2>5. QED
    BY <2>2, <2>3, <2>4
<1>4. QED
  BY <1>2, <1>3, FitsIsInv DEF AllFit

LEMMA CollectInv ==
  ASSUME Inv, NEW d \in Deployments, Collect(d)
  PROVE  Inv'
<1>1. TypeOK /\ AllFit
  BY InvIsFits
<1>2. UNCHANGED <<dep, ended, stopping>> /\ pc' = [pc EXCEPT ![d] = "out"]
  BY DEF Collect
<1>3. \/ /\ \A e \in Deployments \ {d} : pc[e] = "out"
         /\ phase' = "idle" /\ answer' \in {"nil", "error"} /\ success' = FALSE
      \/ phase' = phase /\ answer' = answer /\ success' = Succeeded(d)
  BY DEF Collect, Return
<1>4. Succeeded(d) \in BOOLEAN
  BY <1>1 DEF Succeeded, TypeOK
<1>5. TypeOK'
  BY <1>1, <1>2, <1>3, <1>4 DEF TypeOK, Labels
<1>6. ASSUME NEW e \in Deployments PROVE Fits(phase', e, dep'[e], pc'[e])
  <2>1. dep'[e] = dep[e] /\ dep[e] \in Deployment
    BY <1>2, Here
  <2>2. CASE pc'[e] = "out"
    BY <2>1, <2>2, OutFits
  <2>3. CASE pc'[e] # "out"
    <3>1. e # d /\ pc'[e] = pc[e]
      BY <1>1, <1>2, <2>3 DEF TypeOK
    <3>2. phase' = phase
      BY <1>3, <2>3, <3>1
    <3>3. QED
      BY <1>1, <2>1, <3>1, <3>2 DEF AllFit
  <2>4. QED
    BY <2>2, <2>3
<1>7. QED
  BY <1>5, <1>6, FitsIsInv DEF AllFit

LEMMA RolloutInv ==
  ASSUME Inv, NEW d \in Deployments, RolloutCompletes(d) \/ PodsLost(d)
  PROVE  Inv'
<1>1. TypeOK
  BY InvIsFits
<1>2. PICK b \in BOOLEAN : dep' = [dep EXCEPT ![d].rolledOut = b]
  BY DEF RolloutCompletes, PodsLost
<1>3. UNCHANGED <<pc, ended>> /\ Apart
  BY DEF RolloutCompletes, PodsLost, Apart
<1> DEFINE x == [dep[d] EXCEPT !.rolledOut = b]
<1>4. /\ x \in Deployment
      /\ x.compute = dep[d].compute /\ x.strategy = dep[d].strategy
  BY Here DEF Deployment
<1>5. Fits(phase, d, x, pc[d])
  BY <1>4, Here DEF Fits
<1>6. /\ dep' = [dep EXCEPT ![d] = x]
      /\ pc' = [pc EXCEPT ![d] = pc[d]]
      /\ ended' = [ended EXCEPT ![d] = ended[d]]
      /\ ended[d] \in Ends
  BY <1>1, <1>2, <1>3 DEF TypeOK
<1>7. QED
  BY <1>3, <1>5, <1>6, OneDeployment

LEMMA ExitInv ==
  ASSUME Inv, Exit
  PROVE  Inv'
<1>1. TypeOK'
  BY InvIsFits DEF Exit, TypeOK, Labels, Ends
<1>2. ASSUME NEW d \in Deployments PROVE Fits(phase', d, dep'[d], pc'[d])
  BY Here, OutFits DEF Exit
<1>3. QED
  BY <1>1, <1>2, FitsIsInv DEF AllFit

LEMMA InvStep == Inv /\ [Next]_vars => Inv'
<1> SUFFICES ASSUME Inv, [Next]_vars PROVE Inv'
  OBVIOUS
<1>1. ASSUME NEW D \in SUBSET Deployments, Notice(D) PROVE Inv'
  BY <1>1, NoticeInv
<1>2. CASE Handler
  BY <1>2, GroupInv, BeginInv, StrategyGetInv, StrategyPatchInv, PatchGetInv,
     PatchApplyInv, RestoreInv, ObserveInv, CollectInv
     DEF Handler
<1>3. ASSUME NEW d \in Deployments, Observer(d) PROVE Inv'
  BY <1>3, WaitInv, VerifyInv, BackGetInv, BackApplyInv, BackWaitInv,
     BackRestoreInv
     DEF Observer
<1>4. ASSUME NEW d \in Deployments, RolloutCompletes(d) \/ PodsLost(d) PROVE Inv'
  BY <1>4, RolloutInv
<1>5. CASE Stop
  BY <1>5 DEF Stop, Inv, TypeOK, ObserversDone, RollsOutWithStrategy,
              TemplateFollows, PhaseFollows
<1>6. CASE Exit
  BY <1>6, ExitInv
<1>7. CASE UNCHANGED vars
  BY <1>7 DEF vars, Inv, TypeOK, ObserversDone, RollsOutWithStrategy,
              TemplateFollows, PhaseFollows
<1>8. QED
  BY <1>1, <1>2, <1>3, <1>4, <1>5, <1>6, <1>7 DEF Next

\* The invariant holds in every behaviour of the migration of several
\* Deployments.
THEOREM InvHolds == Spec => []Inv
BY InitInv, InvStep, PTL DEF Spec

\* No goroutine of phaseObserve, and no result, outlives its handler.
THEOREM ObserversEnd == Spec => []ObserversDone
<1>1. Inv => ObserversDone
  BY DEF Inv
<1>2. QED
  BY <1>1, InvHolds, PTL

\* The zero-downtime check of phaseFanOut holds until the rollout it was made for
\* is over, whatever the other goroutines do.
THEOREM StrategyHolds == Spec => []RollsOutWithStrategy
<1>1. Inv => RollsOutWithStrategy
  BY DEF Inv
<1>2. QED
  BY <1>1, InvHolds, PTL

-----------------------------------------------------------------------------
(* Who the handler waits for. *)

\* Those whose result is still to come, or has come and is not collected.
Owes(d) == pc[d] \in {"sent"} \cup ObserveSteps

\* In phaseObserve a Deployment is out or owes a result.
LEMMA OutOrOwes ==
  ASSUME Inv, phase = "observe", NEW d \in Deployments
  PROVE  pc[d] = "out" \/ Owes(d)
BY DEF Inv, PhaseFollows, Owes

\* A goroutine ends by sending its result.
LEMMA ObserverOwes ==
  ASSUME Inv, NEW d \in Deployments, Observer(d)
  PROVE  Owes(d)'
<1>1. ASSUME NEW l, Goto(d, l) PROVE pc'[d] = l
  BY <1>1 DEF Goto, Inv, TypeOK
<1>2. ASSUME NEW e, NEW l, End(d, e, l) PROVE pc'[d] = l
  BY <1>2 DEF End, Inv, TypeOK
<1>3. CASE Wait(d) \/ Verify(d)
  BY <1>1, <1>2, <1>3 DEF Wait, Verify, Owes, ObserveSteps
<1>4. CASE BackGet(d)
  BY <1>1, <1>2, <1>4 DEF BackGet, Owes, ObserveSteps
<1>5. CASE BackApply(d)
  BY <1>1, <1>2, <1>5 DEF BackApply, Owes, ObserveSteps
<1>6. CASE BackWait(d) \/ BackRestore(d)
  BY <1>1, <1>2, <1>6 DEF BackWait, BackRestore, Owes, ObserveSteps
<1> QED
  BY <1>3, <1>4, <1>5, <1>6 DEF Observer

\* The handler starts as many goroutines as it waits for results, and collects the
\* last one with its return.
LEMMA HandlerAwaits ==
  ASSUME Inv, Handler, phase' = "observe"
  PROVE  SomebodyReports'
<1>1. ASSUME NEW d \in Deployments, Collect(d) PROVE SomebodyReports'
  <2>1. phase = "observe"
    BY <1>1 DEF Collect, Inv, PhaseFollows, FanOutSteps, TypeOK, ObserversDone
  <2>2. PICK e \in Deployments \ {d} : pc[e] # "out"
    BY <1>1 DEF Collect, Return
  <2>3. pc'[e] = pc[e]
    BY <1>1 DEF Collect, Inv, TypeOK
  <2> QED
    BY <2>1, <2>2, <2>3, OutOrOwes DEF Owes, SomebodyReports
<1>2. CASE Observe
  <2>1. PICK d \in Deployments : pc[d] = "patched"
    BY <1>2 DEF Observe, Return
  <2>2. pc'[d] = "wait"
    BY <1>2, <2>1 DEF Observe
  <2> QED
    BY <2>2 DEF SomebodyReports, ObserveSteps
<1>3. CASE Group
  BY <1>3 DEF Group, Return
<1>4. ASSUME NEW d \in Deployments,
             \/ Begin(d) \/ StrategyGet(d) \/ StrategyPatch(d)
             \/ PatchGet(d) \/ PatchApply(d) \/ Restore(d)
      PROVE  FALSE
  <2>1. phase = "fanOut"
    BY <1>4, InFanOut DEF Begin, StrategyGet, StrategyPatch, PatchGet, PatchApply,
                          Restore, FanOutSteps
  <2>2. phase' = phase
    BY <1>4 DEF Begin, StrategyGet, StrategyPatch, PatchGet, PatchApply, Restore
  <2> QED
    BY <2>1, <2>2
<1> QED
  BY <1>1, <1>2, <1>3, <1>4 DEF Handler

LEMMA ReportsStep == Inv /\ SomebodyReports /\ [Next]_vars => SomebodyReports'
<1> SUFFICES ASSUME Inv, SomebodyReports, [Next]_vars, phase' = "observe"
             PROVE  SomebodyReports'
  BY DEF SomebodyReports
<1>1. CASE Handler
  BY <1>1, HandlerAwaits
<1>2. ASSUME NEW d \in Deployments, Observer(d) PROVE SomebodyReports'
  BY <1>2, ObserverOwes DEF Owes, SomebodyReports
<1>3. ASSUME NEW D \in SUBSET Deployments, Notice(D) PROVE FALSE
  BY <1>3 DEF Notice
<1>4. CASE Exit
  BY <1>4 DEF Exit
<1>5. ASSUME \/ \E d \in Deployments : RolloutCompletes(d) \/ PodsLost(d)
             \/ Stop \/ UNCHANGED vars
      PROVE  SomebodyReports'
  BY <1>5 DEF SomebodyReports, RolloutCompletes, PodsLost, Stop, vars
<1> QED
  BY <1>1, <1>2, <1>3, <1>4, <1>5 DEF Next

\* phaseObserve never blocks on its channel for ever: whenever it waits, a goroutine
\* is under way or a result is there.  Neither a rollback that fails nor a stop makes
\* a goroutine end without a result.
THEOREM ReportsToCome == Spec => []SomebodyReports
<1>1. Init => SomebodyReports
  BY DEF Init, SomebodyReports
<1> QED
  BY <1>1, ReportsStep, InvHolds, PTL DEF Spec

-----------------------------------------------------------------------------
(* The refinement: every step is a step of one Deployment by itself, a stutter, *)
(* or the end of the process.                                                   *)

MapCompute == [d \in Deployments |-> dep[d].compute]
MapStage == [d \in Deployments |-> Stage(pc[d], ended[d])]

\* The groups of labels Stage distinguishes do not overlap.
LEMMA StageIs ==
  ASSUME NEW l, NEW e
  PROVE  /\ l \in FanOutSteps => Stage(l, e) = "begun"
         /\ l \in {"patched", "wait", "verify", "backGet", "backApply"} =>
              Stage(l, e) = "moved"
         /\ l \in {"backWait", "backRestore"} => Stage(l, e) = "returning"
         /\ l \in {"out", "affected", "chosen", "sent"} => Stage(l, e) = e
BY DEF Stage, FanOutSteps

\* The abstract state after a step of one Deployment.
LEMMA StageMaps ==
  ASSUME TypeOK, NEW d \in Deployments, NEW l, NEW e, End(d, e, l)
  PROVE  MapStage' = [MapStage EXCEPT ![d] = Stage(l, e)]
<1>1. /\ pc'[d] = l /\ ended'[d] = e
      /\ \A f \in Deployments \ {d} : pc'[f] = pc[f] /\ ended'[f] = ended[f]
  BY DEF TypeOK, End
<1>2. MapStage' = [f \in Deployments |->
                     IF f = d THEN Stage(l, e) ELSE Stage(pc[f], ended[f])]
  BY <1>1 DEF MapStage
<1>3. QED
  BY <1>2 DEF MapStage

LEMMA GotoMaps ==
  ASSUME TypeOK, NEW d \in Deployments, NEW l, Goto(d, l)
  PROVE  MapStage' = [MapStage EXCEPT ![d] = Stage(l, ended[d])]
<1>1. End(d, ended[d], l)
  BY DEF Goto, End, TypeOK
<1>2. QED
  BY <1>1, StageMaps

LEMMA ComputeMaps ==
  ASSUME TypeOK, NEW d \in Deployments, NEW x \in Deployment,
         dep' = [dep EXCEPT ![d] = x]
  PROVE  MapCompute' = [MapCompute EXCEPT ![d] = x.compute]
<1>1. dep'[d] = x /\ \A f \in Deployments \ {d} : dep'[f] = dep[f]
  BY DEF TypeOK
<1>2. MapCompute' = [f \in Deployments |-> IF f = d THEN x.compute ELSE dep[f].compute]
  BY <1>1 DEF MapCompute
<1>3. QED
  BY <1>2 DEF MapCompute

LEMMA ComputeKept ==
  ASSUME TypeOK, NEW d \in Deployments, NEW x \in Deployment,
         dep' = [dep EXCEPT ![d] = x], x.compute = dep[d].compute
  PROVE  UNCHANGED MapCompute
<1>1. dep'[d] = x /\ \A f \in Deployments \ {d} : dep'[f] = dep[f]
  BY DEF TypeOK
<1>2. QED
  BY <1>1 DEF MapCompute

\* A step that stays within a stage is a stutter.
LEMMA SameStage ==
  ASSUME NEW d \in Deployments, NEW s, s = Stage(pc[d], ended[d]),
         MapStage' = [MapStage EXCEPT ![d] = s]
  PROVE  UNCHANGED MapStage
BY DEF MapStage

LEMMA UnchangedMaps ==
  /\ UNCHANGED dep => UNCHANGED MapCompute
  /\ UNCHANGED <<pc, ended>> => UNCHANGED MapStage
BY DEF MapCompute, MapStage

\* The actions of the instance, in the terms of the mapping.
AbstractEnter(d, s) ==
  MapStage' = [MapStage EXCEPT ![d] = s] /\ UNCHANGED MapCompute

LEMMA EachActions ==
  ASSUME NEW d \in Deployments
  PROVE  /\ ended[d] \in Ends /\ Stage(pc[d], ended[d]) = ended[d]
              /\ AbstractEnter(d, "begun") => Each!Begin(d)
         /\ Stage(pc[d], ended[d]) = "begun" /\ AbstractEnter(d, "skipped") =>
              Each!Skip(d)
         /\ Stage(pc[d], ended[d]) = "begun"
              /\ MapCompute' = [MapCompute EXCEPT ![d] = "fargate"]
              /\ UNCHANGED MapStage => Each!MoveUnanswered(d)
         /\ Stage(pc[d], ended[d]) = "moved" /\ AbstractEnter(d, "migrated") =>
              Each!Succeed(d)
         /\ Stage(pc[d], ended[d]) = "returning" /\ AbstractEnter(d, "reverted") =>
              Each!Return(d)
         /\ Stage(pc[d], ended[d]) \in {"moved", "returning"}
              /\ AbstractEnter(d, "stuck") => Each!GiveUp(d)
         /\ Stage(pc[d], ended[d]) = "moved"
              /\ MapCompute' = [MapCompute EXCEPT ![d] = "spot"]
              /\ MapStage' = [MapStage EXCEPT ![d] = "stuck"] => Each!GiveUp(d)
         /\ Stage(pc[d], ended[d]) = "begun"
              /\ MapCompute' = [MapCompute EXCEPT ![d] = "fargate"]
              /\ MapStage' = [MapStage EXCEPT ![d] = "moved"] => Each!Move(d)
         /\ Stage(pc[d], ended[d]) = "moved"
              /\ MapCompute' = [MapCompute EXCEPT ![d] = "spot"]
              /\ MapStage' = [MapStage EXCEPT ![d] = "returning"] => Each!MoveBack(d)
<1>1. MapStage[d] = Stage(pc[d], ended[d])
  BY DEF MapStage
<1>2. QED
  BY <1>1 DEF Each!Begin, Each!MoveUnanswered, Each!Skip, Each!Succeed, Each!Return, Each!GiveUp,
       Each!Move, Each!MoveBack, Each!Enter, Each!Ended, Ends, AbstractEnter,
       MapStage, MapCompute

\* A step the instance does not see.
Quiet == UNCHANGED <<MapCompute, MapStage>>

\* A step of d to another label of its stage.
LEMMA QuietGoto ==
  ASSUME TypeOK, NEW d \in Deployments, NEW l, Goto(d, l),
         Stage(l, ended[d]) = Stage(pc[d], ended[d])
  PROVE  UNCHANGED MapStage
<1>1. MapStage' = [MapStage EXCEPT ![d] = Stage(pc[d], ended[d])]
  BY GotoMaps
<1>2. QED
  BY <1>1, SameStage

\* What ends with e, and keeps the compute type, enters stage e.
LEMMA EndEnters ==
  ASSUME TypeOK, NEW d \in Deployments, NEW e, NEW l \in {"out", "sent"},
         End(d, e, l), UNCHANGED MapCompute
  PROVE  AbstractEnter(d, e)
<1>1. Stage(l, e) = e
  BY StageIs
<1>2. MapStage' = [MapStage EXCEPT ![d] = Stage(l, e)]
  BY StageMaps
<1>3. QED
  BY <1>1, <1>2 DEF AbstractEnter

LEMMA FanOutRefines ==
  ASSUME Inv, NEW d \in Deployments,
         Begin(d) \/ StrategyGet(d) \/ StrategyPatch(d)
           \/ PatchGet(d) \/ PatchApply(d) \/ Restore(d)
  PROVE  \/ Each!Begin(d) \/ Each!MoveUnanswered(d)
         \/ Each!Skip(d) \/ Each!Move(d) \/ Quiet
<1> USE Here
<1>1. CASE Begin(d)
  <2>1. Goto(d, "strategyGet") /\ UNCHANGED dep /\ pc[d] = "chosen"
    BY <1>1 DEF Begin
  <2>2. Stage("strategyGet", ended[d]) = "begun" /\ Stage(pc[d], ended[d]) = ended[d]
    BY <2>1, StageIs DEF FanOutSteps
  <2>3. AbstractEnter(d, "begun")
    BY <2>1, <2>2, GotoMaps, UnchangedMaps DEF AbstractEnter
  <2>4. ended[d] \in Ends
    BY DEF TypeOK
  <2>5. QED
    BY <2>2, <2>3, <2>4, EachActions
<1>2. CASE StrategyGet(d) \/ StrategyPatch(d) \/ PatchGet(d) \/ PatchApply(d) \/ Restore(d)
  <2>1. pc[d] \in FanOutSteps
    BY <1>2 DEF StrategyGet, StrategyPatch, PatchGet, PatchApply, Restore, FanOutSteps
  <2>2. Stage(pc[d], ended[d]) = "begun"
    BY <2>1, StageIs
  <2>3. ASSUME NEW l \in FanOutSteps, Goto(d, l), UNCHANGED MapCompute PROVE Quiet
    BY <2>2, <2>3, StageIs, QuietGoto DEF Quiet
  <2>4. ASSUME End(d, "skipped", "out"), UNCHANGED MapCompute PROVE Each!Skip(d)
    BY <2>2, <2>4, EndEnters, EachActions
  <2>5. ASSUME Goto(d, "patched"), MapCompute' = [MapCompute EXCEPT ![d] = "fargate"]
        PROVE  Each!Move(d)
    <3>1. Stage("patched", ended[d]) = "moved"
      BY StageIs
    <3>2. MapStage' = [MapStage EXCEPT ![d] = "moved"]
      BY <2>5, <3>1, GotoMaps
    <3>3. QED
      BY <2>2, <2>5, <3>2, EachActions
  <2>6. CASE StrategyGet(d)
    <3>1. UNCHANGED MapCompute
      BY <2>6, UnchangedMaps DEF StrategyGet
    <3>2. \/ Goto(d, "patchGet") \/ Goto(d, "strategyPatch")
          \/ End(d, "skipped", "out")
      BY <2>6 DEF StrategyGet
    <3>3. QED
      BY <2>3, <2>4, <3>1, <3>2 DEF FanOutSteps
  <2>7. CASE StrategyPatch(d)
    <3>1. UNCHANGED MapCompute
      <4>1. CASE UNCHANGED dep
        BY <4>1, UnchangedMaps
      <4>2. CASE SetStrategy(d, "zero")
        BY <4>2, SetStrategyIs, ComputeKept DEF StrategyKinds
      <4>3. QED
        BY <2>7, <4>1, <4>2 DEF StrategyPatch
    <3>2. Goto(d, "patchGet") \/ End(d, "skipped", "out")
      BY <2>7 DEF StrategyPatch
    <3>3. QED
      BY <2>3, <2>4, <3>1, <3>2 DEF FanOutSteps
  <2>8. CASE PatchGet(d)
    <3>1. UNCHANGED MapCompute
      BY <2>8, UnchangedMaps DEF PatchGet
    <3>2. \/ dep[d].compute = "fargate" /\ Goto(d, "patched")
          \/ Goto(d, "patchApply") \/ Goto(d, "restore")
      BY <2>8 DEF PatchGet
    <3>3. ASSUME dep[d].compute = "fargate"
          PROVE  MapCompute' = [MapCompute EXCEPT ![d] = "fargate"]
      BY <3>1, <3>3 DEF MapCompute
    <3>4. QED
      BY <2>3, <2>5, <3>1, <3>2, <3>3 DEF FanOutSteps
  <2>9. CASE PatchApply(d)
    <3>1. CASE SetCompute(d, "fargate") /\ Goto(d, "patched")
      <4>1. MapCompute' = [MapCompute EXCEPT ![d] = "fargate"]
        BY <3>1, SetComputeIs, ComputeMaps DEF Compute
      <4>2. QED
        BY <2>5, <3>1, <4>1
    <3>2. CASE Goto(d, "restore") /\ UNCHANGED dep
      BY <2>3, <3>2, UnchangedMaps DEF FanOutSteps
    <3>3. CASE Goto(d, "restore") /\ SetCompute(d, "fargate")
      <4>1. MapCompute' = [MapCompute EXCEPT ![d] = "fargate"]
        BY <3>3, SetComputeIs, ComputeMaps DEF Compute
      <4>2. UNCHANGED MapStage
        BY <2>2, <3>3, StageIs, QuietGoto DEF FanOutSteps
      <4>3. QED
        BY <2>2, <4>1, <4>2, EachActions
    <3>4. QED
      BY <2>9, <3>1, <3>2, <3>3 DEF PatchApply
  <2>10. CASE Restore(d)
    <3>1. UNCHANGED MapCompute
      BY <2>10, RestoredIs, ComputeKept DEF Restore
    <3>2. QED
      BY <2>4, <2>10, <3>1 DEF Restore
  <2>11. QED
    BY <1>2, <2>6, <2>7, <2>8, <2>9, <2>10
<1>3. QED
  BY <1>1, <1>2

LEMMA ObserverRefines ==
  ASSUME Inv, NEW d \in Deployments, Observer(d)
  PROVE  \/ Each!Succeed(d) \/ Each!MoveBack(d) \/ Each!Return(d)
         \/ Each!GiveUp(d) \/ Quiet
<1> USE Here
<1> DEFINE Out == {"wait", "verify", "backGet", "backApply"}
           Back == {"backWait", "backRestore"}
<1>1. /\ pc[d] \in Out => Stage(pc[d], ended[d]) = "moved"
      /\ pc[d] \in Back => Stage(pc[d], ended[d]) = "returning"
  BY StageIs
<1>2. ASSUME pc[d] \in Out, NEW l \in Out, Goto(d, l), UNCHANGED MapCompute
      PROVE  Quiet
  BY <1>1, <1>2, StageIs, QuietGoto DEF Quiet
<1>3. ASSUME pc[d] \in Back, NEW l \in Back, Goto(d, l), UNCHANGED MapCompute
      PROVE  Quiet
  BY <1>1, <1>3, StageIs, QuietGoto DEF Quiet
<1>4. ASSUME pc[d] \in Out \cup Back, End(d, "stuck", "sent"), UNCHANGED MapCompute
      PROVE  Each!GiveUp(d)
  BY <1>1, <1>4, EndEnters, EachActions
<1>5. CASE Wait(d)
  <2>1. UNCHANGED MapCompute
    BY <1>5, UnchangedMaps DEF Wait
  <2>2. pc[d] \in Out /\ (Goto(d, "verify") \/ Goto(d, "backGet"))
    BY <1>5 DEF Wait
  <2>3. QED
    BY <1>2, <2>1, <2>2
<1>6. CASE Verify(d)
  <2>1. UNCHANGED MapCompute
    BY <1>6, UnchangedMaps DEF Verify
  <2>2. pc[d] \in Out /\ (End(d, "migrated", "sent") \/ Goto(d, "backGet"))
    BY <1>6 DEF Verify
  <2>3. CASE End(d, "migrated", "sent")
    BY <1>1, <2>1, <2>2, <2>3, EndEnters, EachActions
  <2>4. QED
    BY <1>2, <2>1, <2>2, <2>3
<1>7. CASE BackGet(d)
  <2>1. UNCHANGED MapCompute
    BY <1>7, UnchangedMaps DEF BackGet
  <2>2. dep[d].compute = "fargate"
    BY <1>7 DEF BackGet, Fits
  <2>3. pc[d] \in Out /\ (Goto(d, "backApply") \/ End(d, "stuck", "sent"))
    BY <1>7, <2>2 DEF BackGet
  <2>4. QED
    BY <1>2, <1>4, <2>1, <2>3
<1>8. CASE BackApply(d)
  <2>1. pc[d] \in Out
    BY <1>8 DEF BackApply
  <2>2. CASE SetCompute(d, "spot") /\ Goto(d, "backWait")
    <3>1. MapCompute' = [MapCompute EXCEPT ![d] = "spot"]
      BY <2>2, SetComputeIs, ComputeMaps DEF Compute
    <3>2. Stage("backWait", ended[d]) = "returning"
      BY StageIs
    <3>3. MapStage' = [MapStage EXCEPT ![d] = "returning"]
      BY <2>2, <3>2, GotoMaps
    <3>4. QED
      BY <1>1, <2>1, <3>1, <3>3, EachActions
  <2>3. CASE End(d, "stuck", "sent") /\ UNCHANGED dep
    BY <1>4, <2>1, <2>3, UnchangedMaps
  <2>4. CASE End(d, "stuck", "sent") /\ SetCompute(d, "spot")
    <3>1. MapCompute' = [MapCompute EXCEPT ![d] = "spot"]
      BY <2>4, SetComputeIs, ComputeMaps DEF Compute
    <3>2. MapStage' = [MapStage EXCEPT ![d] = "stuck"]
      BY <2>4, StageIs, StageMaps
    <3>3. QED
      BY <1>1, <2>1, <3>1, <3>2, EachActions
  <2>5. QED
    BY <1>8, <2>2, <2>3, <2>4 DEF BackApply
<1>9. CASE BackWait(d)
  <2>1. UNCHANGED MapCompute
    BY <1>9, UnchangedMaps DEF BackWait
  <2>2. pc[d] \in Back /\ (Goto(d, "backRestore") \/ End(d, "stuck", "sent"))
    BY <1>9 DEF BackWait
  <2>3. QED
    BY <1>3, <1>4, <2>1, <2>2
<1>10. CASE BackRestore(d)
  <2>1. UNCHANGED MapCompute
    BY <1>10, RestoredIs, ComputeKept DEF BackRestore
  <2>2. pc[d] \in Back /\ End(d, "reverted", "sent")
    BY <1>10 DEF BackRestore
  <2>3. QED
    BY <1>1, <2>1, <2>2, EndEnters, EachActions
<1>11. QED
  BY <1>5, <1>6, <1>7, <1>8, <1>9, <1>10 DEF Observer

\* The steps of the handler as a whole change nobody's stage.
LEMMA HandlerQuiet ==
  ASSUME Inv,
         \/ \E D \in SUBSET Deployments : Notice(D)
         \/ Group \/ Observe \/ \E d \in Deployments : Collect(d)
  PROVE  Quiet
<1>1. UNCHANGED <<dep, ended>>
  BY DEF Notice, Group, Observe, Collect
<1>2. ASSUME NEW d \in Deployments
      PROVE  Stage(pc'[d], ended[d]) = Stage(pc[d], ended[d])
  <2>1. CASE \E D \in SUBSET Deployments : Notice(D)
    <3>1. pc[d] = "out" /\ pc'[d] \in {"out", "affected"}
      BY <2>1, Here DEF Notice, Fits
    <3>2. QED
      BY <3>1, StageIs
  <2>2. CASE Group
    <3>1. pc[d] \in {"out", "affected"} /\ pc'[d] \in {"out", "chosen"}
      BY <2>2, Here DEF Group, Groupings, Return, Fits
    <3>2. QED
      BY <3>1, StageIs
  <2>3. CASE Observe
    <3>1. \/ pc'[d] = pc[d]
          \/ pc[d] = "patched" /\ pc'[d] = "wait"
      BY <2>3, Here DEF Observe, Return, TypeOK
    <3>2. QED
      BY <3>1, StageIs
  <2>4. CASE \E e \in Deployments : Collect(e)
    <3>1. \/ pc'[d] = pc[d]
          \/ pc[d] = "sent" /\ pc'[d] = "out"
      BY <2>4, Here DEF Collect, TypeOK
    <3>2. QED
      BY <3>1, StageIs
  <2>5. QED
    BY <2>1, <2>2, <2>3, <2>4
<1>3. QED
  BY <1>1, <1>2, UnchangedMaps DEF Quiet, MapStage

LEMMA ExitRefines ==
  ASSUME Inv, Exit
  PROVE  Each!Interrupt
<1>1. UNCHANGED MapCompute
  BY UnchangedMaps DEF Exit
<1>2. ASSUME NEW d \in Deployments
      PROVE  Stage(pc'[d], ended'[d]) =
               IF Stage(pc[d], ended[d]) \in Ends THEN Stage(pc[d], ended[d])
                                                  ELSE "interrupted"
  <2>1. /\ ended[d] \in Ends /\ pc[d] \in Labels /\ pc'[d] = "out"
        /\ ended'[d] = IF InMigration(d) THEN "interrupted" ELSE ended[d]
    BY Here DEF Exit, TypeOK
  <2>2. Stage(pc'[d], ended'[d]) = ended'[d]
    BY <2>1, StageIs
  <2>3. CASE InMigration(d)
    <3>1. Stage(pc[d], ended[d]) \in {"begun", "moved", "returning"}
      BY <2>3, StageIs DEF InMigration, ObserveSteps
    <3>2. QED
      BY <2>1, <2>2, <2>3, <3>1 DEF Ends
  <2>4. CASE ~InMigration(d)
    <3>1. Stage(pc[d], ended[d]) = ended[d]
      BY <2>1, <2>4, StageIs DEF InMigration, Labels
    <3>2. QED
      BY <2>1, <2>2, <2>4, <3>1
  <2>5. QED
    BY <2>3, <2>4
<1>3. MapStage' = [d \in Deployments |-> IF MapStage[d] \in Ends THEN MapStage[d]
                                                                 ELSE "interrupted"]
  BY <1>2 DEF MapStage
<1>4. QED
  BY <1>1, <1>3 DEF Each!Interrupt, Each!Ended, Ends, MapStage, MapCompute

LEMMA StepRefines == Inv /\ [Next]_vars => [Each!Next]_Each!vars
<1> SUFFICES ASSUME Inv, [Next]_vars PROVE [Each!Next]_Each!vars
  OBVIOUS
<1>1. ASSUME Quiet PROVE UNCHANGED Each!vars
  BY <1>1 DEF Quiet, Each!vars, MapCompute, MapStage
<1>2. CASE \E D \in SUBSET Deployments : Notice(D)
  BY <1>1, <1>2, HandlerQuiet
<1>3. CASE Handler
  <2>1. CASE Group \/ Observe \/ \E d \in Deployments : Collect(d)
    BY <1>1, <2>1, HandlerQuiet
  <2>2. CASE \E d \in Deployments : \/ Begin(d) \/ StrategyGet(d) \/ StrategyPatch(d)
                                    \/ PatchGet(d) \/ PatchApply(d) \/ Restore(d)
    BY <1>1, <2>2, FanOutRefines DEF Each!Next
  <2>3. QED
    BY <1>3, <2>1, <2>2 DEF Handler
<1>4. CASE \E d \in Deployments : Observer(d)
  BY <1>1, <1>4, ObserverRefines DEF Each!Next
<1>5. ASSUME NEW d \in Deployments, RolloutCompletes(d) \/ PodsLost(d)
      PROVE  UNCHANGED Each!vars
  <2>1. PICK b \in BOOLEAN : dep' = [dep EXCEPT ![d].rolledOut = b]
    BY <1>5 DEF RolloutCompletes, PodsLost
  <2>2. \A f \in Deployments : dep'[f].compute = dep[f].compute
    BY <2>1, Here DEF TypeOK, Deployment
  <2>3. UNCHANGED <<MapCompute, pc, ended>>
    BY <1>5, <2>2 DEF MapCompute, RolloutCompletes, PodsLost
  <2>4. QED
    BY <1>1, <2>3, UnchangedMaps DEF Quiet
<1>6. CASE Stop \/ UNCHANGED vars
  BY <1>1, <1>6, UnchangedMaps DEF Stop, vars, Quiet
<1>7. CASE Exit
  BY <1>7, ExitRefines DEF Each!Next
<1>8. QED
  BY <1>2, <1>3, <1>4, <1>5, <1>6, <1>7 DEF Next

LEMMA InitRefines == Init => Each!Init
<1> SUFFICES ASSUME Init PROVE Each!Init
  OBVIOUS
<1>1. MapCompute \in [Deployments -> Compute]
  BY DEF Init, MapCompute, Deployment
<1>2. MapStage = [d \in Deployments |-> "none"]
  <2>1. \A d \in Deployments : Stage(pc[d], ended[d]) = "none"
    BY StageIs DEF Init
  <2>2. QED
    BY <2>1 DEF MapStage
<1>3. QED
  BY <1>1, <1>2 DEF Each!Init, Each!Compute, Compute, MapCompute, MapStage

\* Each Deployment migrates by itself: the two phases and all their goroutines
\* implement IndependentMigrations.
THEOREM ImplementsIndependent == Spec => EachIndependent
BY InitRefines, StepRefines, InvHolds, PTL DEF Spec, EachIndependent, Each!Spec

=============================================================================
