------------------------ MODULE ComputeMigration_proofs ------------------------
(***************************************************************************)
(* The safety properties of ComputeMigration, for every cooldown, every    *)
(* configuration and every choice of failures: first those that hold under *)
(* every interleaving of the event loop and the recovery manager, then     *)
(* those that hold as long as the two take turns.                          *)
(***************************************************************************)
EXTENDS ComputeMigration, TLAPS

\* Moving one goroutine to another label keeps the type of task and leaves the
\* other goroutine, and its own local variables, alone.
LEMMA GotoType ==
  ASSUME task \in [Workers -> Task], NEW w \in Workers, NEW l \in Labels,
         Goto(w, l)
  PROVE  /\ task' \in [Workers -> Task]
         /\ task'[w].pc = l
         /\ task'[w].job = task[w].job
         /\ \A v \in Workers \ {w} : task'[v] = task[v]
BY DEF Goto, Task

LEMMA StoreType ==
  ASSUME TypeOK, CopyCurrent, NEW d \in Deployment, Store(d), UNCHANGED copy
  PROVE  dep' \in Deployment /\ fresh' \in BOOLEAN /\ CopyCurrent'
BY DEF Store, TypeOK, CopyCurrent

LEMMA WithType ==
  ASSUME NEW d \in Deployment, NEW c \in Compute, NEW s \in StrategyKinds
  PROVE  /\ WithCompute(d, c) \in Deployment
         /\ WithCompute(d, c).strategy = d.strategy
         /\ WithStrategy(d, s) \in Deployment
         /\ WithStrategy(d, s).strategy = s
BY DEF WithCompute, WithStrategy, Deployment

LEMMA RecordTypes ==
  /\ Blank \in Deployment
  /\ Idle \in Task
  /\ \A a \in Ages : Older(a) \in Ages
  /\ 0 \in Ages /\ Cooldown \in Ages
BY CooldownAssumption
   DEF Blank, Idle, Older, Deployment, Task, Ages, Labels, Compute, StrategyKinds

LEMMA InitInv == Init => Inv
<1> SUFFICES ASSUME Init PROVE Inv
  OBVIOUS
<1>1. TypeOK
  BY RecordTypes DEF Init, TypeOK
<1>2. At(Handler, "idle") /\ task[Handler].pc = "idle"
  BY DEF Init, At, Workers, Handler, Idle
<1>3. QED
  BY <1>1, <1>2
     DEF Init, Inv, CopyCurrent, IdleStatusSettled, MigratesWithStrategy

\* Where an error or the end of a wait takes a goroutine.
LEMMA NextTasks ==
  ASSUME TypeOK, NEW w \in Workers
  PROVE  /\ NoteFailure(w) \in Task /\ NoteFailure(w).pc = "noteGet"
         /\ AfterPatchError(w) \in Task
         /\ AfterPatchError(w).pc \in {"noteGet", "restore", "fail"}
         /\ AfterWaitError(w) \in Task
         /\ AfterWaitError(w).pc \in {"noteGet", "revert", "fail"}
         /\ AfterWait(w) \in {"verify", "restore", "setFargate"}
         /\ AfterNote \in Task
         /\ RollbackTarget(w) \in Compute
<1>1. task[w] \in Task /\ task[Recovery] \in Task
  BY DEF TypeOK, Workers
<1>2. NoteFailure(w) \in Task /\ NoteFailure(w).pc = "noteGet"
  BY <1>1 DEF NoteFailure, Task, Labels
<1>3. /\ AfterPatchError(w) \in Task
      /\ AfterPatchError(w).pc \in {"noteGet", "restore", "fail"}
  <2>1. CASE w = Recovery
    BY <1>2, <2>1 DEF AfterPatchError
  <2>2. CASE w = Handler
    BY <1>1, <2>2 DEF AfterPatchError, Task, Labels, Handler, Recovery
  <2>3. QED
    BY <2>1, <2>2 DEF Workers
<1>4. /\ AfterWaitError(w) \in Task
      /\ AfterWaitError(w).pc \in {"noteGet", "revert", "fail"}
  <2>1. CASE task[w].job = "forward"
    BY <1>1, <2>1 DEF AfterWaitError, Task, Labels
  <2>2. CASE task[w].job # "forward" /\ w = Handler
    BY <1>1, <2>2 DEF AfterWaitError, Task, Labels
  <2>3. CASE task[w].job # "forward" /\ w = Recovery
    BY <1>2, <2>3 DEF AfterWaitError, Handler, Recovery
  <2>4. QED
    BY <2>1, <2>2, <2>3 DEF Workers
<1>5. AfterWait(w) \in {"verify", "restore", "setFargate"}
  BY DEF AfterWait
<1>6. AfterNote \in Task
  BY <1>1, RecordTypes DEF AfterNote, Task, Labels
<1>7. QED
  BY <1>2, <1>3, <1>4, <1>5, <1>6 DEF RollbackTarget, Compute

\* Replacing the whole task of one goroutine.
LEMMA TaskType ==
  ASSUME task \in [Workers -> Task], NEW w \in Workers, NEW t \in Task,
         task' = [task EXCEPT ![w] = t]
  PROVE  /\ task' \in [Workers -> Task]
         /\ task'[w] = t
         /\ \A v \in Workers \ {w} : task'[v] = task[v]
OBVIOUS

\* A step that keeps the strategy and either keeps the event loop where it is or
\* moves it to a label other than "idle" without entering a first patch.
LEMMA KeepsRest ==
  ASSUME Inv,
         dep'.strategy = dep.strategy,
         status' = status \/ status' # "migrating",
         \/ task'[Handler] = task[Handler]
         \/ /\ task'[Handler].pc # "idle"
            /\ task'[Handler].pc \in {"patchGet", "patchApply"}
                 /\ task'[Handler].job = "forward"
               => /\ task[Handler].pc \in {"patchGet", "patchApply"}
                  /\ task[Handler].job = "forward"
  PROVE  IdleStatusSettled' /\ MigratesWithStrategy'
BY DEF Inv, IdleStatusSettled, MigratesWithStrategy, At

\* The same for a step of goroutine w.
LEMMA KeepsRestOf ==
  ASSUME Inv, NEW w \in Workers,
         dep'.strategy = dep.strategy,
         status' = status \/ status' # "migrating",
         \A v \in Workers \ {w} : task'[v] = task[v],
         w = Handler => 
            /\ task'[w].pc # "idle"
            /\ task'[w].pc \in {"patchGet", "patchApply"}
                 /\ task'[w].job = "forward"
               => /\ task[w].pc \in {"patchGet", "patchApply"}
                  /\ task[w].job = "forward"
  PROVE  IdleStatusSettled' /\ MigratesWithStrategy'
<1>1. CASE w = Handler
  BY <1>1, KeepsRest
<1>2. CASE w # Handler
  <2>1. task'[Handler] = task[Handler]
    BY <1>2 DEF Workers
  <2>2. QED
    BY <2>1, KeepsRest
<1>3. QED
  BY <1>1, <1>2

-----------------------------------------------------------------------------
(* The steps both goroutines take. *)

LEMMA PatchGetInv ==
  ASSUME Inv, NEW w \in Workers, PatchGet(w)
  PROVE  Inv'
<1>1. TypeOK /\ CopyCurrent
  BY DEF Inv
<1>2. UNCHANGED <<dep, copy, fresh, cur, status, sinceMove>> /\ task[w].pc = "patchGet"
  BY DEF PatchGet, At
<1>3. /\ task' \in [Workers -> Task]
      /\ \A v \in Workers \ {w} : task'[v] = task[v]
      /\ task'[w].pc # "idle"
      /\ task'[w].pc \in {"patchGet", "patchApply"} => task'[w].job = task[w].job
  <2>1. CASE \E l \in {"wait", "patchApply"} : Goto(w, l)
    <3>1. PICK l \in {"wait", "patchApply"} : Goto(w, l)
      BY <2>1
    <3>2. l \in Labels /\ l # "idle"
      BY DEF Labels
    <3>3. QED
      BY <1>1, <3>1, <3>2, GotoType DEF TypeOK
  <2>2. CASE task' = [task EXCEPT ![w] = AfterPatchError(w)]
    BY <1>1, <2>2, NextTasks, TaskType DEF TypeOK
  <2>3. QED
    BY <2>1, <2>2 DEF PatchGet
<1>4. TypeOK' /\ CopyCurrent'
  BY <1>1, <1>2, <1>3 DEF TypeOK, CopyCurrent
<1>5. IdleStatusSettled' /\ MigratesWithStrategy'
  BY <1>2, <1>3, KeepsRestOf
<1>6. QED
  BY <1>4, <1>5 DEF Inv

LEMMA PatchApplyInv ==
  ASSUME Inv, NEW w \in Workers, PatchApply(w)
  PROVE  Inv'
<1>1. TypeOK /\ CopyCurrent /\ dep \in Deployment /\ task[w] \in Task
  BY DEF Inv, TypeOK
<1>2. UNCHANGED <<copy, cur, status>> /\ task[w].pc = "patchApply"
  BY DEF PatchApply, At
<1>3. /\ dep' \in Deployment /\ fresh' \in BOOLEAN /\ CopyCurrent'
      /\ dep'.strategy = dep.strategy
      /\ sinceMove' \in Ages
  <2>1. CASE /\ Store(WithCompute(dep, task[w].target))
             /\ sinceMove' = IF dep.compute = "spot" /\ task[w].target = "fargate"
                               THEN 0 ELSE sinceMove
    <3>1. task[w].target \in Compute
      BY <1>1 DEF Task
    <3>2. /\ WithCompute(dep, task[w].target) \in Deployment
          /\ WithCompute(dep, task[w].target).strategy = dep.strategy
      BY <1>1, <3>1, WithType DEF Deployment
    <3>3. dep' \in Deployment /\ fresh' \in BOOLEAN /\ CopyCurrent'
      BY <1>1, <1>2, <2>1, <3>2, StoreType
    <3>4. dep'.strategy = dep.strategy
      BY <2>1, <3>2 DEF Store
    <3>5. sinceMove' \in Ages
      BY <1>1, <2>1, RecordTypes DEF TypeOK
    <3>6. QED
      BY <3>3, <3>4, <3>5
  <2>2. CASE UNCHANGED <<dep, fresh, sinceMove>>
    BY <1>1, <1>2, <2>2 DEF TypeOK, CopyCurrent
  <2>3. QED
    BY <2>1, <2>2 DEF PatchApply
<1>4. /\ task' \in [Workers -> Task]
      /\ task'[w].pc \in {"annotationGet", "noteGet", "restore", "fail"}
      /\ \A v \in Workers \ {w} : task'[v] = task[v]
  <2>1. CASE Goto(w, "annotationGet")
    BY <1>1, <2>1, GotoType DEF TypeOK, Labels
  <2>2. CASE task' = [task EXCEPT ![w] = AfterPatchError(w)]
    BY <1>1, <2>2, NextTasks, TaskType DEF TypeOK
  <2>3. QED
    BY <2>1, <2>2 DEF PatchApply
<1>5. TypeOK'
  BY <1>1, <1>2, <1>3, <1>4 DEF TypeOK
<1>6. IdleStatusSettled' /\ MigratesWithStrategy'
  BY <1>2, <1>3, <1>4, KeepsRestOf
<1>7. QED
  BY <1>3, <1>5, <1>6 DEF Inv

\* A step of goroutine w that changes nothing but its task.
LEMMA OnlyTask ==
  ASSUME Inv, NEW w \in Workers, NEW t \in Task,
         UNCHANGED <<dep, copy, fresh, cur, status, sinceMove>>,
         task' = [task EXCEPT ![w] = t],
         t.pc # "idle",
         t.pc \in {"patchGet", "patchApply"} => t.job = "back"
  PROVE  Inv'
<1>1. /\ task' \in [Workers -> Task]
      /\ task'[w] = t
      /\ \A v \in Workers \ {w} : task'[v] = task[v]
  BY TaskType DEF Inv, TypeOK
<1>2. TypeOK' /\ CopyCurrent'
  BY <1>1 DEF Inv, TypeOK, CopyCurrent
<1>3. IdleStatusSettled' /\ MigratesWithStrategy'
  BY <1>1, KeepsRestOf
<1>4. QED
  BY <1>2, <1>3 DEF Inv

LEMMA OnlyGoto ==
  ASSUME Inv, NEW w \in Workers, NEW l \in Labels \ {"idle", "patchGet", "patchApply"},
         UNCHANGED <<dep, copy, fresh, cur, status, sinceMove>>,
         Goto(w, l)
  PROVE  Inv'
<1>1. [task[w] EXCEPT !.pc = l] \in Task
  BY DEF Inv, TypeOK, Task
<1>2. task' = [task EXCEPT ![w] = [task[w] EXCEPT !.pc = l]]
  BY DEF Goto
<1>3. [task[w] EXCEPT !.pc = l].pc = l
  BY DEF Inv, TypeOK, Task
<1>4. QED
  BY <1>1, <1>2, <1>3, OnlyTask

LEMMA AnnotationGetInv ==
  ASSUME Inv, NEW w \in Workers, AnnotationGet(w)
  PROVE  Inv'
<1>1. task[w] \in Task /\ UNCHANGED <<dep, copy, fresh, cur, status, sinceMove>>
  BY DEF Inv, TypeOK, AnnotationGet
<1>2. CASE \E l \in {"annotationWrite", "annotationInit"} :
             task' = [task EXCEPT ![w].stamp = 0, ![w].pc = l]
  <2>1. PICK l \in {"annotationWrite", "annotationInit"} :
               task' = [task EXCEPT ![w] = [task[w] EXCEPT !.stamp = 0, !.pc = l]]
    BY <1>2
  <2>2. /\ [task[w] EXCEPT !.stamp = 0, !.pc = l] \in Task
        /\ [task[w] EXCEPT !.stamp = 0, !.pc = l].pc = l
    BY <1>1, RecordTypes DEF Task, Labels
  <2>3. QED
    BY <1>1, <2>1, <2>2, OnlyTask
<1>3. CASE Goto(w, "wait")
  BY <1>1, <1>3, OnlyGoto DEF Labels
<1>4. QED
  BY <1>2, <1>3 DEF AnnotationGet

\* The task of a goroutine that has finished with the annotations.
LEMMA WaitTask ==
  ASSUME TypeOK, NEW w \in Workers,
         task' = [task EXCEPT ![w].pc = "wait", ![w].stamp = Cooldown]
  PROVE  /\ task' \in [Workers -> Task]
         /\ task'[w].pc = "wait"
         /\ \A v \in Workers \ {w} : task'[v] = task[v]
<1>1. task[w] \in Task
  BY DEF TypeOK
<1>2. /\ [task[w] EXCEPT !.pc = "wait", !.stamp = Cooldown] \in Task
      /\ [task[w] EXCEPT !.pc = "wait", !.stamp = Cooldown].pc = "wait"
  BY <1>1, RecordTypes DEF Task, Labels
<1>3. task' = [task EXCEPT ![w] = [task[w] EXCEPT !.pc = "wait", !.stamp = Cooldown]]
  OBVIOUS
<1>4. QED
  BY <1>2, <1>3, TaskType DEF TypeOK

LEMMA AnnotationInitInv ==
  ASSUME Inv, NEW w \in Workers, AnnotationInit(w)
  PROVE  Inv'
<1> DEFINE d == [dep EXCEPT !.annotated = TRUE, !.state = "none",
                            !.migrated = Cooldown]
<1>1. TypeOK /\ CopyCurrent /\ dep \in Deployment
  BY DEF Inv, TypeOK
<1>2. UNCHANGED <<copy, cur, status, sinceMove>>
  BY DEF AnnotationInit
<1>3. d \in Deployment /\ d.strategy = dep.strategy
  BY <1>1, RecordTypes DEF Deployment
<1>4. /\ dep' \in Deployment /\ fresh' \in BOOLEAN /\ CopyCurrent'
      /\ dep'.strategy = dep.strategy
  <2>1. CASE Store(d)
    <3>1. dep' = d
      BY <2>1 DEF Store
    <3>2. QED
      BY <1>1, <1>2, <1>3, <2>1, <3>1, StoreType
  <2>2. CASE UNCHANGED <<dep, fresh>>
    BY <1>1, <1>2, <2>2 DEF TypeOK, CopyCurrent
  <2>3. QED
    BY <2>1, <2>2 DEF AnnotationInit
<1>5. /\ task' \in [Workers -> Task]
      /\ task'[w].pc \in {"wait", "annotationWrite"}
      /\ \A v \in Workers \ {w} : task'[v] = task[v]
  <2>1. CASE Goto(w, "annotationWrite")
    BY <1>1, <2>1, GotoType DEF TypeOK, Labels
  <2>2. CASE task' = [task EXCEPT ![w].pc = "wait", ![w].stamp = Cooldown]
    BY <1>1, <2>2, WaitTask
  <2>3. QED
    BY <2>1, <2>2 DEF AnnotationInit
<1>6. TypeOK'
  BY <1>1, <1>2, <1>4, <1>5 DEF TypeOK
<1>7. IdleStatusSettled' /\ MigratesWithStrategy'
  BY <1>2, <1>4, <1>5, KeepsRestOf
<1>8. QED
  BY <1>4, <1>6, <1>7 DEF Inv

LEMMA AnnotationWriteInv ==
  ASSUME Inv, NEW w \in Workers, AnnotationWrite(w)
  PROVE  Inv'
<1> DEFINE d == [dep EXCEPT !.state = task[w].target, !.migrated = task[w].stamp]
<1>1. TypeOK /\ CopyCurrent /\ dep \in Deployment /\ task[w] \in Task
  BY DEF Inv, TypeOK
<1>2. UNCHANGED <<copy, cur, status, sinceMove>>
  BY DEF AnnotationWrite
<1>3. d \in Deployment /\ d.strategy = dep.strategy
  BY <1>1 DEF Deployment, Task
<1>4. /\ dep' \in Deployment /\ fresh' \in BOOLEAN /\ CopyCurrent'
      /\ dep'.strategy = dep.strategy
  <2>1. CASE Store(d)
    <3>1. dep' = d
      BY <2>1 DEF Store
    <3>2. QED
      BY <1>1, <1>2, <1>3, <2>1, <3>1, StoreType
  <2>2. CASE UNCHANGED <<dep, fresh>>
    BY <1>1, <1>2, <2>2 DEF TypeOK, CopyCurrent
  <2>3. QED
    BY <2>1, <2>2 DEF AnnotationWrite
<1>5. /\ task' \in [Workers -> Task]
      /\ task'[w].pc = "wait"
      /\ \A v \in Workers \ {w} : task'[v] = task[v]
  BY <1>1, WaitTask DEF AnnotationWrite
<1>6. TypeOK'
  BY <1>1, <1>2, <1>4, <1>5 DEF TypeOK
<1>7. IdleStatusSettled' /\ MigratesWithStrategy'
  BY <1>2, <1>4, <1>5, KeepsRestOf
<1>8. QED
  BY <1>4, <1>6, <1>7 DEF Inv

LEMMA WaitInv ==
  ASSUME Inv, NEW w \in Workers, Wait(w)
  PROVE  Inv'
<1>1. TypeOK /\ UNCHANGED <<dep, copy, fresh, cur, status, sinceMove>>
  BY DEF Inv, Wait
<1>2. CASE Goto(w, AfterWait(w))
  <2>1. AfterWait(w) \in Labels \ {"idle", "patchGet", "patchApply"}
    BY <1>1, NextTasks DEF Labels
  <2>2. QED
    BY <1>1, <1>2, <2>1, OnlyGoto
<1>3. CASE task' = [task EXCEPT ![w] = AfterWaitError(w)]
  BY <1>1, <1>3, NextTasks, OnlyTask
<1>4. QED
  BY <1>2, <1>3 DEF Wait

LEMMA VerifyInv ==
  ASSUME Inv, NEW w \in Workers, Verify(w)
  PROVE  Inv'
<1>1. UNCHANGED <<dep, copy, fresh, cur, status, sinceMove>>
  BY DEF Verify
<1>2. \E l \in {"record", "setSpot", "revert"} : Goto(w, l)
  BY DEF Verify
<1>3. {"record", "setSpot", "revert"} \subseteq Labels \ {"idle", "patchGet", "patchApply"}
  BY DEF Labels
<1>4. QED
  BY <1>1, <1>2, <1>3, OnlyGoto

LEMMA RevertInv ==
  ASSUME Inv, NEW w \in Workers, Revert(w)
  PROVE  Inv'
<1> DEFINE t == [task[w] EXCEPT !.pc = "patchGet", !.job = "back",
                                !.target = RollbackTarget(w)]
<1>1. TypeOK /\ task[w] \in Task /\ RollbackTarget(w) \in Compute
  BY NextTasks DEF Inv, TypeOK
<1>2. UNCHANGED <<dep, copy, fresh, cur, status, sinceMove>>
  BY DEF Revert
<1>3. task' = [task EXCEPT ![w] = t]
  BY DEF Revert
<1>4. t \in Task /\ t.pc = "patchGet" /\ t.job = "back"
  BY <1>1 DEF Task, Labels
<1>5. QED
  BY <1>2, <1>3, <1>4, OnlyTask

-----------------------------------------------------------------------------
(* The steps of the event loop. *)

LEMMA FirstCallType == FirstCall \in {"record", "strategyGet"}
BY DEF FirstCall

\* A step of the event loop to a label other than "idle", "patchGet" and
\* "patchApply", which changes cur or status besides.
LEMMA HandlerTask ==
  ASSUME Inv, NEW t \in Task, t.pc \notin {"idle", "patchGet", "patchApply"},
         task' = [task EXCEPT ![Handler] = t],
         UNCHANGED <<dep, copy, fresh, sinceMove>>,
         cur' \in Compute \cup {"unknown"},
         status' \in {"healthy", "migrating", "error"}
  PROVE  Inv'
<1>1. task' \in [Workers -> Task] /\ task'[Handler] = t
  BY TaskType DEF Inv, TypeOK, Workers
<1>2. TypeOK' /\ CopyCurrent'
  BY <1>1 DEF Inv, TypeOK, CopyCurrent
<1>3. IdleStatusSettled' /\ MigratesWithStrategy'
  BY <1>1 DEF IdleStatusSettled, MigratesWithStrategy, At
<1>4. QED
  BY <1>2, <1>3 DEF Inv

LEMMA HandlerGoto ==
  ASSUME Inv, NEW l \in Labels \ {"idle", "patchGet", "patchApply"},
         Goto(Handler, l),
         UNCHANGED <<dep, copy, fresh, sinceMove>>,
         cur' \in Compute \cup {"unknown"},
         status' \in {"healthy", "migrating", "error"}
  PROVE  Inv'
<1>1. [task[Handler] EXCEPT !.pc = l] \in Task /\ [task[Handler] EXCEPT !.pc = l].pc = l
  BY DEF Inv, TypeOK, Task, Workers
<1>2. task' = [task EXCEPT ![Handler] = [task[Handler] EXCEPT !.pc = l]]
  BY DEF Goto
<1>3. QED
  BY <1>1, <1>2, HandlerTask

\* The event loop goes back to its channel.
LEMMA HandlerIdle ==
  ASSUME Inv, task' = [task EXCEPT ![Handler] = Idle],
         UNCHANGED <<dep, copy, fresh, cur, sinceMove>>,
         status' \in {"healthy", "error"}
  PROVE  Inv'
<1>1. task' \in [Workers -> Task] /\ task'[Handler] = Idle
  BY RecordTypes, TaskType DEF Inv, TypeOK, Workers
<1>2. TypeOK' /\ CopyCurrent'
  BY <1>1 DEF Inv, TypeOK, CopyCurrent
<1>3. IdleStatusSettled' /\ MigratesWithStrategy'
  BY <1>1 DEF IdleStatusSettled, MigratesWithStrategy, Idle
<1>4. QED
  BY <1>2, <1>3 DEF Inv

LEMMA DetectedType ==
  ASSUME TypeOK
  PROVE  dep.compute \in Compute /\ Detected(dep) \in Compute /\ "spot" \in Compute
BY DEF TypeOK, Detected, Deployment, Compute

\* Taking a compute type up, and putting it into State, moves the event loop and
\* changes nothing else of its task.
LEMMA FoundTask ==
  ASSUME TypeOK, NEW c \in Compute, NEW l \in Labels,
         task' = [task EXCEPT ![Handler].found = c, ![Handler].pc = l]
  PROVE  \E t \in Task : /\ task' = [task EXCEPT ![Handler] = t]
                         /\ t.pc = l
                         /\ t.job = task[Handler].job
                         /\ t.target = task[Handler].target
<1> DEFINE t == [task[Handler] EXCEPT !.found = c, !.pc = l]
<1>1. task[Handler] \in Task
  BY DEF TypeOK, Workers
<1>2. t \in Task /\ t.pc = l /\ t.job = task[Handler].job
      /\ t.target = task[Handler].target
  BY <1>1 DEF Task
<1>3. task' = [task EXCEPT ![Handler] = t]
  OBVIOUS
<1>4. QED
  BY <1>2, <1>3

\* StrategyPatch and Restore: a write of the strategy.
LEMMA WriteStrategy ==
  ASSUME Inv, NEW s \in StrategyKinds, NEW l \in Labels \ {"idle"},
         \/ /\ Store(WithStrategy(dep, s))
            /\ l \in {"patchGet", "patchApply"} => IntValueIsZero(s)
         \/ UNCHANGED <<dep, fresh>> /\ l \notin {"patchGet", "patchApply"},
         Goto(Handler, l),
         UNCHANGED <<copy, cur, status, sinceMove>>
  PROVE  Inv'
<1>1. TypeOK /\ CopyCurrent /\ dep \in Deployment
  BY DEF Inv, TypeOK
<1>2. task' \in [Workers -> Task] /\ task'[Handler].pc = l
  BY <1>1, GotoType DEF TypeOK, Workers
<1>3. CASE /\ Store(WithStrategy(dep, s))
           /\ l \in {"patchGet", "patchApply"} => IntValueIsZero(s)
  <2>1. WithStrategy(dep, s) \in Deployment /\ WithStrategy(dep, s).strategy = s
    BY <1>1, WithType DEF Compute
  <2>2. dep' \in Deployment /\ fresh' \in BOOLEAN /\ CopyCurrent'
    BY <1>1, <1>3, <2>1, StoreType
  <2>3. dep'.strategy = s
    BY <1>3, <2>1 DEF Store
  <2>4. TypeOK'
    BY <1>1, <1>2, <2>2 DEF TypeOK
  <2>5. IdleStatusSettled' /\ MigratesWithStrategy'
    BY <1>2, <1>3, <2>3 DEF IdleStatusSettled, MigratesWithStrategy, At
  <2>6. QED
    BY <2>2, <2>4, <2>5 DEF Inv
<1>4. CASE UNCHANGED <<dep, fresh>> /\ l \notin {"patchGet", "patchApply"}
  BY <1>1, <1>2, <1>4
     DEF Inv, TypeOK, CopyCurrent, IdleStatusSettled, MigratesWithStrategy, At
<1>5. QED
  BY <1>3, <1>4

LEMMA StrategyGetInv ==
  ASSUME Inv, StrategyGet
  PROVE  Inv'
<1>1. UNCHANGED <<dep, copy, fresh, cur, status, sinceMove>>
  BY DEF StrategyGet
<1>2. CASE \E l \in {"strategyPatch", "fail"} : Goto(Handler, l)
  BY <1>1, <1>2, OnlyGoto DEF Workers, Labels
<1>3. CASE IntValueIsZero(dep.strategy) /\ Goto(Handler, "patchGet")
  <2>1. task' \in [Workers -> Task] /\ task'[Handler].pc = "patchGet"
    BY <1>3, GotoType DEF Inv, TypeOK, Workers, Labels
  <2>2. TypeOK' /\ CopyCurrent'
    BY <1>1, <2>1 DEF Inv, TypeOK, CopyCurrent
  <2>3. IdleStatusSettled' /\ MigratesWithStrategy'
    BY <1>1, <1>3, <2>1 DEF IdleStatusSettled, MigratesWithStrategy, At, IntValueIsZero
  <2>4. QED
    BY <2>2, <2>3 DEF Inv
<1>4. QED
  BY <1>2, <1>3 DEF StrategyGet

LEMMA HandlerInv ==
  ASSUME Inv,
         \/ Notice \/ DetectAnnotation \/ DetectSpec \/ Remember \/ StrategyGet
         \/ StrategyPatch \/ Restore \/ Fail \/ Record \/ Settle
  PROVE  Inv'
<1>1. TypeOK
  BY DEF Inv
<1>2. /\ {"record", "settle", "detectSpec", "detectAnnotation", "remember",
          "strategyGet"} \subseteq Labels \ {"idle", "patchGet", "patchApply"}
      /\ {"patchGet", "fail"} \subseteq Labels \ {"idle"}
      /\ {"zero", "quarter"} \subseteq StrategyKinds
      /\ Handler \in Workers
  BY DEF Labels, StrategyKinds, Workers
<1>3. CASE Notice
  <2>1. \E l \in {"detectAnnotation", "record", "strategyGet"} : Goto(Handler, l)
    BY <1>3, FirstCallType DEF Notice
  <2>2. QED
    BY <1>1, <1>2, <1>3, <2>1, HandlerGoto DEF Notice, TypeOK
<1>4. CASE DetectAnnotation \/ DetectSpec
  <2>1. UNCHANGED <<dep, copy, fresh, cur, status, sinceMove>>
    BY <1>4 DEF DetectAnnotation, DetectSpec
  <2>2. CASE Goto(Handler, "detectSpec")
    BY <1>2, <2>1, <2>2, OnlyGoto
  <2>3. ASSUME NEW c \in Compute, Found(c) PROVE Inv'
    <3>1. PICK t \in Task : task' = [task EXCEPT ![Handler] = t] /\ t.pc = "remember"
      BY <1>1, <1>2, <2>3, FoundTask DEF Found
    <3>2. QED
      BY <1>2, <2>1, <3>1, OnlyTask
  <2>4. QED
    BY <1>1, <1>4, <2>2, <2>3, DetectedType DEF DetectAnnotation, DetectSpec
<1>5. CASE Remember
  <2>1. FirstCall \in Labels \ {"idle", "patchGet", "patchApply"} /\ "spot" \in Compute
    BY <1>2, FirstCallType DEF Compute
  <2>2. PICK t \in Task : task' = [task EXCEPT ![Handler] = t] /\ t.pc = FirstCall
    BY <1>1, <1>5, <2>1, FoundTask DEF Remember
  <2>3. cur' \in Compute
    BY <1>1, <1>2, <1>5 DEF Remember, TypeOK, Task
  <2>4. QED
    BY <1>1, <1>5, <2>1, <2>2, <2>3, HandlerTask DEF Remember, TypeOK
<1>6. CASE StrategyGet
  BY <1>6, StrategyGetInv
<1>7. CASE StrategyPatch
  <2>1. IntValueIsZero("zero")
    BY DEF IntValueIsZero
  <2>2. QED
    BY <1>2, <1>7, <2>1, WriteStrategy DEF StrategyPatch
<1>8. CASE Restore
  BY <1>2, <1>8, WriteStrategy DEF Restore
<1>9. CASE Fail
  BY <1>9, HandlerIdle DEF Fail
<1>10. CASE Record
  BY <1>1, <1>2, <1>10, HandlerGoto DEF Record, TypeOK, Compute
<1>11. CASE Settle
  BY <1>11, HandlerIdle DEF Settle
<1>12. QED
  BY <1>3, <1>4, <1>5, <1>6, <1>7, <1>8, <1>9, <1>10, <1>11

-----------------------------------------------------------------------------
(* The steps of the recovery manager. *)

\* A step of the recovery manager that leaves the Deployment alone.
LEMMA RecoveryTask ==
  ASSUME Inv, NEW t \in Task, task' = [task EXCEPT ![Recovery] = t],
         UNCHANGED <<dep, copy, fresh, sinceMove>>,
         cur' \in Compute \cup {"unknown"},
         status' \in {status, "healthy"}
  PROVE  Inv'
<1>1. task' \in [Workers -> Task] /\ task'[Handler] = task[Handler]
  BY TaskType DEF Inv, TypeOK, Workers, Handler, Recovery
<1>2. TypeOK' /\ CopyCurrent'
  BY <1>1 DEF Inv, TypeOK, CopyCurrent
<1>3. IdleStatusSettled' /\ MigratesWithStrategy'
  BY <1>1, KeepsRest
<1>4. QED
  BY <1>2, <1>3 DEF Inv

LEMMA NoteGetInv ==
  ASSUME Inv, NoteGet
  PROVE  Inv'
<1>1. TypeOK /\ task[Recovery] \in Task
  BY DEF Inv, TypeOK, Workers
<1>2. UNCHANGED <<dep, cur, status, sinceMove>>
  BY DEF NoteGet
<1>3. task' \in [Workers -> Task] /\ task'[Handler] = task[Handler]
  <2>1. CASE Goto(Recovery, "notePut")
    BY <1>1, <2>1, GotoType DEF TypeOK, Workers, Labels, Handler, Recovery
  <2>2. CASE task' = [task EXCEPT ![Recovery] = AfterNote]
    BY <1>1, <2>2, NextTasks, TaskType DEF TypeOK, Workers, Handler, Recovery
  <2>3. QED
    BY <2>1, <2>2 DEF NoteGet
<1>4. copy' \in Deployment /\ fresh' \in BOOLEAN /\ CopyCurrent'
  <2>1. CASE copy' = dep /\ fresh' = TRUE
    BY <1>1, <1>2, <2>1 DEF TypeOK, CopyCurrent
  <2>2. CASE UNCHANGED <<copy, fresh>>
    BY <1>1, <1>2, <2>2 DEF Inv, TypeOK, CopyCurrent
  <2>3. QED
    BY <2>1, <2>2 DEF NoteGet
<1>5. TypeOK'
  BY <1>1, <1>2, <1>3, <1>4 DEF TypeOK
<1>6. IdleStatusSettled' /\ MigratesWithStrategy'
  BY <1>2, <1>3, KeepsRest
<1>7. QED
  BY <1>4, <1>5, <1>6 DEF Inv

\* What updateRecoveryAnnotations changes in the object it writes back.
LEMMA NotedKeeps ==
  ASSUME NEW d \in Deployment, NEW note \in {"attempting", "success", "failed"}
  PROVE  /\ Noted(d, note) \in Deployment
         /\ Noted(d, note).compute = d.compute
         /\ Noted(d, note).strategy = d.strategy
         /\ Noted(d, note).rolledOut = d.rolledOut
         /\ Noted(d, note).state = d.state
BY RecordTypes DEF Noted, Deployment

\* An Update that is accepted writes what was read, and nothing but the
\* annotations of the bookkeeping is different: CopyCurrent is what makes it so.
LEMMA NotePutWrites ==
  ASSUME Inv, NotePut
  PROVE  /\ dep' \in Deployment
         /\ dep'.compute = dep.compute
         /\ dep'.strategy = dep.strategy
         /\ dep'.rolledOut = dep.rolledOut
         /\ dep'.state = dep.state
<1>1. CASE fresh /\ dep' = Noted(copy, task[Recovery].note)
  <2>1. copy = dep /\ dep \in Deployment
    BY <1>1 DEF Inv, TypeOK, CopyCurrent
  <2>2. task[Recovery].note \in {"attempting", "success", "failed"}
    BY DEF Inv, TypeOK, Workers, Task
  <2>3. QED
    BY <1>1, <2>1, <2>2, NotedKeeps
<1>2. CASE UNCHANGED dep
  BY <1>2 DEF Inv, TypeOK
<1>3. QED
  BY <1>1, <1>2 DEF NotePut

LEMMA NotePutInv ==
  ASSUME Inv, NotePut
  PROVE  Inv'
<1>1. dep' \in Deployment /\ dep'.strategy = dep.strategy
  BY NotePutWrites
<1>2. UNCHANGED <<cur, status, sinceMove>>
  BY DEF NotePut
<1>3. AfterNote \in Task
  BY NextTasks DEF Inv, Workers
<1>4. task' \in [Workers -> Task] /\ task'[Handler] = task[Handler]
  BY <1>3, TaskType DEF NotePut, Inv, TypeOK, Workers, Handler, Recovery
<1>5. copy' \in Deployment /\ fresh' = FALSE
  BY RecordTypes DEF NotePut
<1>6. TypeOK' /\ CopyCurrent'
  BY <1>1, <1>2, <1>4, <1>5 DEF Inv, TypeOK, CopyCurrent
<1>7. IdleStatusSettled' /\ MigratesWithStrategy'
  BY <1>1, <1>2, <1>4, KeepsRest
<1>8. QED
  BY <1>6, <1>7 DEF Inv

LEMMA RecoveryInv ==
  ASSUME Inv,
         RecoveryTick \/ NoteGet \/ NotePut \/ SetSpot \/ SetHealthy \/ SetFargate
  PROVE  Inv'
<1>1. TypeOK /\ task[Recovery] \in Task
  BY DEF Inv, TypeOK, Workers
<1>2. CASE RecoveryTick
  <2>1. [Idle EXCEPT !.pc = "noteGet", !.target = "spot"] \in Task
    BY RecordTypes DEF Task, Labels, Compute
  <2>2. QED
    BY <1>1, <1>2, <2>1, RecoveryTask DEF RecoveryTick, TypeOK
<1>3. CASE NoteGet
  BY <1>3, NoteGetInv
<1>4. CASE NotePut
  BY <1>4, NotePutInv
<1>5. CASE SetSpot
  <2>1. [task[Recovery] EXCEPT !.pc = "setHealthy"] \in Task
    BY <1>1 DEF Task, Labels
  <2>2. task' = [task EXCEPT ![Recovery] = [task[Recovery] EXCEPT !.pc = "setHealthy"]]
    BY <1>5 DEF SetSpot, Goto
  <2>3. QED
    BY <1>5, <2>1, <2>2, RecoveryTask DEF SetSpot, Compute
<1>6. CASE SetHealthy
  <2>1. [task[Recovery] EXCEPT !.pc = "noteGet", !.note = "success"] \in Task
    BY <1>1 DEF Task, Labels
  <2>2. task' = [task EXCEPT ![Recovery] =
                   [task[Recovery] EXCEPT !.pc = "noteGet", !.note = "success"]]
    BY <1>6 DEF SetHealthy
  <2>3. QED
    BY <1>1, <1>6, <2>1, <2>2, RecoveryTask DEF SetHealthy, TypeOK
<1>7. CASE SetFargate
  <2>1. NoteFailure(Recovery) \in Task
    BY <1>1, NextTasks DEF Workers
  <2>2. QED
    BY <1>7, <2>1, RecoveryTask DEF SetFargate, Compute
<1>8. QED
  BY <1>2, <1>3, <1>4, <1>5, <1>6, <1>7

-----------------------------------------------------------------------------
(* The steps of the environment. *)

\* The controller writes the Deployment and keeps its strategy.
LEMMA ControllerWrites ==
  ASSUME Inv, NEW d \in Deployment, d.strategy = dep.strategy,
         Store(d), UNCHANGED <<copy, task, cur, status, sinceMove>>
  PROVE  Inv'
<1>1. dep' \in Deployment /\ fresh' \in BOOLEAN /\ CopyCurrent'
  BY StoreType DEF Inv
<1>2. dep'.strategy = dep.strategy
  BY DEF Store
<1>3. TypeOK'
  BY <1>1 DEF Inv, TypeOK
<1>4. IdleStatusSettled' /\ MigratesWithStrategy'
  BY <1>2, KeepsRest
<1>5. QED
  BY <1>1, <1>3, <1>4 DEF Inv

LEMMA TickInv ==
  ASSUME Inv, Tick
  PROVE  Inv'
<1>1. /\ dep' \in Deployment /\ copy' \in Deployment
      /\ dep'.strategy = dep.strategy
      /\ copy = dep => copy' = dep'
      /\ sinceMove' \in Ages
  BY RecordTypes DEF Inv, TypeOK, Tick, Deployment
<1>2. ASSUME NEW w \in Workers
      PROVE  /\ [task[w] EXCEPT !.stamp = Older(@)] \in Task
             /\ [task[w] EXCEPT !.stamp = Older(@)].pc = task[w].pc
             /\ [task[w] EXCEPT !.stamp = Older(@)].job = task[w].job
  BY RecordTypes DEF Inv, TypeOK, Task
<1>3. /\ task' \in [Workers -> Task]
      /\ task'[Handler].pc = task[Handler].pc
      /\ task'[Handler].job = task[Handler].job
  BY <1>2 DEF Tick, Workers
<1>4. TypeOK' /\ CopyCurrent'
  BY <1>1, <1>3 DEF Inv, TypeOK, CopyCurrent, Tick
<1>5. IdleStatusSettled' /\ MigratesWithStrategy'
  BY <1>1, <1>3 DEF Inv, IdleStatusSettled, MigratesWithStrategy, At, Tick
<1>6. QED
  BY <1>4, <1>5 DEF Inv

LEMMA RestartInv ==
  ASSUME Inv, Restart
  PROVE  Inv'
<1>1. task' \in [Workers -> Task] /\ task'[Handler] = Idle /\ copy' \in Deployment
  BY RecordTypes DEF Restart, Workers
<1>2. TypeOK' /\ CopyCurrent'
  BY <1>1 DEF Restart, Inv, TypeOK, CopyCurrent
<1>3. IdleStatusSettled' /\ MigratesWithStrategy'
  BY <1>1 DEF Restart, IdleStatusSettled, MigratesWithStrategy, Idle
<1>4. QED
  BY <1>2, <1>3 DEF Inv

LEMMA EnvironmentInv ==
  ASSUME Inv, Environment
  PROVE  Inv'
<1>1. dep \in Deployment
  BY DEF Inv, TypeOK
<1>2. /\ [dep EXCEPT !.rolledOut = TRUE] \in Deployment
      /\ [dep EXCEPT !.rolledOut = TRUE].strategy = dep.strategy
      /\ [dep EXCEPT !.rolledOut = FALSE] \in Deployment
      /\ [dep EXCEPT !.rolledOut = FALSE].strategy = dep.strategy
      /\ [dep EXCEPT !.annotated = TRUE] \in Deployment
      /\ [dep EXCEPT !.annotated = TRUE].strategy = dep.strategy
  BY <1>1 DEF Deployment
<1>3. CASE RolloutCompletes
  BY <1>2, <1>3, ControllerWrites DEF RolloutCompletes
<1>4. CASE PodsLost
  BY <1>2, <1>4, ControllerWrites DEF PodsLost
<1>5. CASE ControllerAnnotates
  BY <1>2, <1>5, ControllerWrites DEF ControllerAnnotates
<1>6. CASE StatusUpdate
  BY <1>6 DEF StatusUpdate, Inv, TypeOK, CopyCurrent, IdleStatusSettled,
              MigratesWithStrategy, At
<1>7. CASE Tick
  BY <1>7, TickInv
<1>8. QED
  BY <1>3, <1>4, <1>5, <1>6, <1>7 DEF Environment

-----------------------------------------------------------------------------

\* Inv is inductive: every step of either goroutine, of the environment and of
\* the process preserves it.
LEMMA InvStep == Inv /\ [Next]_vars => Inv'
<1> SUFFICES ASSUME Inv, [Next]_vars PROVE Inv'
  OBVIOUS
<1>1. ASSUME NEW w \in Workers, Shared(w) PROVE Inv'
  BY <1>1, PatchGetInv, PatchApplyInv, AnnotationGetInv, AnnotationInitInv,
     AnnotationWriteInv, WaitInv, VerifyInv, RevertInv DEF Shared
<1>2. CASE Notice \/ HandlerStep
  BY <1>1, <1>2, HandlerInv DEF HandlerStep, Workers
<1>3. CASE RecoveryStep
  BY <1>1, <1>3, RecoveryInv DEF RecoveryStep, Workers
<1>4. CASE Environment
  BY <1>4, EnvironmentInv
<1>5. CASE Restart
  BY <1>5, RestartInv
<1>6. CASE UNCHANGED vars
  BY <1>6 DEF vars, Inv, TypeOK, CopyCurrent, IdleStatusSettled,
              MigratesWithStrategy, At
<1>7. QED
  BY <1>2, <1>3, <1>4, <1>5, <1>6 DEF Next

\* The inductive invariant holds in every behaviour, whatever the cooldown, the
\* switches, the failures and the strategies the Deployment may start with.
THEOREM InvHolds == Spec => []Inv
BY InitInv, InvStep, PTL DEF Spec

\* The state the orchestrator keeps and the Deployment it writes are well formed.
THEOREM TypeCorrect == Spec => []TypeOK
<1>1. Inv => TypeOK
  BY DEF Inv
<1>2. QED
  BY <1>1, InvHolds, PTL

\* The event loop never goes back to its channel, not even through a restart or
\* with the recovery manager writing State, with the status still "migrating".
THEOREM StatusSettles == Spec => []IdleStatusSettled
<1>1. Inv => IdleStatusSettled
  BY DEF Inv
<1>2. QED
  BY <1>1, InvHolds, PTL

\* What ensureZeroDowntimeStrategy established still holds when
\* PatchComputeTypeWithReason patches the template, calls of the recovery
\* manager in between included.
THEOREM StrategyHoldsUntilPatch == Spec => []MigratesWithStrategy
<1>1. Inv => MigratesWithStrategy
  BY DEF Inv
<1>2. QED
  BY <1>1, InvHolds, PTL

\* The read-modify-write of updateRecoveryAnnotations loses no write of the event
\* loop or of the Deployment controller.
THEOREM NoLostUpdate == Spec => UpdateLosesNothing
<1>1. Inv /\ [Next]_vars =>
        [NotePut => /\ dep'.compute = dep.compute
                    /\ dep'.strategy = dep.strategy
                    /\ dep'.rolledOut = dep.rolledOut
                    /\ dep'.state = dep.state]_vars
  BY NotePutWrites
<1>2. QED
  BY <1>1, InvHolds, PTL DEF Spec, UpdateLosesNothing

-----------------------------------------------------------------------------
(* What belongs to one goroutine alone. *)

\* The steps of the event loop that are its own.  None touches the template.
HandlerOwn ==
  \/ Notice \/ DetectAnnotation \/ DetectSpec \/ Remember \/ StrategyGet
  \/ StrategyPatch \/ Restore \/ Fail \/ Record \/ Settle

\* They move the event loop among its own labels, keep what its migration is
\* about, and end it in Fail and in Settle only.
LEMMA HandlerOwnTask ==
  ASSUME TypeOK, HandlerOwn
  PROVE  \E t \in Task :
           /\ task' = [task EXCEPT ![Handler] = t]
           /\ t.pc \in {"idle", "detectAnnotation", "detectSpec", "remember",
                        "strategyGet", "strategyPatch", "patchGet", "fail",
                        "record", "settle"}
           /\ t.pc = "idle" => Fail \/ Settle
           /\ \/ t = Idle
              \/ t.job = task[Handler].job /\ t.target = task[Handler].target
<1>1. task[Handler] \in Task /\ Idle \in Task /\ Idle.pc = "idle"
  BY RecordTypes DEF TypeOK, Workers, Idle
<1>2. CASE Fail \/ Settle
  BY <1>1, <1>2 DEF Fail, Settle
<1>3. ASSUME NEW l \in {"detectAnnotation", "detectSpec", "strategyGet",
                        "strategyPatch", "patchGet", "fail", "record", "settle"},
             Goto(Handler, l)
      PROVE  \E t \in Task :
               /\ task' = [task EXCEPT ![Handler] = t]
               /\ t.pc = l
               /\ t.job = task[Handler].job /\ t.target = task[Handler].target
  <2> DEFINE t == [task[Handler] EXCEPT !.pc = l]
  <2>1. t \in Task /\ t.pc = l /\ t.job = task[Handler].job
        /\ t.target = task[Handler].target
    BY <1>1 DEF Task, Labels
  <2>2. task' = [task EXCEPT ![Handler] = t]
    BY <1>3 DEF Goto
  <2> HIDE DEF t
  <2>3. QED
    BY <2>1, <2>2
<1>4. CASE \/ Notice \/ StrategyGet \/ StrategyPatch \/ Restore \/ Record
           \/ DetectAnnotation /\ Goto(Handler, "detectSpec")
  <2>1. \E l \in {"detectAnnotation", "detectSpec", "strategyGet", "strategyPatch",
                  "patchGet", "fail", "record", "settle"} : Goto(Handler, l)
    BY <1>4, FirstCallType DEF Notice, StrategyGet, StrategyPatch, Restore, Record
  <2>2. QED
    BY <1>3, <2>1
<1>5. ASSUME NEW c \in Compute, NEW l \in {"remember", "record", "strategyGet"},
             task' = [task EXCEPT ![Handler].found = c, ![Handler].pc = l]
      PROVE  \E t \in Task :
               /\ task' = [task EXCEPT ![Handler] = t]
               /\ t.pc = l
               /\ t.job = task[Handler].job /\ t.target = task[Handler].target
  <2>1. l \in Labels
    BY DEF Labels
  <2>2. QED
    BY <1>5, <2>1, FoundTask
<1>6. CASE Remember \/ \E c \in Compute : Found(c)
  BY <1>5, <1>6, FirstCallType, DetectedType DEF Remember, Found
<1>7. QED
  BY <1>2, <1>4, <1>6, DetectedType DEF HandlerOwn, DetectAnnotation, DetectSpec

\* A step of the recovery manager leaves the event loop where it is.  Only a
\* recovery that is under way writes State.
LEMMA RecoveryAside ==
  ASSUME TypeOK, RecoveryStep
  PROVE  /\ task'[Handler] = task[Handler]
         /\ task[Recovery].pc = "idle" => UNCHANGED cur
<1>1. task \in [Workers -> Task] /\ Handler \in Workers /\ Handler # Recovery
  BY DEF TypeOK, Workers, Handler, Recovery
<1>2. CASE Shared(Recovery)
  BY <1>1, <1>2 DEF Shared, PatchGet, PatchApply, AnnotationGet, AnnotationInit,
                    AnnotationWrite, Wait, Verify, Revert, Goto
<1>3. CASE ~Shared(Recovery)
  <2>1. task'[Handler] = task[Handler]
    BY <1>1, <1>3 DEF RecoveryStep, RecoveryTick, NoteGet, NotePut, SetSpot,
                      SetHealthy, SetFargate, Goto
  <2>2. task[Recovery].pc = "idle" => UNCHANGED cur
    BY <1>3 DEF RecoveryStep, RecoveryTick, NoteGet, NotePut, SetSpot, SetHealthy,
                SetFargate, At
  <2>3. QED
    BY <2>1, <2>2
<1>4. QED
  BY <1>2, <1>3

-----------------------------------------------------------------------------
(* Dry run. *)

\* In dry run the event loop goes from the detection straight to the result.
DryRunInv ==
  task[Handler].pc \in {"idle", "detectAnnotation", "detectSpec", "remember", "record",
                       "settle"}

LEMMA DryRunStep ==
  ASSUME DryRun, TypeOK, DryRunInv, [Next]_vars
  PROVE  DryRunInv' /\ (HandlerStep => dep' = dep)
<1>1. task \in [Workers -> Task] /\ Handler \in Workers /\ Handler # Recovery
      /\ Idle.pc = "idle"
  BY DEF TypeOK, Workers, Handler, Recovery, Idle
<1>2. ~(StrategyGet \/ StrategyPatch \/ Restore \/ Fail \/ Shared(Handler))
  BY DEF DryRunInv, StrategyGet, StrategyPatch, Restore, Fail, Shared, PatchGet,
         PatchApply, AnnotationGet, AnnotationInit, AnnotationWrite, Wait, Verify,
         Revert, At
<1>3. HandlerStep => DetectAnnotation \/ DetectSpec \/ Remember \/ Record \/ Settle
  BY <1>2 DEF HandlerStep
<1>4. HandlerStep => dep' = dep
  BY <1>3 DEF DetectAnnotation, DetectSpec, Remember, Record, Settle
<1>5. ASSUME Notice \/ HandlerStep PROVE DryRunInv'
  <2>1. CASE Notice \/ Record \/ Settle
    BY <1>1, <2>1 DEF Notice, Record, Settle, FirstCall, Goto, Task, DryRunInv
  <2>2. CASE DetectAnnotation \/ DetectSpec \/ Remember
    BY <1>1, <2>2 DEF DetectAnnotation, DetectSpec, Remember, Found, FirstCall, Goto,
                      Task, DryRunInv
  <2>3. QED
    BY <1>3, <1>5, <2>1, <2>2
<1>6. ASSUME RecoveryStep PROVE DryRunInv'
  BY <1>6, RecoveryAside DEF DryRunInv
<1>7. ASSUME RolloutCompletes \/ PodsLost \/ ControllerAnnotates \/ StatusUpdate
             \/ UNCHANGED vars
      PROVE  DryRunInv'
  BY <1>7 DEF RolloutCompletes, PodsLost, ControllerAnnotates, StatusUpdate, vars,
              DryRunInv
<1>8. ASSUME Tick PROVE DryRunInv'
  BY <1>1, <1>8 DEF Tick, Task, DryRunInv
<1>9. ASSUME Restart PROVE DryRunInv'
  BY <1>1, <1>9 DEF Restart, DryRunInv
<1>10. QED
  BY <1>4, <1>5, <1>6, <1>7, <1>8, <1>9 DEF Next, Environment

\* config.toml: "Dry-run mode: log actions but do not patch deployments".  The
\* event loop patches none, under every interleaving with the recovery manager;
\* that one does not look at the switch.
THEOREM DryRunChangesNothing ==
  DryRun => (Spec => [][HandlerStep => dep' = dep]_vars)
<1> SUFFICES ASSUME DryRun PROVE Spec => [][HandlerStep => dep' = dep]_vars
  OBVIOUS
<1>1. Init => DryRunInv
  BY DEF Init, DryRunInv, Idle, Workers
<1>2. TypeOK /\ DryRunInv /\ [Next]_vars =>
        DryRunInv' /\ [HandlerStep => dep' = dep]_vars
  BY DryRunStep
<1>3. QED
  BY <1>1, <1>2, TypeCorrect, PTL DEF Spec

-----------------------------------------------------------------------------
(* The goroutines taking turns, without API errors. *)

\* The labels between the patch of the template and the write of the annotation.
Writing == {"annotationGet", "annotationInit", "annotationWrite"}

\* What the task t of the recovery manager obeys: it aims at Spot, and at Fargate
\* once it rolls back; it is verified and ends well on Spot only, and on Fargate
\* only does it record that it failed.
Recovering(t) ==
  /\ t.pc # "idle" => t.target = IF t.job = "forward" THEN "spot" ELSE "fargate"
  /\ t.pc = "setFargate" \/ t.note = "failed" => dep.compute = "fargate"
  /\ t.pc \in {"verify", "setSpot", "setHealthy"} \/ t.note = "success" =>
       dep.compute = "spot"
  /\ t.note # "attempting" => t.pc \in {"noteGet", "notePut"}

\* Besides, a goroutine that has patched, or found nothing to patch, has its target.
SerialInv ==
  /\ Serial
  /\ \A w \in Workers :
       task[w].pc \in Writing \cup {"wait"} => dep.compute = task[w].target
  /\ Recovering(task[Recovery])

\* The annotation lags behind the template in the middle of a patch only.
AgreeInv ==
  (\A w \in Workers : task[w].pc \notin Writing) =>
    dep.state \in {"none", dep.compute}

\* What a step that moves goroutine w, and keeps the template, has to obey.
LEMMA SerialTask ==
  ASSUME Inv, SerialInv, NEW w \in Workers, NEW t \in Task,
         task' = [task EXCEPT ![w] = t], Serial', dep'.compute = dep.compute,
         t.pc \in Writing \cup {"wait"} => dep.compute = t.target,
         w = Recovery => Recovering(t)
  PROVE  SerialInv'
<1>1. task'[w] = t /\ \A v \in Workers \ {w} : task'[v] = task[v]
  BY TaskType DEF Inv, TypeOK
<1>2. \A v \in Workers :
        task'[v].pc \in Writing \cup {"wait"} => dep'.compute = task'[v].target
  BY <1>1 DEF SerialInv, Writing
<1>3. Recovering(task[Recovery])'
  <2>1. CASE w = Recovery
    BY <1>1, <2>1 DEF Recovering
  <2>2. CASE w # Recovery
    BY <1>1, <2>2 DEF SerialInv, Recovering, Workers
  <2>3. QED
    BY <2>1, <2>2
<1>4. QED
  BY <1>2, <1>3 DEF SerialInv, Writing

\* A goroutine in the middle of a patch has not come to a result.
LEMMA RecoveringOn ==
  ASSUME TypeOK, Recovering(task[Recovery]), NEW t \in Task,
         task[Recovery].pc \notin {"idle", "noteGet", "notePut"},
         t.pc \notin {"setFargate", "verify", "setSpot", "setHealthy"},
         t.job = task[Recovery].job, t.target = task[Recovery].target,
         t.note = task[Recovery].note
  PROVE  Recovering(t)
BY DEF Recovering

LEMMA SerialPatch ==
  ASSUME Inv, SerialInv, ~ApiError, NEW w \in Workers, Serial',
         PatchGet(w) \/ PatchApply(w)
  PROVE  SerialInv'
<1>1. task[w] \in Task /\ dep \in Deployment /\ TypeOK /\ Recovery \in Workers
  BY DEF Inv, TypeOK, Workers
<1>2. CASE PatchGet(w)
  <2>1. PICK l \in {"wait", "patchApply"} :
          Goto(w, l) /\ (l = "wait" => dep.compute = task[w].target)
    BY <1>2 DEF PatchGet
  <2> DEFINE t == [task[w] EXCEPT !.pc = l]
  <2>2. t \in Task /\ t.pc = l /\ t.job = task[w].job /\ t.target = task[w].target
        /\ t.note = task[w].note
    BY <1>1 DEF Task, Labels
  <2>3. task' = [task EXCEPT ![w] = t] /\ dep' = dep /\ task[w].pc = "patchGet"
    BY <1>2, <2>1 DEF PatchGet, Goto, At
  <2> HIDE DEF t
  <2>4. w = Recovery => Recovering(t)
    BY <1>1, <2>2, <2>3, RecoveringOn DEF SerialInv
  <2>5. l \notin Writing
    BY DEF Writing
  <2>6. QED
    BY <2>1, <2>2, <2>3, <2>4, <2>5, SerialTask
<1>3. CASE PatchApply(w)
  <2> DEFINE t == [task[w] EXCEPT !.pc = "annotationGet"]
  <2>1. /\ task' = [task EXCEPT ![w] = t]
        /\ dep' = WithCompute(dep, task[w].target)
        /\ task[w].pc = "patchApply"
    BY <1>3 DEF PatchApply, Goto, Store, At, ApiError
  <2>2. dep'.compute = task[w].target
    BY <1>1, <2>1 DEF WithCompute, Deployment
  <2>3. task'[w] = t /\ t.pc = "annotationGet" /\ t.job = task[w].job
        /\ t.target = task[w].target /\ t.note = task[w].note
    BY <1>1, <2>1 DEF TypeOK, Task
  <2>4. \A v \in Workers \ {w} : task'[v] = task[v] /\ task[v].pc = "idle"
    BY <2>1 DEF Inv, TypeOK, SerialInv, Serial, At, Workers, Handler, Recovery
  <2> HIDE DEF t
  <2>5. Recovering(task[Recovery])'
    <3>1. CASE w = Recovery
      BY <2>1, <2>3, <3>1 DEF SerialInv, Recovering
    <3>2. CASE w # Recovery
      BY <1>1, <2>4, <3>2 DEF SerialInv, Recovering
    <3>3. QED
      BY <3>1, <3>2
  <2>6. \A v \in Workers :
          task'[v].pc \in Writing \cup {"wait"} => dep'.compute = task'[v].target
    BY <2>2, <2>3, <2>4 DEF Writing
  <2>7. QED
    BY <2>5, <2>6 DEF SerialInv, Writing
<1>4. QED
  BY <1>2, <1>3

\* The task of a goroutine that writes the annotation.
LEMMA AnnotationTask ==
  ASSUME TypeOK, NEW w \in Workers,
         AnnotationGet(w) \/ AnnotationInit(w) \/ AnnotationWrite(w)
  PROVE  /\ dep'.compute = dep.compute
         /\ task[w].pc \in Writing
         /\ \E t \in Task : /\ task' = [task EXCEPT ![w] = t]
                            /\ t.pc \in Writing \cup {"wait"}
                            /\ t.job = task[w].job
                            /\ t.target = task[w].target
                            /\ t.note = task[w].note
<1>1. task[w] \in Task /\ dep \in Deployment
  BY DEF TypeOK
<1>2. dep'.compute = dep.compute /\ task[w].pc \in Writing
  BY <1>1 DEF AnnotationGet, AnnotationInit, AnnotationWrite, Store, Deployment, At,
              Writing
<1>3. ASSUME NEW l \in {"annotationWrite", "annotationInit", "wait"},
             NEW a \in {0, Cooldown, task[w].stamp},
             task' = [task EXCEPT ![w] = [task[w] EXCEPT !.stamp = a, !.pc = l]]
      PROVE  \E t \in Task : /\ task' = [task EXCEPT ![w] = t]
                             /\ t.pc \in Writing \cup {"wait"}
                             /\ t.job = task[w].job
                             /\ t.target = task[w].target
                             /\ t.note = task[w].note
  <2> DEFINE t == [task[w] EXCEPT !.stamp = a, !.pc = l]
  <2>1. t \in Task /\ t.pc \in Writing \cup {"wait"} /\ t.job = task[w].job
        /\ t.target = task[w].target /\ t.note = task[w].note
    BY <1>1, RecordTypes DEF Task, Labels, Writing
  <2>2. task' = [task EXCEPT ![w] = t]
    BY <1>3
  <2> HIDE DEF t
  <2>3. QED
    BY <2>1, <2>2
<1>4. \E l \in {"annotationWrite", "annotationInit", "wait"},
         a \in {0, Cooldown, task[w].stamp} :
        task' = [task EXCEPT ![w] = [task[w] EXCEPT !.stamp = a, !.pc = l]]
  <2>1. ASSUME NEW l \in {"annotationWrite", "wait"}, Goto(w, l)
        PROVE  task' = [task EXCEPT ![w] =
                          [task[w] EXCEPT !.stamp = task[w].stamp, !.pc = l]]
    BY <1>1, <2>1 DEF Goto, Task
  <2>2. ASSUME task' = [task EXCEPT ![w].pc = "wait", ![w].stamp = Cooldown]
        PROVE  task' = [task EXCEPT ![w] =
                          [task[w] EXCEPT !.stamp = Cooldown, !.pc = "wait"]]
    BY <1>1, <2>2 DEF Task, TypeOK
  <2>3. QED
    BY <2>1, <2>2 DEF AnnotationGet, AnnotationInit, AnnotationWrite
<1>5. QED
  BY <1>2, <1>3, <1>4

LEMMA SerialAnnotation ==
  ASSUME Inv, SerialInv, NEW w \in Workers, Serial',
         AnnotationGet(w) \/ AnnotationInit(w) \/ AnnotationWrite(w)
  PROVE  SerialInv'
<1>1. TypeOK
  BY DEF Inv
<1>2. PICK t \in Task : /\ task' = [task EXCEPT ![w] = t]
                       /\ t.pc \in Writing \cup {"wait"}
                       /\ t.job = task[w].job
                       /\ t.target = task[w].target
                       /\ t.note = task[w].note
  BY <1>1, AnnotationTask
<1>3. dep'.compute = dep.compute /\ task[w].pc \in Writing /\ dep.compute = task[w].target
  BY <1>1, AnnotationTask DEF SerialInv
<1>4. t.pc \notin {"setFargate", "verify", "setSpot", "setHealthy"}
      /\ task[w].pc \notin {"idle", "noteGet", "notePut"}
  BY <1>2, <1>3 DEF Writing
<1>5. w = Recovery => Recovering(t)
  BY <1>1, <1>2, <1>4, RecoveringOn DEF SerialInv
<1>6. QED
  BY <1>2, <1>3, <1>5, SerialTask

LEMMA SerialVerdict ==
  ASSUME Inv, SerialInv, NEW w \in Workers, Serial',
         Wait(w) \/ Verify(w) \/ Revert(w)
  PROVE  SerialInv'
<1>1. /\ task[w] \in Task
      /\ TypeOK
      /\ dep' = dep
      /\ Handler # Recovery
      /\ task[w].pc \in {"wait", "verify", "revert"}
      /\ task[w].pc = "wait" => dep.compute = task[w].target
      /\ w = Recovery => Recovering(task[w])
  BY DEF Inv, TypeOK, Wait, Verify, Revert, At, SerialInv, Handler, Recovery
<1>2. ASSUME NEW t \in Task, task' = [task EXCEPT ![w] = t],
             t.pc \notin Writing \cup {"wait"}, w = Recovery => Recovering(t)
      PROVE  SerialInv'
  BY <1>1, <1>2, SerialTask
<1>3. ASSUME NEW l \in {"verify", "restore", "setFargate", "record", "setSpot",
                        "revert"},
             Goto(w, l),
             w = Recovery /\ l = "setFargate" => dep.compute = "fargate",
             w = Recovery /\ l \in {"verify", "setSpot"} => dep.compute = "spot"
      PROVE  SerialInv'
  <2> DEFINE t == [task[w] EXCEPT !.pc = l]
  <2>1. t \in Task /\ t.pc = l /\ t.job = task[w].job /\ t.target = task[w].target
        /\ t.note = task[w].note
    BY <1>1 DEF Task, Labels
  <2>2. task' = [task EXCEPT ![w] = t] /\ l \notin Writing \cup {"wait"}
    BY <1>3 DEF Goto, Writing
  <2> HIDE DEF t
  <2>3. w = Recovery => Recovering(t)
    BY <1>1, <1>3, <2>1 DEF Recovering
  <2>4. QED
    BY <1>2, <2>1, <2>2, <2>3
<1>4. CASE Wait(w)
  <2>0. task[w].pc = "wait" /\ dep.compute = task[w].target
    BY <1>1, <1>4 DEF Wait, At
  <2>1. CASE Goto(w, AfterWait(w))
    <3>1. AfterWait(w) \in {"verify", "restore", "setFargate"}
      BY NextTasks DEF Inv
    <3>2. w = Recovery /\ AfterWait(w) = "setFargate" => dep.compute = "fargate"
      BY <1>1, <2>0 DEF AfterWait, Recovering, Task
    <3>3. w = Recovery /\ AfterWait(w) = "verify" => dep.compute = "spot"
      BY <1>1, <2>0 DEF AfterWait, Recovering
    <3>4. AfterWait(w) # "setSpot"
      BY <3>1
    <3>5. QED
      BY <1>3, <2>1, <3>1, <3>2, <3>3, <3>4
  <2>2. CASE task' = [task EXCEPT ![w] = AfterWaitError(w)]
    <3>1. AfterWaitError(w) \in Task
          /\ AfterWaitError(w).pc \in {"noteGet", "revert", "fail"}
      BY NextTasks DEF Inv
    <3>2. AfterWaitError(w).pc \notin Writing \cup {"wait"}
      BY <3>1 DEF Writing
    <3>3. w = Recovery => Recovering(AfterWaitError(w))
      <4>1. CASE w = Recovery /\ task[w].job = "forward"
        BY <1>1, <2>0, <4>1 DEF AfterWaitError, Task, Recovering
      <4>2. CASE w = Recovery /\ task[w].job # "forward"
        BY <1>1, <2>0, <4>2 DEF AfterWaitError, NoteFailure, Task, Recovering
      <4>3. QED
        BY <4>1, <4>2
    <3>4. QED
      BY <1>2, <2>2, <3>1, <3>2, <3>3
  <2>3. QED
    BY <1>4, <2>1, <2>2 DEF Wait
<1>5. CASE Verify(w)
  <2>1. w = Recovery => dep.compute = "spot"
    BY <1>1, <1>5 DEF Verify, At, Recovering
  <2>2. QED
    BY <1>3, <1>5, <2>1 DEF Verify
<1>6. CASE Revert(w)
  <2> DEFINE t == [task[w] EXCEPT !.pc = "patchGet", !.job = "back",
                                  !.target = RollbackTarget(w)]
  <2>1. RollbackTarget(w) \in Compute /\ task[w].pc = "revert"
    BY <1>6 DEF RollbackTarget, Compute, Revert, At
  <2>2. t \in Task /\ t.pc = "patchGet" /\ t.target = RollbackTarget(w)
        /\ t.note = task[w].note /\ t.job = "back"
    BY <1>1, <2>1 DEF Task, Labels
  <2>3. w = Recovery => RollbackTarget(w) = "fargate"
    BY <1>1 DEF RollbackTarget
  <2>4. task' = [task EXCEPT ![w] = t] /\ "patchGet" \notin Writing \cup {"wait"}
    BY <1>6 DEF Revert, Writing
  <2> HIDE DEF t
  <2>5. w = Recovery => Recovering(t)
    BY <1>1, <2>1, <2>2, <2>3 DEF Recovering
  <2>6. QED
    BY <1>2, <2>2, <2>4, <2>5
<1>7. QED
  BY <1>4, <1>5, <1>6

LEMMA HandlerOwnKeeps ==
  ASSUME Inv, HandlerOwn
  PROVE  /\ dep'.compute = dep.compute /\ dep'.state = dep.state
         /\ dep'.migrated = dep.migrated /\ sinceMove' = sinceMove
         /\ task[Handler].pc \notin Writing
<1>1. CASE StrategyPatch \/ Restore
  BY <1>1 DEF StrategyPatch, Restore, Store, WithStrategy, Deployment, Inv, TypeOK,
              At, Writing
<1>2. CASE ~(StrategyPatch \/ Restore)
  BY <1>2 DEF HandlerOwn, Notice, DetectAnnotation, DetectSpec, Remember, StrategyGet,
              Fail, Record, Settle, At, Writing
<1>3. QED
  BY <1>1, <1>2

LEMMA SerialHandler ==
  ASSUME Inv, SerialInv, Serial', HandlerOwn
  PROVE  SerialInv'
<1>1. Handler \in Workers /\ Handler # Recovery /\ TypeOK
  BY DEF Inv, Workers, Handler, Recovery
<1>2. dep'.compute = dep.compute
  BY HandlerOwnKeeps
<1>3. PICK t \in Task :
        /\ task' = [task EXCEPT ![Handler] = t]
        /\ t.pc \in {"idle", "detectAnnotation", "detectSpec", "remember",
                     "strategyGet", "strategyPatch", "patchGet", "fail",
                     "record", "settle"}
  BY <1>1, HandlerOwnTask
<1>4. t.pc \notin Writing \cup {"wait"}
  BY <1>3 DEF Writing
<1>5. QED
  BY <1>1, <1>2, <1>3, <1>4, SerialTask

RecoveryOwn ==
  RecoveryTick \/ NoteGet \/ NotePut \/ SetSpot \/ SetHealthy \/ SetFargate

LEMMA RecoveryOwnKeeps ==
  ASSUME Inv, RecoveryOwn
  PROVE  /\ dep'.compute = dep.compute /\ dep'.state = dep.state
         /\ sinceMove' = sinceMove
         /\ task[Recovery].pc \notin Writing
<1>1. dep'.compute = dep.compute /\ dep'.state = dep.state
  BY NotePutWrites DEF RecoveryOwn, RecoveryTick, NoteGet, SetSpot, SetHealthy,
                       SetFargate
<1>2. sinceMove' = sinceMove /\ task[Recovery].pc \notin Writing
  BY DEF RecoveryOwn, RecoveryTick, NoteGet, NotePut, SetSpot, SetHealthy, SetFargate,
         At, Writing
<1>3. QED
  BY <1>1, <1>2

\* The steps of the recovery manager that are its own, one by one.
LEMMA RecoveryOwnTask ==
  ASSUME Inv, SerialInv, ~ApiError, RecoveryOwn
  PROVE  \E t \in Task :
           /\ task' = [task EXCEPT ![Recovery] = t]
           /\ t.pc \in {"idle", "noteGet", "notePut", "patchGet", "setHealthy"}
           /\ Recovering(t)
<1>1. task[Recovery] \in Task /\ Idle \in Task /\ Recovering(task[Recovery])
  BY RecordTypes DEF Inv, TypeOK, Workers, SerialInv
<1>2. CASE RecoveryTick
  <2> DEFINE t == [Idle EXCEPT !.pc = "noteGet", !.target = "spot"]
  <2>1. t \in Task /\ t.pc = "noteGet" /\ t.job = "forward" /\ t.note = "attempting"
        /\ t.target = "spot"
    BY RecordTypes DEF Idle, Task, Labels, Compute
  <2>2. task' = [task EXCEPT ![Recovery] = t]
    BY <1>2 DEF RecoveryTick
  <2> HIDE DEF t
  <2>3. QED
    BY <2>1, <2>2 DEF Recovering
<1>3. CASE NoteGet
  <2> DEFINE t == [task[Recovery] EXCEPT !.pc = "notePut"]
  <2>1. t \in Task /\ t.pc = "notePut" /\ t.job = task[Recovery].job
        /\ t.target = task[Recovery].target /\ t.note = task[Recovery].note
    BY <1>1 DEF Task, Labels
  <2>2. task' = [task EXCEPT ![Recovery] = t] /\ task[Recovery].pc = "noteGet"
    BY <1>3 DEF NoteGet, Goto, ApiError, At
  <2> HIDE DEF t
  <2>3. QED
    BY <1>1, <2>1, <2>2 DEF Recovering
<1>4. CASE NotePut
  <2>1. task' = [task EXCEPT ![Recovery] = AfterNote] /\ task[Recovery].pc = "notePut"
    BY <1>4 DEF NotePut, At
  <2>2. CASE task[Recovery].note = "attempting"
    <3> DEFINE t == [task[Recovery] EXCEPT !.pc = "patchGet"]
    <3>1. t \in Task /\ t.pc = "patchGet" /\ t.job = task[Recovery].job
          /\ t.target = task[Recovery].target /\ t.note = "attempting"
      BY <1>1, <2>2 DEF Task, Labels
    <3>2. task' = [task EXCEPT ![Recovery] = t]
      BY <2>1, <2>2 DEF AfterNote
    <3> HIDE DEF t
    <3>3. QED
      BY <1>1, <2>1, <3>1, <3>2 DEF Recovering
  <2>3. CASE task[Recovery].note # "attempting"
    <3>1. task' = [task EXCEPT ![Recovery] = Idle]
      BY <2>1, <2>3 DEF AfterNote
    <3>2. Idle.pc = "idle" /\ Idle.note = "attempting"
      BY DEF Idle
    <3>3. QED
      BY <1>1, <3>1, <3>2 DEF Recovering
  <2>4. QED
    BY <2>2, <2>3
<1>5. CASE SetSpot
  <2> DEFINE t == [task[Recovery] EXCEPT !.pc = "setHealthy"]
  <2>1. t \in Task /\ t.pc = "setHealthy" /\ t.job = task[Recovery].job
        /\ t.target = task[Recovery].target /\ t.note = task[Recovery].note
    BY <1>1 DEF Task, Labels
  <2>2. task' = [task EXCEPT ![Recovery] = t] /\ task[Recovery].pc = "setSpot"
    BY <1>5 DEF SetSpot, Goto, At
  <2> HIDE DEF t
  <2>3. QED
    BY <1>1, <2>1, <2>2 DEF Recovering
<1>6. CASE SetHealthy
  <2> DEFINE t == [task[Recovery] EXCEPT !.pc = "noteGet", !.note = "success"]
  <2>1. t \in Task /\ t.pc = "noteGet" /\ t.job = task[Recovery].job
        /\ t.target = task[Recovery].target /\ t.note = "success"
    BY <1>1 DEF Task, Labels
  <2>2. task' = [task EXCEPT ![Recovery] = t] /\ task[Recovery].pc = "setHealthy"
    BY <1>6 DEF SetHealthy, At
  <2> HIDE DEF t
  <2>3. QED
    BY <1>1, <2>1, <2>2 DEF Recovering
<1>7. CASE SetFargate
  <2> DEFINE t == [task[Recovery] EXCEPT !.pc = "noteGet", !.note = "failed"]
  <2>1. t \in Task /\ t.pc = "noteGet" /\ t.job = task[Recovery].job
        /\ t.target = task[Recovery].target /\ t.note = "failed"
    BY <1>1 DEF Task, Labels
  <2>2. task' = [task EXCEPT ![Recovery] = t] /\ task[Recovery].pc = "setFargate"
    BY <1>7 DEF SetFargate, NoteFailure, At
  <2> HIDE DEF t
  <2>3. QED
    BY <1>1, <2>1, <2>2 DEF Recovering
<1>8. QED
  BY <1>2, <1>3, <1>4, <1>5, <1>6, <1>7 DEF RecoveryOwn

LEMMA SerialRecovery ==
  ASSUME Inv, SerialInv, Serial', ~ApiError, RecoveryOwn
  PROVE  SerialInv'
<1>1. PICK t \in Task :
        /\ task' = [task EXCEPT ![Recovery] = t]
        /\ t.pc \in {"idle", "noteGet", "notePut", "patchGet", "setHealthy"}
        /\ Recovering(t)
  BY RecoveryOwnTask
<1>2. t.pc \notin Writing \cup {"wait"} /\ Recovery \in Workers
  BY <1>1 DEF Writing, Workers
<1>3. dep'.compute = dep.compute
  BY RecoveryOwnKeeps
<1>4. QED
  BY <1>1, <1>2, <1>3, SerialTask

\* The environment changes neither the template nor where a goroutine is.
LEMMA EnvironmentKeeps ==
  ASSUME Inv, Environment \/ UNCHANGED vars
  PROVE  /\ dep'.compute = dep.compute /\ dep'.state = dep.state
         /\ \A w \in Workers : /\ task'[w].pc = task[w].pc
                               /\ task'[w].job = task[w].job
                               /\ task'[w].target = task[w].target
                               /\ task'[w].note = task[w].note
<1>1. CASE Tick
  <2>1. dep'.compute = dep.compute /\ dep'.state = dep.state
    BY <1>1 DEF Tick, Inv, TypeOK, Deployment
  <2>2. ASSUME NEW w \in Workers
        PROVE  /\ task'[w].pc = task[w].pc
               /\ task'[w].job = task[w].job
               /\ task'[w].target = task[w].target
               /\ task'[w].note = task[w].note
    BY <1>1 DEF Tick, Inv, TypeOK, Task
  <2>3. QED
    BY <2>1, <2>2
<1>2. CASE RolloutCompletes \/ PodsLost \/ ControllerAnnotates
  BY <1>2 DEF RolloutCompletes, PodsLost, ControllerAnnotates, Store, Inv, TypeOK,
              Deployment
<1>3. CASE StatusUpdate \/ UNCHANGED vars
  BY <1>3 DEF StatusUpdate, vars
<1>4. QED
  BY <1>1, <1>2, <1>3 DEF Environment

LEMMA SerialStep ==
  ASSUME Inv, SerialInv, ~ApiError, [Next /\ Serial']_vars
  PROVE  SerialInv'
<1>1. CASE UNCHANGED vars \/ Environment
  BY <1>1, EnvironmentKeeps DEF SerialInv, Serial, At, Workers, Recovering, Writing
<1>2. CASE Serial' /\ HandlerOwn
  BY <1>2, SerialHandler
<1>3. CASE Serial' /\ RecoveryOwn
  BY <1>3, SerialRecovery
<1>4. ASSUME NEW w \in Workers, Serial', Shared(w) PROVE SerialInv'
  BY <1>4, SerialPatch, SerialAnnotation, SerialVerdict DEF Shared
<1>5. CASE Restart
  <2>1. ASSUME NEW w \in Workers PROVE task'[w] = Idle
    BY <1>5 DEF Restart
  <2>2. Idle.pc = "idle" /\ Idle.job = "forward" /\ Idle.note = "attempting"
    BY DEF Idle
  <2>3. QED
    BY <2>1, <2>2 DEF SerialInv, Serial, At, Workers, Writing, Recovering
<1>6. QED
  BY <1>1, <1>2, <1>3, <1>4, <1>5
     DEF Next, HandlerStep, RecoveryStep, HandlerOwn, RecoveryOwn, Workers

LEMMA SerialInit == Init => SerialInv /\ AgreeInv
<1> SUFFICES ASSUME Init PROVE SerialInv /\ AgreeInv
  OBVIOUS
<1>1. \A w \in Workers : task[w] = Idle
  BY DEF Init
<1>2. Idle.pc = "idle" /\ Idle.job = "forward" /\ Idle.note = "attempting"
  BY DEF Idle
<1>3. dep.state \in {"none", dep.compute}
  BY DEF Init
<1>4. QED
  BY <1>1, <1>2, <1>3 DEF SerialInv, AgreeInv, Serial, At, Workers, Writing, Recovering

LEMMA SerialHolds == ~ApiError => (SerialSpec => [](Inv /\ SerialInv))
<1> SUFFICES ASSUME ~ApiError PROVE SerialSpec => [](Inv /\ SerialInv)
  OBVIOUS
<1>1. Inv /\ SerialInv /\ [Next /\ Serial']_vars => (Inv /\ SerialInv)'
  BY InvStep, SerialStep
<1>2. Init => Inv /\ SerialInv
  BY InitInv, SerialInit
<1>3. QED
  BY <1>1, <1>2, PTL DEF SerialSpec

\* README: "Automatically rolls back to Fargate if recovery fails".  It does as
\* long as no API call fails and the goroutines take turns, crashes included: when
\* recordFailedRecovery writes, the Deployment is on Fargate.
THEOREM FailedRecoveryRollsBack ==
  ~ApiError => (SerialSpec => []FailedRecoveryIsOnFargate)
<1> SUFFICES ASSUME ~ApiError PROVE SerialSpec => []FailedRecoveryIsOnFargate
  OBVIOUS
<1>1. SerialInv => FailedRecoveryIsOnFargate
  BY DEF SerialInv, Recovering, FailedRecoveryIsOnFargate
<1>2. QED
  BY <1>1, SerialHolds, PTL

\* A step that keeps template and annotation, and takes no goroutine out of the
\* middle of a patch, keeps them in agreement.
LEMMA AgreeKept ==
  ASSUME AgreeInv, dep'.compute = dep.compute, dep'.state = dep.state,
         \A w \in Workers : task[w].pc \in Writing => task'[w].pc \in Writing
  PROVE  AgreeInv'
BY DEF AgreeInv

LEMMA OthersAgree ==
  ASSUME Inv, AgreeInv, dep'.compute = dep.compute, dep'.state = dep.state,
         NEW w \in Workers, task[w].pc \notin Writing,
         \A v \in Workers \ {w} : task'[v] = task[v]
  PROVE  AgreeInv'
BY AgreeKept

LEMMA AgreeShared ==
  ASSUME Inv, SerialInv, AgreeInv, ~ApiError, NEW w \in Workers, Shared(w)
  PROVE  AgreeInv'
<1>1. task[w] \in Task /\ dep \in Deployment /\ task \in [Workers -> Task]
  BY DEF Inv, TypeOK
<1>2. CASE PatchApply(w) \/ AnnotationGet(w)
  <2>1. \E l \in Writing : task'[w].pc = l
    <3>1. CASE PatchApply(w)
      BY <1>1, <3>1 DEF PatchApply, Goto, Task, Writing, ApiError
    <3>2. CASE AnnotationGet(w)
      BY <1>1, <3>2 DEF AnnotationGet, Task, Writing, ApiError
    <3>3. QED
      BY <1>2, <3>1, <3>2
  <2>2. QED
    BY <2>1 DEF AgreeInv
<1>3. CASE AnnotationInit(w)
  <2>1. task'[w].pc = "annotationWrite"
    BY <1>1, <1>3 DEF AnnotationInit, Goto, Task, ApiError
  <2>2. QED
    BY <2>1 DEF AgreeInv, Writing
<1>4. CASE AnnotationWrite(w)
  <2>1. dep' = [dep EXCEPT !.state = task[w].target, !.migrated = task[w].stamp]
    BY <1>4 DEF AnnotationWrite, Store, ApiError
  <2>2. dep'.state = task[w].target /\ dep'.compute = dep.compute
    BY <1>1, <2>1 DEF Deployment
  <2>3. dep.compute = task[w].target
    BY <1>4 DEF AnnotationWrite, At, SerialInv, Writing
  <2>4. QED
    BY <2>2, <2>3 DEF AgreeInv
<1>5. CASE PatchGet(w) \/ Wait(w) \/ Verify(w) \/ Revert(w)
  <2>1. dep' = dep /\ task[w].pc \notin Writing
    BY <1>5 DEF PatchGet, Wait, Verify, Revert, At, Writing
  <2>2. \A v \in Workers \ {w} : task'[v] = task[v]
    BY <1>1, <1>5 DEF PatchGet, Wait, Verify, Revert, Goto
  <2>3. QED
    BY <2>1, <2>2, OthersAgree
<1>6. QED
  BY <1>2, <1>3, <1>4, <1>5 DEF Shared

LEMMA AgreeStep ==
  ASSUME Inv, SerialInv, AgreeInv, ~ApiError, ~Restarts, [Next]_vars
  PROVE  AgreeInv'
<1>1. CASE UNCHANGED vars \/ Environment
  BY <1>1, EnvironmentKeeps, AgreeKept
<1>2. CASE HandlerOwn
  <2>1. Handler \in Workers
    BY DEF Workers
  <2>2. \A v \in Workers \ {Handler} : task'[v] = task[v]
    BY <1>2, HandlerOwnTask, TaskType DEF Inv, TypeOK
  <2>3. QED
    BY <1>2, <2>1, <2>2, HandlerOwnKeeps, OthersAgree
<1>3. CASE RecoveryOwn
  <2>1. Recovery \in Workers
    BY DEF Workers
  <2>2. \A v \in Workers \ {Recovery} : task'[v] = task[v]
    BY <1>3, RecoveryOwnTask, TaskType DEF Inv, TypeOK
  <2>3. QED
    BY <1>3, <2>1, <2>2, RecoveryOwnKeeps, OthersAgree
<1>4. ASSUME NEW w \in Workers, Shared(w) PROVE AgreeInv'
  BY <1>4, AgreeShared
<1>5. ~Restart
  BY DEF Restart
<1>6. QED
  BY <1>1, <1>2, <1>3, <1>4, <1>5
     DEF Next, HandlerStep, RecoveryStep, HandlerOwn, RecoveryOwn, Workers

\* Without API errors and restarts, and as long as the goroutines take turns, the
\* annotation a restarted orchestrator would trust agrees with the template
\* whenever both are idle: after every migration, recovery and rollback.
THEOREM AnnotationFollowsTemplate ==
  ~ApiError /\ ~Restarts => (SerialSpec => []AnnotationAgrees)
<1> SUFFICES ASSUME ~ApiError, ~Restarts PROVE SerialSpec => []AnnotationAgrees
  OBVIOUS
<1>1. Inv /\ SerialInv /\ AgreeInv /\ [Next /\ Serial']_vars => AgreeInv'
  BY AgreeStep
<1>2. AgreeInv => AnnotationAgrees
  BY DEF AgreeInv, AnnotationAgrees, At, Workers, Writing
<1>3. QED
  BY <1>1, <1>2, SerialInit, SerialHolds, PTL DEF SerialSpec

-----------------------------------------------------------------------------
(* How a notice ends. *)

\* What the task t of the event loop obeys while the template says c: it migrates
\* to Fargate, and once it is past the patch it is still there; only a migration
\* that is there is verified and recorded.
Evacuating(t, c) ==
  /\ t.job = "forward" => t.target = "fargate"
  /\ t.job = "forward" /\ t.pc \in Writing \cup {"wait"} => c = "fargate"
  /\ t.pc \in {"verify", "record", "settle"} => c = "fargate"

EvacInv == Serial /\ Evacuating(task[Handler], dep.compute)

\* A goroutine in the middle of a patch, a wait or a verification stays in its
\* migration or recovery and leaves State alone.
LEMMA SharedTask ==
  ASSUME TypeOK, NEW w \in Workers, Shared(w)
  PROVE  /\ UNCHANGED <<cur, status>>
         /\ task[w].pc \notin {"idle", "setHealthy", "noteGet", "notePut"}
         /\ \E t \in Task : /\ task' = [task EXCEPT ![w] = t]
                            /\ t.pc \notin {"idle", "setHealthy", "settle"}
                            /\ t.note \in {task[w].note, "failed"}
<1>1. task[w] \in Task
  BY DEF TypeOK
<1>2. /\ UNCHANGED <<cur, status>>
      /\ task[w].pc \notin {"idle", "setHealthy", "noteGet", "notePut"}
  BY DEF Shared, PatchGet, PatchApply, AnnotationGet, AnnotationInit, AnnotationWrite,
         Wait, Verify, Revert, At
<1>3. ASSUME NEW l \in {"wait", "patchApply", "annotationGet", "verify", "restore",
                        "setFargate", "record", "setSpot", "revert"},
             Goto(w, l)
      PROVE  \E t \in Task : /\ task' = [task EXCEPT ![w] = t]
                             /\ t.pc \notin {"idle", "setHealthy", "settle"}
                             /\ t.note \in {task[w].note, "failed"}
  <2> DEFINE t == [task[w] EXCEPT !.pc = l]
  <2>1. t \in Task /\ t.pc = l /\ t.note = task[w].note
    BY <1>1 DEF Task, Labels
  <2>2. task' = [task EXCEPT ![w] = t]
    BY <1>3 DEF Goto
  <2> HIDE DEF t
  <2>3. QED
    BY <2>1, <2>2
<1>4. /\ AfterPatchError(w).note \in {task[w].note, "failed"}
      /\ AfterWaitError(w).note \in {task[w].note, "failed"}
  BY <1>1 DEF AfterPatchError, AfterWaitError, NoteFailure, Task, Workers, Handler,
              Recovery
<1>5. CASE \/ task' = [task EXCEPT ![w] = AfterPatchError(w)]
           \/ task' = [task EXCEPT ![w] = AfterWaitError(w)]
  BY <1>2, <1>4, <1>5, NextTasks
<1>6. CASE AnnotationGet(w) \/ AnnotationInit(w) \/ AnnotationWrite(w)
  <2>1. PICK t \in Task : /\ task' = [task EXCEPT ![w] = t]
                          /\ t.pc \in Writing \cup {"wait"}
                          /\ t.note = task[w].note
    BY <1>6, AnnotationTask
  <2>2. t.pc \notin {"idle", "setHealthy", "settle"}
    BY <2>1 DEF Writing
  <2>3. QED
    BY <1>2, <2>1, <2>2
<1>7. CASE PatchGet(w) \/ PatchApply(w) \/ Wait(w) \/ Verify(w)
  <2>1. AfterWait(w) \in {"verify", "restore", "setFargate"}
    BY NextTasks
  <2>2. QED
    BY <1>2, <1>3, <1>5, <1>7, <2>1 DEF PatchGet, PatchApply, Wait, Verify
<1>8. CASE Revert(w)
  <2> DEFINE t == [task[w] EXCEPT !.pc = "patchGet", !.job = "back",
                                  !.target = RollbackTarget(w)]
  <2>1. RollbackTarget(w) \in Compute
    BY NextTasks
  <2>2. t \in Task /\ t.pc = "patchGet" /\ t.note = task[w].note
    BY <1>1, <2>1 DEF Task, Labels
  <2>3. task' = [task EXCEPT ![w] = t]
    BY <1>8 DEF Revert
  <2> HIDE DEF t
  <2>4. QED
    BY <1>2, <2>2, <2>3
<1>9. QED
  BY <1>2, <1>6, <1>7, <1>8 DEF Shared

LEMMA EvacShared ==
  ASSUME TypeOK, Evacuating(task[Handler], dep.compute), Shared(Handler)
  PROVE  Evacuating(task'[Handler], dep'.compute)
<1> DEFINE h == task[Handler]
<1>1. h \in Task /\ dep \in Deployment /\ Handler \in Workers /\ Handler # Recovery
      /\ task \in [Workers -> Task]
  BY DEF TypeOK, Workers, Handler, Recovery
<1>2. ASSUME NEW l \in Labels, Goto(Handler, l)
      PROVE  task'[Handler].pc = l /\ task'[Handler].job = h.job
             /\ task'[Handler].target = h.target
  BY <1>1, <1>2 DEF Goto, Task
<1>3. CASE task' = [task EXCEPT ![Handler] = AfterPatchError(Handler)]
  <2>1. task'[Handler].pc \in {"restore", "fail"} /\ task'[Handler].job = h.job
        /\ task'[Handler].target = h.target
    BY <1>1, <1>3 DEF AfterPatchError, Task
  <2>2. QED
    BY <2>1 DEF Evacuating, Writing
<1>4. CASE PatchGet(Handler)
  <2>1. CASE Goto(Handler, "wait") /\ dep.compute = h.target
    BY <1>1, <1>2, <1>4, <2>1 DEF Evacuating, Labels, PatchGet
  <2>2. CASE Goto(Handler, "patchApply")
    BY <1>1, <1>2, <1>4, <2>2 DEF Evacuating, Labels, PatchGet, Writing
  <2>3. QED
    BY <1>3, <1>4, <2>1, <2>2 DEF PatchGet
<1>5. CASE PatchApply(Handler)
  <2>1. CASE Store(WithCompute(dep, h.target)) /\ Goto(Handler, "annotationGet")
    <3>1. dep'.compute = h.target
      BY <1>1, <2>1 DEF Store, WithCompute, Deployment
    <3>2. QED
      BY <1>2, <2>1, <3>1 DEF Evacuating, Labels
  <2>2. QED
    BY <1>3, <1>5, <2>1 DEF PatchApply
<1>6. CASE AnnotationGet(Handler) \/ AnnotationInit(Handler) \/ AnnotationWrite(Handler)
  <2>1. PICK t \in Task : /\ task' = [task EXCEPT ![Handler] = t]
                          /\ t.pc \in Writing \cup {"wait"}
                          /\ t.job = h.job
                          /\ t.target = h.target
    BY <1>1, <1>6, AnnotationTask
  <2>2. dep'.compute = dep.compute /\ h.pc \in Writing
    BY <1>1, <1>6, AnnotationTask
  <2>3. task'[Handler] = t /\ t.pc \notin {"verify", "record", "settle"}
    BY <1>1, <2>1 DEF Writing
  <2>4. QED
    BY <2>1, <2>2, <2>3 DEF Evacuating
<1>7. CASE Wait(Handler)
  <2>1. dep' = dep /\ h.pc = "wait"
    BY <1>7 DEF Wait, At
  <2>2. CASE Goto(Handler, "verify") /\ h.job = "forward"
    BY <1>2, <2>1, <2>2 DEF Evacuating, Labels, Writing
  <2>3. CASE Goto(Handler, "restore")
    BY <1>2, <2>1, <2>3 DEF Evacuating, Labels, Writing
  <2>4. CASE task' = [task EXCEPT ![Handler] = AfterWaitError(Handler)]
    <3>1. task'[Handler].pc \in {"revert", "fail"} /\ task'[Handler].job = h.job
          /\ task'[Handler].target = h.target
      BY <1>1, <2>4 DEF AfterWaitError, Task
    <3>2. QED
      BY <2>1, <3>1 DEF Evacuating, Writing
  <2>5. QED
    BY <1>7, <2>2, <2>3, <2>4 DEF Wait, AfterWait
<1>8. CASE Verify(Handler)
  <2>1. dep' = dep /\ h.pc = "verify"
    BY <1>8 DEF Verify, At
  <2>2. \E l \in {"record", "revert"} : Goto(Handler, l)
    BY <1>8 DEF Verify
  <2>3. QED
    BY <1>2, <2>1, <2>2 DEF Evacuating, Labels, Writing
<1>9. CASE Revert(Handler)
  <2>1. task'[Handler].pc = "patchGet" /\ task'[Handler].job = "back"
    BY <1>1, <1>9 DEF Revert, Task
  <2>2. QED
    BY <2>1 DEF Evacuating, Writing
<1>10. QED
  BY <1>4, <1>5, <1>6, <1>7, <1>8, <1>9 DEF Shared

\* Without dry run the event loop records after a verification only.
LEMMA HandlerOwnResult ==
  ASSUME TypeOK, HandlerOwn, ~DryRun
  PROVE  /\ task'[Handler].pc # "record"
         /\ task'[Handler].pc = "settle" => Record
<1>1. task \in [Workers -> Task] /\ Handler \in Workers /\ task[Handler] \in Task
  BY DEF TypeOK, Workers
<1>2. CASE Fail \/ Settle
  BY <1>1, <1>2 DEF Fail, Settle, Idle
<1>3. CASE Remember \/ \E c \in Compute : Found(c)
  <2>1. FirstCall = "strategyGet"
    BY DEF FirstCall
  <2>2. CASE Remember
    BY <1>1, <2>1, <2>2 DEF Remember, Task
  <2>3. CASE \E c \in Compute : Found(c)
    <3>1. PICK c \in Compute : Found(c)
      BY <2>3
    <3>2. task'[Handler].pc = "remember"
      BY <1>1, <3>1 DEF Found, Task
    <3>3. QED
      BY <3>2
  <2>4. QED
    BY <1>3, <2>2, <2>3
<1>4. CASE \/ Notice \/ StrategyGet \/ StrategyPatch \/ Restore \/ Record
           \/ DetectAnnotation /\ Goto(Handler, "detectSpec")
  BY <1>1, <1>4 DEF Notice, StrategyGet, StrategyPatch, Restore, Record, Goto,
                    FirstCall, Task
<1>5. QED
  BY <1>2, <1>3, <1>4, DetectedType DEF HandlerOwn, DetectAnnotation, DetectSpec

\* As long as the goroutines take turns, each of them steps while the other is
\* idle and leaves it alone.
LEMMA RecoveryAlone ==
  ASSUME TypeOK, Serial, Serial', RecoveryStep
  PROVE  At(Handler, "idle") /\ task'[Handler] = task[Handler]
<1>1. task'[Handler] = task[Handler]
  BY RecoveryAside
<1>2. CASE RecoveryTick
  <2>1. task'[Recovery].pc = "noteGet"
    BY <1>2 DEF RecoveryTick, TypeOK, Workers, Idle
  <2>2. QED
    BY <1>1, <2>1 DEF Serial, At
<1>3. CASE ~RecoveryTick
  <2>1. ~At(Recovery, "idle")
    BY <1>3 DEF RecoveryStep, NoteGet, NotePut, SetSpot, SetHealthy, SetFargate, Shared,
                PatchGet, PatchApply, AnnotationGet, AnnotationInit, AnnotationWrite,
                Wait, Verify, Revert, At
  <2>2. QED
    BY <1>1, <2>1 DEF Serial
<1>4. QED
  BY <1>2, <1>3

LEMMA EvacStep ==
  ASSUME Inv, EvacInv, ~DryRun, [Next /\ Serial']_vars
  PROVE  EvacInv'
<1>1. TypeOK /\ Handler \in Workers
  BY DEF Inv, Workers
<1>2. CASE UNCHANGED vars \/ Environment
  BY <1>1, <1>2, EnvironmentKeeps DEF EvacInv, Serial, At, Workers, Evacuating
<1>3. CASE Serial' /\ HandlerOwn
  <2>1. PICK t \in Task :
          /\ task' = [task EXCEPT ![Handler] = t]
          /\ t.pc \in {"idle", "detectAnnotation", "detectSpec", "remember",
                       "strategyGet", "strategyPatch", "patchGet", "fail",
                       "record", "settle"}
          /\ \/ t = Idle
             \/ t.job = task[Handler].job /\ t.target = task[Handler].target
    BY <1>1, <1>3, HandlerOwnTask
  <2>2. task'[Handler] = t /\ dep'.compute = dep.compute
    BY <1>1, <1>3, <2>1, HandlerOwnKeeps DEF TypeOK
  <2>3. t.pc # "record" /\ (t.pc = "settle" => task[Handler].pc = "record")
    BY <1>1, <1>3, <2>2, HandlerOwnResult DEF Record, At
  <2>4. t.pc \notin Writing \cup {"wait"}
    BY <2>1 DEF Writing
  <2>5. QED
    BY <1>3, <2>1, <2>2, <2>3, <2>4 DEF EvacInv, Evacuating, Idle
<1>4. CASE Serial' /\ Shared(Handler)
  BY <1>1, <1>4, EvacShared DEF EvacInv
<1>5. CASE Serial' /\ RecoveryStep
  <2>1. task[Handler].pc = "idle" /\ task'[Handler] = task[Handler]
    BY <1>1, <1>5, RecoveryAlone DEF EvacInv, At
  <2>2. QED
    BY <1>5, <2>1 DEF EvacInv, Evacuating, Writing
<1>6. CASE Restart
  <2>1. task'[Handler] = Idle
    BY <1>1, <1>6 DEF Restart
  <2>2. QED
    BY <2>1 DEF EvacInv, Evacuating, Serial, At, Idle, Writing
<1>7. QED
  BY <1>2, <1>3, <1>4, <1>5, <1>6 DEF Next, HandlerStep, HandlerOwn

LEMMA EvacHolds == ~DryRun => (SerialSpec => [](Inv /\ EvacInv))
<1> SUFFICES ASSUME ~DryRun PROVE SerialSpec => [](Inv /\ EvacInv)
  OBVIOUS
<1>1. Inv /\ EvacInv /\ [Next /\ Serial']_vars => (Inv /\ EvacInv)'
  BY InvStep, EvacStep
<1>2. Init => Inv /\ EvacInv
  <2>1. Init => task[Handler] = Idle
    BY DEF Init, Workers
  <2>2. QED
    BY <2>1, InitInv DEF EvacInv, Evacuating, Serial, At, Idle, Writing
<1>3. QED
  BY <1>1, <1>2, PTL DEF SerialSpec

\* A notice ends with the Deployment on Fargate or the orchestrator in error.  It
\* does as long as the goroutines take turns, API errors, lost answers, roll backs
\* to Spot and crashes included: no way out of the migration ends well anywhere
\* else.
THEOREM NoticesEvacuate == ~DryRun => (SerialSpec => Evacuates)
<1> SUFFICES ASSUME ~DryRun PROVE SerialSpec => Evacuates
  OBVIOUS
<1>1. Inv /\ EvacInv /\ [Next /\ Serial']_vars =>
        [HandlerStep /\ At(Handler, "idle")' =>
           dep.compute = "fargate" \/ status' = "error"]_vars
  <2> SUFFICES ASSUME Inv, EvacInv, HandlerStep, At(Handler, "idle")'
               PROVE  dep.compute = "fargate" \/ status' = "error"
    OBVIOUS
  <2>1. TypeOK /\ task'[Handler].pc = "idle" /\ Handler \in Workers
    BY DEF Inv, At, Workers
  <2>2. ~Shared(Handler)
    <3> SUFFICES ASSUME Shared(Handler) PROVE FALSE
      OBVIOUS
    <3>1. PICK t \in Task : task' = [task EXCEPT ![Handler] = t] /\ t.pc # "idle"
      BY <2>1, SharedTask
    <3>2. task'[Handler] = t
      BY <2>1, <3>1 DEF TypeOK
    <3>3. QED
      BY <2>1, <3>1, <3>2
  <2>3. HandlerOwn
    BY <2>2 DEF HandlerStep, HandlerOwn
  <2>4. PICK t \in Task : task' = [task EXCEPT ![Handler] = t]
                          /\ (t.pc = "idle" => Fail \/ Settle)
    BY <2>1, <2>3, HandlerOwnTask
  <2>5. Fail \/ Settle
    BY <2>1, <2>4 DEF TypeOK
  <2>6. QED
    BY <2>5 DEF Fail, Settle, At, EvacInv, Evacuating
<1>2. QED
  BY <1>1, EvacHolds, PTL DEF SerialSpec, Evacuates

-----------------------------------------------------------------------------
(* What State says. *)

\* A recovery that has begun, and has not yet recorded its success in State.
Underway(t) == t.pc \notin {"idle", "setHealthy"} /\ t.note # "success"

\* The compute type of the template as the last finished migration or recovery has
\* left it: a recovery begins, and comes back, on Fargate.
Settled == IF Underway(task[Recovery]) THEN "fargate" ELSE dep.compute

\* A migration announces itself, and a result is written to State before it counts.
StateInv ==
  /\ ~At(Handler, "idle") => status = "migrating"
  /\ At(Handler, "settle") => cur = "fargate"
  /\ task[Recovery].pc = "setHealthy" \/ task[Recovery].note = "success" =>
       cur = "spot"
  /\ At(Handler, "idle") /\ status = "healthy" => cur \in {"unknown", Settled}

\* A step of the recovery manager while the event loop is idle.
LEMMA StateRecovery ==
  ASSUME Inv, SerialInv, StateInv, ~ApiError, Serial', RecoveryStep
  PROVE  StateInv'
<1> DEFINE r == task[Recovery]
<1>1. /\ TypeOK /\ Recovery \in Workers /\ r \in Task
      /\ Recovering(r)
      /\ task \in [Workers -> Task]
  BY DEF Inv, TypeOK, Workers, SerialInv
<1>2. task[Handler].pc = "idle" /\ task'[Handler] = task[Handler]
  BY <1>1, RecoveryAlone DEF SerialInv, At
<1>3. CASE Shared(Recovery)
  <2>1. UNCHANGED <<cur, status>> /\ r.pc \notin {"idle", "setHealthy"}
        /\ r.note = "attempting"
    BY <1>1, <1>3, SharedTask DEF Recovering, Task
  <2>2. PICK t \in Task : /\ task' = [task EXCEPT ![Recovery] = t]
                          /\ t.pc \notin {"idle", "setHealthy"}
                          /\ t.note \in {"attempting", "failed"}
    BY <1>1, <1>3, <2>1, SharedTask
  <2>3. task'[Recovery] = t
    BY <1>1, <2>2
  <2>4. QED
    BY <1>2, <2>1, <2>2, <2>3 DEF StateInv, Settled, Underway, At
<1>4. CASE RecoveryTick
  <2>1. dep' = dep /\ dep.compute = "fargate" /\ UNCHANGED <<cur, status>>
        /\ r.pc = "idle"
    BY <1>4 DEF RecoveryTick, At
  <2>2. task'[Recovery].pc = "noteGet" /\ task'[Recovery].note = "attempting"
    BY <1>1, <1>4 DEF RecoveryTick, Idle
  <2>3. QED
    BY <1>2, <2>1, <2>2 DEF StateInv, Settled, Underway, At
<1>5. CASE NoteGet
  <2>1. dep' = dep /\ UNCHANGED <<cur, status>> /\ r.pc = "noteGet"
    BY <1>5 DEF NoteGet, At
  <2>2. task'[Recovery].pc = "notePut" /\ task'[Recovery].note = r.note
    BY <1>1, <1>5 DEF NoteGet, Goto, ApiError, Task
  <2>3. QED
    BY <1>2, <2>1, <2>2 DEF StateInv, Settled, Underway, At
<1>6. CASE NotePut
  <2>1. dep'.compute = dep.compute /\ UNCHANGED <<cur, status>> /\ r.pc = "notePut"
    BY <1>6, NotePutWrites DEF NotePut, At
  <2>2. task' = [task EXCEPT ![Recovery] = AfterNote]
    BY <1>6 DEF NotePut
  <2>3. CASE r.note = "attempting"
    <3>1. task'[Recovery].pc = "patchGet" /\ task'[Recovery].note = "attempting"
      BY <1>1, <2>2, <2>3 DEF AfterNote, Task
    <3>2. QED
      BY <1>2, <2>1, <2>3, <3>1 DEF StateInv, Settled, Underway, At
  <2>4. CASE r.note # "attempting"
    <3>1. task'[Recovery].pc = "idle" /\ task'[Recovery].note = "attempting"
      BY <1>1, <2>2, <2>4 DEF AfterNote, Idle
    <3>2. r.note \in {"success", "failed"}
          /\ (r.note = "failed" => dep.compute = "fargate")
      BY <1>1, <2>4 DEF Recovering, Task
    <3>3. QED
      BY <1>2, <2>1, <3>1, <3>2 DEF StateInv, Settled, Underway, At
  <2>5. QED
    BY <2>3, <2>4
<1>7. CASE SetSpot
  <2>1. dep' = dep /\ cur' = "spot" /\ r.pc = "setSpot" /\ dep.compute = "spot"
    BY <1>1, <1>7 DEF SetSpot, At, Recovering
  <2>2. task'[Recovery].pc = "setHealthy"
    BY <1>1, <1>7 DEF SetSpot, Goto, Task
  <2>3. QED
    BY <1>2, <2>1, <2>2 DEF StateInv, Settled, Underway, At
<1>8. CASE SetHealthy
  <2>1. dep' = dep /\ cur' = cur /\ r.pc = "setHealthy" /\ dep.compute = "spot"
    BY <1>1, <1>8 DEF SetHealthy, At, Recovering
  <2>2. task'[Recovery].pc = "noteGet" /\ task'[Recovery].note = "success"
    BY <1>1, <1>8 DEF SetHealthy, Task
  <2>3. QED
    BY <1>2, <2>1, <2>2 DEF StateInv, Settled, Underway, At
<1>9. CASE SetFargate
  <2>1. cur' = "fargate"
    BY <1>9 DEF SetFargate
  <2>2. task'[Recovery].pc = "noteGet" /\ task'[Recovery].note = "failed"
    BY <1>1, <1>9 DEF SetFargate, NoteFailure, Task
  <2>3. QED
    BY <1>2, <2>1, <2>2 DEF StateInv, Settled, Underway, At
<1>10. QED
  BY <1>3, <1>4, <1>5, <1>6, <1>7, <1>8, <1>9 DEF RecoveryStep

\* A step of the event loop leaves the recovery manager idle, and one after which
\* it is back at its channel has recorded "fargate" or "error".
LEMMA StateHandler ==
  ASSUME Inv, SerialInv, EvacInv, StateInv, ~DryRun, Serial', Notice \/ HandlerStep
  PROVE  StateInv'
<1>1. TypeOK /\ Handler \in Workers /\ Handler # Recovery /\ Recovery \in Workers
      /\ task \in [Workers -> Task] /\ Recovering(task[Recovery])
  BY DEF Inv, TypeOK, Workers, SerialInv, Handler, Recovery
<1>2. \E t \in Task : /\ task' = [task EXCEPT ![Handler] = t]
                      /\ t.pc = "idle" => Fail \/ Settle
                      /\ t.pc = "settle" => Record
  <2>1. CASE Shared(Handler)
    BY <1>1, <2>1, SharedTask
  <2>2. CASE HandlerOwn
    BY <1>1, <2>2, HandlerOwnTask, HandlerOwnResult DEF HandlerOwn
  <2>3. QED
    BY <2>1, <2>2 DEF HandlerStep, HandlerOwn
<1>3. PICK t \in Task : /\ task' = [task EXCEPT ![Handler] = t]
                        /\ t.pc = "idle" => Fail \/ Settle
                        /\ t.pc = "settle" => Record
  BY <1>2
<1>4. task'[Handler] = t /\ task'[Recovery] = task[Recovery]
  BY <1>1, <1>3
<1>5. CASE t.pc = "idle"
  <2>1. CASE Fail
    <3>1. status' = "error" /\ task[Handler].pc = "fail" /\ cur' = cur
      BY <2>1 DEF Fail, At
    <3>2. QED
      BY <1>4, <1>5, <3>1 DEF StateInv, At
  <2>2. CASE Settle
    <3>1. task[Handler].pc = "settle" /\ dep' = dep /\ cur' = cur
      BY <2>2 DEF Settle, At
    <3>2. task[Recovery].pc = "idle" /\ cur = "fargate" /\ dep.compute = "fargate"
      BY <3>1 DEF StateInv, SerialInv, Serial, At, EvacInv, Evacuating
    <3>3. task[Recovery].note # "success"
      BY <1>1, <3>2 DEF Recovering, Task
    <3>4. QED
      BY <1>4, <1>5, <3>1, <3>2, <3>3 DEF StateInv, Settled, Underway, At
  <2>3. QED
    BY <1>3, <1>5, <2>1, <2>2
<1>6. CASE t.pc # "idle"
  <2>1. task[Recovery].pc = "idle" /\ task[Recovery].note # "success"
    <3>1. task[Recovery].pc = "idle"
      BY <1>4, <1>6 DEF Serial, At
    <3>2. QED
      BY <1>1, <3>1 DEF Recovering, Task
  <2>2. status' = "migrating"
    <3>1. CASE Notice
      BY <3>1 DEF Notice
    <3>2. CASE HandlerStep
      <4>1. ~At(Handler, "idle")
        BY <3>2
           DEF HandlerStep, Shared, DetectAnnotation, DetectSpec, Remember, StrategyGet,
               StrategyPatch, Restore, Fail, Record, Settle, PatchGet, PatchApply,
               AnnotationGet, AnnotationInit, AnnotationWrite, Wait, Verify, Revert, At
      <4>2. ~Fail /\ ~Settle
        BY <1>1, <1>4, <1>6 DEF Fail, Settle, Idle
      <4>3. status' = status
        BY <3>2, <4>2, <1>1, SharedTask
           DEF HandlerStep, DetectAnnotation, DetectSpec, Remember, StrategyGet,
               StrategyPatch, Restore, Record
      <4>4. QED
        BY <4>1, <4>3 DEF StateInv
    <3>3. QED
      BY <3>1, <3>2
  <2>3. t.pc = "settle" => cur' = "fargate"
    BY <1>3 DEF Record
  <2>4. QED
    BY <1>4, <1>6, <2>1, <2>2, <2>3 DEF StateInv, At
<1>7. QED
  BY <1>5, <1>6

LEMMA StateStep ==
  ASSUME Inv, SerialInv, EvacInv, StateInv, ~ApiError, ~DryRun,
         [Next /\ Serial']_vars
  PROVE  StateInv'
<1>1. CASE UNCHANGED vars \/ Environment
  <2>1. UNCHANGED <<cur, status>>
    BY <1>1 DEF vars, Environment, RolloutCompletes, PodsLost, ControllerAnnotates,
                StatusUpdate, Tick
  <2>2. QED
    BY <1>1, <2>1, EnvironmentKeeps DEF StateInv, Settled, Underway, At, Workers
<1>2. CASE Restart
  <2>1. task'[Handler] = Idle /\ task'[Recovery] = Idle /\ cur' = "unknown"
    BY <1>2 DEF Restart, Workers
  <2>2. QED
    BY <2>1 DEF StateInv, At, Idle
<1>3. QED
  BY <1>1, <1>2, StateHandler, StateRecovery DEF Next

\* Whenever State says "healthy" and nothing is under way, its compute type is the
\* template's, or not yet known.  It is as long as no API call fails and the
\* goroutines take turns, crashes, failed rollouts and both roll backs included:
\* the compute type the next roll back starts from is the one the Deployment has.
THEOREM StateFollowsTemplate ==
  ~ApiError /\ ~DryRun => (SerialSpec => []StateAgrees)
<1> SUFFICES ASSUME ~ApiError, ~DryRun PROVE SerialSpec => []StateAgrees
  OBVIOUS
<1>1. Inv /\ SerialInv /\ EvacInv /\ StateInv /\ [Next /\ Serial']_vars => StateInv'
  BY StateStep
<1>2. Init => StateInv
  <2>1. Init => task[Handler] = Idle /\ task[Recovery] = Idle /\ cur = "unknown"
    BY DEF Init, Workers
  <2>2. QED
    BY <2>1 DEF StateInv, At, Idle
<1>3. StateInv => StateAgrees
  BY DEF StateInv, StateAgrees, Settled, Underway, At
<1>4. QED
  BY <1>1, <1>2, <1>3, SerialHolds, EvacHolds, PTL DEF SerialSpec

-----------------------------------------------------------------------------
(* The cooldown. *)

\* While a Deployment is on Fargate, migrated-at is no older than its last move
\* there, except in the middle of a patch, which holds a stamp that will make it
\* so.
StampInv ==
  /\ (\A w \in Workers : task[w].pc \notin Writing) /\ dep.compute = "fargate" =>
       dep.migrated <= sinceMove
  /\ \A w \in Workers :
       task[w].pc \in {"annotationInit", "annotationWrite"} =>
         task[w].stamp <= sinceMove

\* What a step that moves goroutine w, and keeps template and times, has to obey.
LEMMA StampTask ==
  ASSUME Inv, StampInv, NEW w \in Workers, NEW t \in Task,
         task' = [task EXCEPT ![w] = t],
         dep'.compute = dep.compute, dep'.migrated = dep.migrated,
         sinceMove' = sinceMove,
         task[w].pc \in Writing => t.pc \in Writing,
         t.pc \in {"annotationInit", "annotationWrite"} => t.stamp <= sinceMove
  PROVE  StampInv'
<1>1. task'[w] = t /\ \A v \in Workers \ {w} : task'[v] = task[v]
  BY TaskType DEF Inv, TypeOK
<1>2. (\A v \in Workers : task'[v].pc \notin Writing) =>
        \A v \in Workers : task[v].pc \notin Writing
  BY <1>1
<1>3. \A v \in Workers :
        task'[v].pc \in {"annotationInit", "annotationWrite"} =>
          task'[v].stamp <= sinceMove
  BY <1>1 DEF StampInv
<1>4. QED
  BY <1>1, <1>2, <1>3 DEF StampInv

\* A step of the event loop outside a patch.
LEMMA StampHandlerOwn ==
  ASSUME Inv, StampInv, HandlerOwn
  PROVE  StampInv'
<1>1. Handler \in Workers
  BY DEF Workers
<1>2. PICK t \in Task :
        /\ task' = [task EXCEPT ![Handler] = t]
        /\ t.pc \in {"idle", "detectAnnotation", "detectSpec", "remember",
                     "strategyGet", "strategyPatch", "patchGet", "fail",
                     "record", "settle"}
  BY HandlerOwnTask DEF Inv
<1>3. t.pc \notin {"annotationInit", "annotationWrite"}
  BY <1>2
<1>4. QED
  BY <1>1, <1>2, <1>3, HandlerOwnKeeps, StampTask

\* A step of the recovery manager outside a patch, NotePut apart.
LEMMA StampRecoveryOwn ==
  ASSUME Inv, SerialInv, StampInv, ~ApiError,
         RecoveryTick \/ NoteGet \/ SetSpot \/ SetHealthy \/ SetFargate
  PROVE  StampInv'
<1>1. Recovery \in Workers
  BY DEF Workers
<1>2. dep' = dep /\ sinceMove' = sinceMove /\ task[Recovery].pc \notin Writing
  BY DEF RecoveryTick, NoteGet, SetSpot, SetHealthy, SetFargate, At, Writing
<1>3. PICK t \in Task :
        /\ task' = [task EXCEPT ![Recovery] = t]
        /\ t.pc \in {"idle", "noteGet", "notePut", "patchGet", "setHealthy"}
  BY RecoveryOwnTask DEF RecoveryOwn
<1>4. t.pc \notin {"annotationInit", "annotationWrite"}
  BY <1>3
<1>5. QED
  BY <1>1, <1>2, <1>3, <1>4, StampTask

\* The Update of the bookkeeping: "attempting" writes back the migrated-at it has
\* read, "failed" writes the present, and "success" takes it away on Spot.
LEMMA StampNotePut ==
  ASSUME Inv, SerialInv, StampInv, ~ApiError, NotePut
  PROVE  StampInv'
<1>1. task[Recovery] \in Task /\ Recovery \in Workers
      /\ dep \in Deployment /\ sinceMove \in Nat
  BY CooldownAssumption DEF Inv, TypeOK, Workers, Ages
<1>2. dep'.compute = dep.compute /\ sinceMove' = sinceMove
  BY NotePutWrites DEF NotePut
<1>3. PICK t \in Task :
        /\ task' = [task EXCEPT ![Recovery] = t]
        /\ t.pc \in {"idle", "noteGet", "notePut", "patchGet", "setHealthy"}
  BY RecoveryOwnTask DEF RecoveryOwn
<1>4. task'[Recovery] = t /\ \A v \in Workers \ {Recovery} : task'[v] = task[v]
  BY <1>1, <1>3, TaskType DEF Inv, TypeOK
<1>5. dep.compute = "fargate" => dep'.migrated = dep.migrated \/ dep'.migrated = 0
  <2>1. CASE UNCHANGED dep
    BY <2>1
  <2>2. CASE fresh /\ dep' = Noted(copy, task[Recovery].note)
    <3>1. dep' = Noted(dep, task[Recovery].note)
      BY <2>2 DEF Inv, CopyCurrent
    <3>2. dep.compute = "fargate" => task[Recovery].note # "success"
      BY DEF SerialInv, Recovering
    <3>3. task[Recovery].note \in {"attempting", "success", "failed"}
      BY <1>1 DEF Task
    <3>4. CASE task[Recovery].note = "attempting"
      BY <1>1, <3>1, <3>4 DEF Noted, Deployment
    <3>5. CASE task[Recovery].note = "failed"
      BY <1>1, <3>1, <3>5 DEF Noted, Deployment
    <3>6. QED
      BY <3>2, <3>3, <3>4, <3>5
  <2>3. QED
    BY <2>1, <2>2 DEF NotePut
<1>6. task[Recovery].pc \notin Writing
  BY RecoveryOwnKeeps DEF RecoveryOwn
<1>7. (\A v \in Workers : task'[v].pc \notin Writing) =>
        \A v \in Workers : task[v].pc \notin Writing
  BY <1>4, <1>6
<1>8. (\A w \in Workers : task'[w].pc \notin Writing) /\ dep'.compute = "fargate" =>
        dep'.migrated <= sinceMove
  BY <1>1, <1>2, <1>5, <1>7 DEF StampInv
<1>9. \A v \in Workers :
        task'[v].pc \in {"annotationInit", "annotationWrite"} =>
          task'[v].stamp <= sinceMove
  BY <1>3, <1>4 DEF StampInv
<1>10. QED
  BY <1>2, <1>8, <1>9 DEF StampInv

\* A migration to Fargate takes the stamp it is about to write after it has
\* patched the template: AnnotationGet comes after PatchApply.
LEMMA StampPatchApply ==
  ASSUME Inv, SerialInv, StampInv, ~ApiError, NEW w \in Workers, PatchApply(w)
  PROVE  StampInv'
<1>1. Goto(w, "annotationGet") /\ task[w].pc = "patchApply"
  BY DEF PatchApply, At, ApiError
<1>2. task'[w].pc = "annotationGet" /\ \A v \in Workers \ {w} : task'[v] = task[v]
  BY <1>1, GotoType DEF Inv, TypeOK, Labels
<1>3. \A v \in Workers \ {w} : task'[v].pc = "idle"
  BY <1>1, <1>2 DEF SerialInv, Serial, At, Workers, Handler, Recovery
<1>4. \E v \in Workers : task'[v].pc \in Writing
  BY <1>2 DEF Writing
<1>5. \A v \in Workers : task'[v].pc \notin {"annotationInit", "annotationWrite"}
  BY <1>2, <1>3
<1>6. QED
  BY <1>4, <1>5 DEF StampInv

LEMMA StampAnnotation ==
  ASSUME Inv, SerialInv, StampInv, ~ApiError, NEW w \in Workers,
         AnnotationGet(w) \/ AnnotationInit(w)
  PROVE  StampInv'
<1>1. task[w] \in Task /\ sinceMove \in Nat
  BY CooldownAssumption DEF Inv, TypeOK, Ages
<1>2. PICK t \in Task :
        /\ task' = [task EXCEPT ![w] = t]
        /\ t.pc \in {"annotationWrite", "annotationInit"}
        /\ t.stamp <= sinceMove
  <2>1. CASE AnnotationGet(w)
    <3>1. PICK l \in {"annotationWrite", "annotationInit"} :
            task' = [task EXCEPT ![w] = [task[w] EXCEPT !.stamp = 0, !.pc = l]]
      BY <2>1 DEF AnnotationGet, ApiError
    <3> DEFINE u == [task[w] EXCEPT !.stamp = 0, !.pc = l]
    <3>2. u \in Task /\ u.pc = l /\ u.stamp = 0
      BY <1>1, RecordTypes DEF Task, Labels
    <3>3. task' = [task EXCEPT ![w] = u]
      BY <3>1
    <3> HIDE DEF u
    <3>4. u.pc \in {"annotationWrite", "annotationInit"} /\ u.stamp <= sinceMove
      BY <1>1, <3>2
    <3>5. QED
      BY <3>2, <3>3, <3>4
  <2>2. CASE AnnotationInit(w)
    <3> DEFINE u == [task[w] EXCEPT !.pc = "annotationWrite"]
    <3>1. u \in Task /\ u.pc = "annotationWrite" /\ u.stamp = task[w].stamp
      BY <1>1 DEF Task, Labels
    <3>2. task' = [task EXCEPT ![w] = u] /\ task[w].pc = "annotationInit"
      BY <2>2 DEF AnnotationInit, Goto, ApiError, At
    <3> HIDE DEF u
    <3>3. QED
      BY <3>1, <3>2 DEF StampInv
  <2>3. QED
    BY <2>1, <2>2
<1>3. task'[w] = t /\ \A v \in Workers \ {w} : task'[v] = task[v]
  BY <1>2, TaskType DEF Inv, TypeOK
<1>4. sinceMove' = sinceMove
  BY DEF AnnotationGet, AnnotationInit
<1>5. \E v \in Workers : task'[v].pc \in Writing
  BY <1>2, <1>3 DEF Writing
<1>6. \A v \in Workers :
        task'[v].pc \in {"annotationInit", "annotationWrite"} =>
          task'[v].stamp <= sinceMove
  BY <1>2, <1>3 DEF StampInv
<1>7. QED
  BY <1>4, <1>5, <1>6 DEF StampInv

\* The stamp reaches the annotation: the write that ends the patch, and with it the
\* licence of migrated-at to be older than the move.
LEMMA StampWrite ==
  ASSUME Inv, SerialInv, StampInv, ~ApiError, NEW w \in Workers, AnnotationWrite(w)
  PROVE  StampInv'
<1>1. task[w] \in Task /\ dep \in Deployment /\ task[w].pc = "annotationWrite"
  BY DEF Inv, TypeOK, AnnotationWrite, At
<1>2. task'[w].pc = "wait" /\ \A v \in Workers \ {w} : task'[v] = task[v]
  BY WaitTask DEF AnnotationWrite, Inv
<1>3. dep' = [dep EXCEPT !.state = task[w].target, !.migrated = task[w].stamp]
      /\ sinceMove' = sinceMove
  BY DEF AnnotationWrite, Store, ApiError
<1>4. dep'.compute = dep.compute /\ dep'.migrated = task[w].stamp
  BY <1>1, <1>3 DEF Deployment
<1>5. task[w].stamp <= sinceMove
  BY <1>1 DEF StampInv
<1>6. \A v \in Workers :
        task'[v].pc \in {"annotationInit", "annotationWrite"} =>
          task'[v].stamp <= sinceMove
  BY <1>2 DEF StampInv
<1>7. QED
  BY <1>3, <1>4, <1>5, <1>6 DEF StampInv

\* The other steps of a goroutine write nothing.
LEMMA StampVerdict ==
  ASSUME Inv, SerialInv, StampInv, NEW w \in Workers,
         PatchGet(w) \/ Wait(w) \/ Verify(w) \/ Revert(w)
  PROVE  StampInv'
<1>1. TypeOK /\ dep' = dep /\ sinceMove' = sinceMove /\ task[w].pc \notin Writing
  BY DEF Inv, PatchGet, Wait, Verify, Revert, At, Writing
<1>2. /\ task' \in [Workers -> Task]
      /\ task'[w].pc \notin {"annotationInit", "annotationWrite"}
      /\ \A v \in Workers \ {w} : task'[v] = task[v]
  <2>1. CASE \E l \in {"patchApply", "wait", "verify", "restore", "setFargate",
                       "record", "setSpot", "revert"} : Goto(w, l)
    <3>1. PICK l \in {"patchApply", "wait", "verify", "restore", "setFargate",
                      "record", "setSpot", "revert"} : Goto(w, l)
      BY <2>1
    <3>2. l \in Labels
      BY DEF Labels
    <3>3. QED
      BY <1>1, <3>1, <3>2, GotoType DEF TypeOK
  <2>2. CASE \/ task' = [task EXCEPT ![w] = AfterPatchError(w)]
             \/ task' = [task EXCEPT ![w] = AfterWaitError(w)]
    BY <1>1, <2>2, NextTasks, TaskType DEF TypeOK
  <2>3. CASE Revert(w)
    <3> DEFINE t == [task[w] EXCEPT !.pc = "patchGet", !.job = "back",
                                    !.target = RollbackTarget(w)]
    <3>1. task[w] \in Task /\ RollbackTarget(w) \in Compute
      BY <1>1, NextTasks DEF TypeOK
    <3>2. t \in Task /\ t.pc = "patchGet"
      BY <3>1 DEF Task, Labels
    <3>3. task' = [task EXCEPT ![w] = t]
      BY <2>3 DEF Revert
    <3> HIDE DEF t
    <3>4. QED
      BY <1>1, <3>2, <3>3, TaskType DEF TypeOK
  <2>4. AfterWait(w) \in {"verify", "restore", "setFargate"}
    BY <1>1, NextTasks
  <2>5. QED
    BY <2>1, <2>2, <2>3, <2>4 DEF PatchGet, Wait, Verify
<1>3. QED
  BY <1>1, <1>2 DEF StampInv

\* Time ages a stamp, the annotation and the move alike.
LEMMA OlderMonotone ==
  \A a, b \in Ages : a <= b => Older(a) <= Older(b)
BY CooldownAssumption DEF Ages, Older

LEMMA StampEnvironment ==
  ASSUME Inv, StampInv, Environment \/ UNCHANGED vars
  PROVE  StampInv'
<1>1. /\ dep'.compute = dep.compute
      /\ \A w \in Workers : /\ task'[w].pc = task[w].pc
                            /\ task'[w].job = task[w].job
                            /\ task'[w].target = task[w].target
                            /\ task'[w].note = task[w].note
  BY EnvironmentKeeps
<1>2. /\ dep.migrated <= sinceMove => dep'.migrated <= sinceMove'
      /\ \A w \in Workers :
           task[w].stamp <= sinceMove => task'[w].stamp <= sinceMove'
  <2>1. dep \in Deployment /\ sinceMove \in Ages /\ task \in [Workers -> Task]
    BY DEF Inv, TypeOK
  <2>2. CASE Tick
    <3>1. dep'.migrated = Older(dep.migrated) /\ dep.migrated \in Ages
          /\ sinceMove' = Older(sinceMove)
      BY <2>1, <2>2 DEF Tick, Deployment
    <3>2. \A w \in Workers : task'[w].stamp = Older(task[w].stamp)
                             /\ task[w].stamp \in Ages
      BY <2>1, <2>2 DEF Tick, Task
    <3>3. QED
      BY <2>1, <3>1, <3>2, OlderMonotone
  <2>3. CASE RolloutCompletes \/ PodsLost \/ ControllerAnnotates
    BY <2>1, <2>3 DEF RolloutCompletes, PodsLost, ControllerAnnotates, Store, Deployment
  <2>4. CASE StatusUpdate \/ UNCHANGED vars
    BY <2>4 DEF StatusUpdate, vars
  <2>5. QED
    BY <2>2, <2>3, <2>4 DEF Environment
<1>3. QED
  BY <1>1, <1>2 DEF StampInv

LEMMA StampStep ==
  ASSUME Inv, SerialInv, StampInv, ~ApiError, ~Restarts, [Next]_vars
  PROVE  StampInv'
<1>1. CASE UNCHANGED vars \/ Environment
  BY <1>1, StampEnvironment
<1>2. CASE HandlerOwn
  BY <1>2, StampHandlerOwn
<1>3. CASE RecoveryOwn
  BY <1>3, StampRecoveryOwn, StampNotePut DEF RecoveryOwn
<1>4. ASSUME NEW w \in Workers, Shared(w) PROVE StampInv'
  BY <1>4, StampPatchApply, StampAnnotation, StampWrite, StampVerdict DEF Shared
<1>5. ~Restart
  BY DEF Restart
<1>6. QED
  BY <1>1, <1>2, <1>3, <1>4, <1>5
     DEF Next, HandlerStep, RecoveryStep, HandlerOwn, RecoveryOwn, Workers

LEMMA StampInit == Init => StampInv
<1> SUFFICES ASSUME Init PROVE StampInv
  OBVIOUS
<1>1. \A w \in Workers : task[w] = Idle
  BY DEF Init
<1>2. Idle.pc = "idle"
  BY DEF Idle
<1>3. dep.migrated = Cooldown /\ sinceMove = Cooldown /\ Cooldown <= Cooldown
  BY CooldownAssumption DEF Init
<1>4. QED
  BY <1>1, <1>2, <1>3 DEF StampInv

\* README: "Respects configurable cooldown period after initial migration".  It
\* does as long as no API call fails, the process does not restart and the
\* goroutines take turns: no recovery starts before the cooldown since the last
\* move to Fargate is over, whatever earlier recoveries wrote to migrated-at.
THEOREM CooldownHeldInTurn ==
  ~ApiError /\ ~Restarts => (SerialSpec => CooldownRespected)
<1> SUFFICES ASSUME ~ApiError, ~Restarts PROVE SerialSpec => CooldownRespected
  OBVIOUS
<1>1. Inv /\ SerialInv /\ StampInv /\ [Next /\ Serial']_vars => StampInv'
  BY StampStep
<1>2. Inv /\ SerialInv /\ StampInv /\ [Next /\ Serial']_vars =>
        [RecoveryTick /\ At(Handler, "idle") => sinceMove >= Cooldown]_vars
  <2> SUFFICES ASSUME Inv, StampInv, RecoveryTick, At(Handler, "idle")
               PROVE  sinceMove >= Cooldown
    OBVIOUS
  <2>1. \A w \in Workers : task[w].pc \notin Writing
    BY DEF RecoveryTick, At, Workers, Writing
  <2>2. dep.migrated >= Cooldown /\ dep.compute = "fargate"
    BY DEF RecoveryTick, CooldownOver
  <2>3. dep.migrated \in Nat /\ sinceMove \in Nat
    BY CooldownAssumption DEF Inv, TypeOK, Deployment, Ages
  <2>4. QED
    BY <2>1, <2>2, <2>3, CooldownAssumption DEF StampInv
<1>3. QED
  BY <1>1, <1>2, StampInit, SerialHolds, PTL DEF SerialSpec, CooldownRespected

=============================================================================
