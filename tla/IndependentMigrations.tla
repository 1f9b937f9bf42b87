------------------------- MODULE IndependentMigrations -------------------------
(***************************************************************************)
(* What a migration of several Deployments promises: each goes its own     *)
(* way, "each deployment succeeds/fails independently".  No step looks at  *)
(* more than one Deployment, and how a migration ends tells where the      *)
(* Deployment is.                                                          *)
(***************************************************************************)

CONSTANT Deployments

VARIABLES
  compute,  \* compute[d]: the compute type of the template of d
  stage     \* stage[d]: how far the migration of d is, or how the last ended

vars == <<compute, stage>>

Compute == {"spot", "fargate"}

\* Not in a migration; "none" before the first.
Ended == {"none", "skipped", "migrated", "reverted", "stuck", "interrupted"}

Init ==
  /\ compute \in [Deployments -> Compute]
  /\ stage = [d \in Deployments |-> "none"]

\* d enters stage s and nothing else changes.
Enter(d, s) ==
  /\ stage' = [stage EXCEPT ![d] = s]
  /\ UNCHANGED compute

Begin(d) == stage[d] \in Ended /\ Enter(d, "begun")

\* The template goes to Fargate and the migration does not know.
MoveUnanswered(d) ==
  /\ stage[d] = "begun"
  /\ compute' = [compute EXCEPT ![d] = "fargate"]
  /\ UNCHANGED stage

\* A migration that is skipped has not moved the template that it knows of, and
\* never back to Spot.
Skip(d) == stage[d] = "begun" /\ Enter(d, "skipped")

Move(d) ==
  /\ stage[d] = "begun"
  /\ compute' = [compute EXCEPT ![d] = "fargate"]
  /\ stage' = [stage EXCEPT ![d] = "moved"]

\* Only a Deployment whose template is on Fargate has migrated.
Succeed(d) == stage[d] = "moved" /\ Enter(d, "migrated")

MoveBack(d) ==
  /\ stage[d] = "moved"
  /\ compute' = [compute EXCEPT ![d] = "spot"]
  /\ stage' = [stage EXCEPT ![d] = "returning"]

\* Only a Deployment whose template is on Spot has been rolled back.
Return(d) == stage[d] = "returning" /\ Enter(d, "reverted")

\* Neither way worked, or the way back did and the migration does not know.
GiveUp(d) ==
  /\ stage[d] \in {"moved", "returning"}
  /\ UNCHANGED compute \/ compute' = [compute EXCEPT ![d] = "spot"]
  /\ stage' = [stage EXCEPT ![d] = "stuck"]

\* The process dies; so do all migrations under way.
Interrupt ==
  /\ stage' = [d \in Deployments |->
                 IF stage[d] \in Ended THEN stage[d] ELSE "interrupted"]
  /\ UNCHANGED compute

Next ==
  \/ \E d \in Deployments :
       \/ Begin(d) \/ MoveUnanswered(d) \/ Skip(d) \/ Move(d) \/ Succeed(d)
       \/ MoveBack(d) \/ Return(d) \/ GiveUp(d)
  \/ Interrupt

Spec == Init /\ [][Next]_vars

=============================================================================
