-------------------------- MODULE MCSpotEventPipeline --------------------------
(* Instances of SpotEventPipeline for TLC. *)
EXTENDS SpotEventPipeline

=============================================================================
