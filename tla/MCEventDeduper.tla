---------------------------- MODULE MCEventDeduper ----------------------------
(* Three keys and a clock that outlives two TTLs, for TLC. *)
EXTENDS EventDeduper

=============================================================================
