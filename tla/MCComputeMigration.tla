-------------------------- MODULE MCComputeMigration --------------------------
(* Instances of ComputeMigration for TLC. *)
EXTENDS ComputeMigration

=============================================================================
