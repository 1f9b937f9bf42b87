------------------------- MODULE MCTwoPhaseMigration -------------------------
(* Instances of TwoPhaseMigration for TLC. *)
EXTENDS TwoPhaseMigration

=============================================================================
