-------------------------- MODULE MCCardActivation --------------------------
(* Instances of CardActivation for TLC. *)
EXTENDS CardActivation

CONSTANTS ann, bob, s1, s2, s3
=============================================================================
