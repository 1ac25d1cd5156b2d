---------------------------- MODULE MCInteractions ----------------------------
(*****************************************************************************)
(* Instances for TLC.  One approval and one question: the code keeps them in *)
(* separate collections, and two of the same kind touch no common field.     *)
(*****************************************************************************)
EXTENDS Interactions
===============================================================================
