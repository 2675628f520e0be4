--------------------------- MODULE MCControlPlane ---------------------------
(***************************************************************************)
(* Instances of ControlPlane.                                              *)
(***************************************************************************)
EXTENDS ControlPlane, TLC

TopicSymmetry == Permutations(Topics)

\* A path of one character and a capacity of 4096.
OneCharPath == <<1, 0, 0, 0, 0, 0, 0, 0, 47, 0, 16, 0, 0, 0, 0, 0, 0>>
=============================================================================
