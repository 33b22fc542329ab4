-------------------------- MODULE MCFailureDetector --------------------------
(***************************************************************************)
(* Constants of the TLC instances of FailureDetector.                      *)
(***************************************************************************)
EXTENDS FailureDetector

\* main.go puts the node's own id first.
ThreeNodes == <<0, 1, 2>>
=============================================================================
