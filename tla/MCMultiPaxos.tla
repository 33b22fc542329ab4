---------------------------- MODULE MCMultiPaxos ----------------------------
(***************************************************************************)
(* Constants and symmetry of the TLC instances of MultiPaxos.  Acceptors   *)
(* and client values are model values and interchangeable; proposers are   *)
(* numbers, because rounds are computed from their ids.                    *)
(***************************************************************************)
EXTENDS MultiPaxosInvariant, TLC

Symmetry == Permutations(Acceptors) \cup Permutations(ClientValues)
=============================================================================
