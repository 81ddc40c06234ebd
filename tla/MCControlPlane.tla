--------------------------- MODULE MCControlPlane ---------------------------
(***************************************************************************)
(* Instances of ControlPlane for TLC.                                      *)
(***************************************************************************)
EXTENDS ControlPlane, TLC

CONSTANTS q1, q2, q3, d1, d2, source1, root1, c1, c2

MCSourceOf == [r \in Root |-> source1]

Symmetry == Permutations(Request) \cup Permutations(Device) \cup Permutations(Client)
=============================================================================
