----------------------- MODULE MCContainerSelection -----------------------
(* ContainerSelection for TLC: a container folder a with a folder b inside *)
(* it, and a folder c beside it.  Identifiers are only compared.           *)
EXTENDS ContainerSelection, TLC

CONSTANTS a, b, c

MCAbove == [d \in Dirs |-> IF d = b THEN {a, b} ELSE {d}]

Symmetry == Permutations(Ids)
===========================================================================
