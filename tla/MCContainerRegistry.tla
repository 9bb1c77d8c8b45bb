----------------------- MODULE MCContainerRegistry -----------------------
(* ContainerRegistry for TLC.  Identifiers and processes are only compared *)
(* for equality, so permuting them changes no property; paths are not a    *)
(* symmetry set (Init chooses one).  The liveness run uses no symmetry.    *)
EXTENDS ContainerRegistry, TLC

Symmetry == Permutations(Ids) \cup Permutations(Procs)
===========================================================================
