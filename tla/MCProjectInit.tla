---------------------------- MODULE MCProjectInit ----------------------------
EXTENDS ProjectInit, TLC

CONSTANTS outer, inner

MCAbove == (outer :> <<outer>>) @@ (inner :> <<inner, outer>>)

Symmetry == Permutations(Procs)
=============================================================================
