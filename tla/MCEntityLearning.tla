-------------------------- MODULE MCEntityLearning --------------------------
(* Small instances of EntityLearning.                                      *)
EXTENDS EntityLearning

CONSTANTS c1, c2, nearer, mid, farther, other

\* Of three suited candidates two pass both filters for c1.
MCWeightOf == [x \in {c1, c2, nearer, mid, farther, other} |->
                 CASE x = c1 -> 10 [] x = c2 -> 14
                   [] x = nearer -> 12 [] x = mid -> 13 [] x = farther -> 14
                   [] x = other -> 10]
=============================================================================
