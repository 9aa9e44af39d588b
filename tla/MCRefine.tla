------------------------------ MODULE MCRefine ------------------------------
EXTENDS Refine

CONSTANTS a, b, c, f1, f2

Begin  == [m \in Modules |-> CASE m = a -> {f1} [] m = b -> {f2} [] OTHER -> {}]
\* The path of f1 is a part of that of f2.
Paths  == [f \in Files |-> {f, f2}]
Symmetry == Permutations(Workers)
=============================================================================
