------------------------- MODULE MCFunctionBuilder -------------------------
(* FunctionBuilder with interchangeable variables.                         *)
EXTENDS FunctionBuilder, TLC

Symmetry == Permutations(Place)

=============================================================================
