-------------------------- MODULE MCOptimizerValues --------------------------
(***************************************************************************)
(* The same derivatives over the integers modulo Modulus, where the value of a  *)
(* tree is the same before and after a step or it is not.                     *)
(***************************************************************************)
EXTENDS MCOptimizer, Values

CONSTANT Modulus

A == INSTANCE Arithmetic

ModularResult(op, l, r) == A!Evaluated(op, l, r)
ModularResults(op, l, r) == {ModularResult(op, l, r)}

=============================================================================
