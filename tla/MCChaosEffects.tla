--------------------------- MODULE MCChaosEffects ---------------------------
(* Finite instances of ChaosEffects; the callers are interchangeable.      *)
EXTENDS ChaosEffects, TLC

CallerSymmetry == Permutations(Callers)
=============================================================================
