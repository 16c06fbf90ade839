------------------------------ MODULE MCSettings ------------------------------
(* Settings on small instances.                                             *)
EXTENDS Settings, TLC

CONSTANTS h1, h2

TwoHandlers == {h1, h2}
HandlerSymmetry == Permutations(TwoHandlers)

=============================================================================
