---------------------------- MODULE MCBuyerRights ----------------------------
(* Two interchangeable buyers. *)
EXTENDS BuyerRights, TLC

Symmetry == Permutations(Buyer)
=============================================================================
