----------------------------- MODULE CheckoutMC -----------------------------
(***************************************************************************)
(* Small instances of Checkout.                                            *)
(***************************************************************************)
EXTENDS Checkout, TLC

Symmetry == Permutations(Workers)
=============================================================================
