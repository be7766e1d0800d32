----------------------------- MODULE PayoutsMC -----------------------------
(***************************************************************************)
(* One slice of two units, a return of it and two payouts: every operation *)
(* has a rival, two completions of the return and two clerks.              *)
(***************************************************************************)
EXTENDS Payouts, TLC

CONSTANTS s1, w1, w2, c1, c2

MCBought == s1 :> 2
SettlementSymmetry == Permutations({w1, w2}) \cup Permutations({c1, c2})
=============================================================================
