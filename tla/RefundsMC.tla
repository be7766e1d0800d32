----------------------------- MODULE RefundsMC -----------------------------
(***************************************************************************)
(* A small instance of Refunds.                                            *)
(***************************************************************************)
EXTENDS Refunds, TLC

CONSTANTS s1, s2

MCTotal == (s1 :> 1) @@ (s2 :> 2)

\* Another order's unit lies where the goods of the cancelled slice s1 did: the stock of a
\* first refund can go back, that of a second cannot.
MCOthers == (s1 :> 1) @@ (s2 :> 0)

\* Customers ask for two thirds of what they paid, and their goods go back.
MCAsks ==
  {[scope |-> Whole, amount |-> 2, restock |-> TRUE, goods |-> 0, for |-> "customer"]}

\* Requests are interchangeable.
RefundSymmetry == Permutations(Workers)
=============================================================================
