------------------------------- MODULE PeopleMC -------------------------------
(***************************************************************************)
(* Small instances of People: the data that its parts work on.             *)
(***************************************************************************)
EXTENDS People, TLC

CONSTANTS w1, w2, x1, x2

Symmetry == Permutations({w1, w2})

\* Three slices of two sellers whose codes happen to be the same.
MCSellerOf == [p1 |-> "a", p2 |-> "a", p3 |-> "b"]
MCCodeOf   == [a |-> "AB12", b |-> "AB12"]
MCSla      == [HIGH |-> 1, NORMAL |-> 2]

\* Carts in paise, per cent and grams: one seller with two lines that fall just on a half; and two
\* sellers, one of them with three lines and rates.
Line(p, r, w) == [price |-> p, rate |-> r, weight |-> w]
MCBaskets ==
  { <<<<Line(3335, 12, 50), Line(3335, 5, 50)>>>>,
    <<<<Line(9999, 5, 50), Line(3333, 18, 120), Line(101, 12, 30)>>, <<Line(19950, 12, 75)>>>> }

Offer(k, v, c) == [kind |-> k, value |-> v, cap |-> c]
MCOffers == {Offer("none", 0, 0), Offer("fixed_amount", 1000, 0), Offer("percentage", 33, 7770)}

\* In-house shipping that is never free; free above the price of a cart, with and without cash
\* on delivery; and a store that does not deliver by itself.
Store(free, flat, perKg, delivers, cash, limit) ==
  [freeAbove |-> free, flatRate |-> flat, perKgRate |-> perKg, delivers |-> delivers,
   codEnabled |-> cash, codLimit |-> limit]
MCConfigs == {Store(Null, 4000, 1500, TRUE, TRUE, Null), Store(13400, 4999, 0, TRUE, TRUE, 12000),
              Store(0, 0, 0, FALSE, FALSE, Null)}
MCKind == <<"INTRA_STATE", "INTER_STATE">>
=============================================================================
