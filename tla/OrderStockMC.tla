---------------------------- MODULE OrderStockMC ----------------------------
(***************************************************************************)
(* Instances of OrderStock for TLC: a prepaid order o1 and a COD order o2, *)
(* seller s1 with two warehouses and seller s2 with one.                   *)
(***************************************************************************)
EXTENDS OrderStock, TLC

CONSTANTS o1, o2, s1, s2, r1, r2, r3

MCOrders  == {o1, o2}
MCPrepaid == {o1}
MCSellers == {s1, s2}
MCRows    == {r1, r2, r3}
MCStoreOf == (r1 :> s1) @@ (r2 :> s1) @@ (r3 :> s2)

\* o1 needs both of s1's warehouses; o2 competes with it for the larger one.
MCDemand  == [o \in Orders |-> IF o = o1 THEN (s1 :> 3) @@ (s2 :> 1) ELSE (s1 :> 1) @@ (s2 :> 0)]
MCOpening == (r1 :> 2) @@ (r2 :> 1) @@ (r3 :> 1)

\* Two orders on the same single row, for the runs about one row.
OneRow     == {r1}
OneSeller  == {s1}
OneStore   == (r1 :> s1)
OneDemand  == (o1 :> (s1 :> 1)) @@ (o2 :> (s1 :> 1))
OneOpening == (r1 :> 2)

\* Requests are interchangeable.
WorkerSymmetry == Permutations(Workers)
=============================================================================
