-------------------------- MODULE OrderStockProofs --------------------------
(***************************************************************************)
(* Invariants of OrderStock, for every set of orders, sellers, rows and    *)
(* concurrent requests, every demand and every opening stock.              *)
(*                                                                         *)
(* The ledger is inductive together with the types: each of the three ways *)
(* to move stock changes a row's counters and its movements alike, and an  *)
(* adjustment either saw the row it overwrites or marks it stale.          *)
(*                                                                         *)
(* PlacedInv says what a request carries from its read to its commit about *)
(* the order it read; with it, each row's reservations are the sum of what *)
(* its orders hold on it, one order's hold changing at a time (HeldChange).*)
(* Those two hold however requests interleave.  SerialInv adds that what a *)
(* request decided on still holds when it commits, which needs OneAtATime. *)
(***************************************************************************)
EXTENDS OrderStock, SumTheorems

StockInv == StockTypeOK /\ LedgerReplays

\* The warehouses' share of a placement is a quantity per row.
LEMMA SliceQuantities ==
  ASSUME NEW o \in Orders, NEW S, moved \in [Orders -> Quantities]
  PROVE  SliceStock(o, S) \in Quantities
BY DEF SliceStock, Quantities

\* Reserving stock keeps the row's counters equal to its movements.
LEMMA ReserveKeeps ==
  ASSUME NEW q \in Quantities, StockInv, Reserve(q)
  PROVE  StockInv'
<1>1. \A r \in Rows : /\ q[r] \in Nat /\ available[r] \in Nat /\ reserved[r] \in Nat
                      /\ onHand[r] \in Int /\ moves[r] \in Movement
                      /\ available[r] >= q[r]
  BY DEF StockInv, StockTypeOK, Reserve, Quantities
<1>2. \A r \in Rows : moves'[r] = [moves[r] EXCEPT !.order = @ + q[r]]
  BY DEF Reserve
<1>3. StockTypeOK'
  <2>1. \A r \in Rows : [moves[r] EXCEPT !.order = @ + q[r]] \in Movement
    BY <1>1 DEF Movement
  <2>2. moves' \in [Rows -> Movement]
    BY <2>1 DEF Reserve
  <2>3. available' \in [Rows -> Nat] /\ reserved' \in [Rows -> Nat]
    BY <1>1 DEF Reserve
  <2> QED BY <2>2, <2>3 DEF StockInv, StockTypeOK, Reserve
<1>4. LedgerReplays'
  <2> SUFFICES ASSUME NEW r \in Rows PROVE LedgerOf(r)'
    BY DEF LedgerReplays
  <2>1. /\ available'[r] = available[r] - q[r] /\ reserved'[r] = reserved[r] + q[r]
        /\ onHand'[r] = onHand[r] /\ stale'[r] = stale[r]
    BY DEF Reserve
  <2>2. /\ moves'[r].order = moves[r].order + q[r] /\ moves'[r].cancel = moves[r].cancel
        /\ moves'[r].ship = moves[r].ship /\ moves'[r].adjust = moves[r].adjust
    BY <1>1, <1>2 DEF Movement
  <2>3. LedgerOf(r) /\ Opening[r] \in Nat
    BY ConstantsOK DEF StockInv, LedgerReplays
  <2> QED BY <1>1, <2>1, <2>2, <2>3 DEF LedgerOf, Movement
<1> QED BY <1>3, <1>4 DEF StockInv

\* Releasing it does too.
LEMMA ReleaseKeeps ==
  ASSUME NEW q \in Quantities, StockInv, Release(q)
  PROVE  StockInv'
<1>1. \A r \in Rows : /\ q[r] \in Nat /\ available[r] \in Nat /\ reserved[r] \in Nat
                      /\ onHand[r] \in Int /\ moves[r] \in Movement
                      /\ reserved[r] >= q[r]
  BY DEF StockInv, StockTypeOK, Release, CanRelease, Quantities
<1>2. \A r \in Rows : moves'[r] = [moves[r] EXCEPT !.cancel = @ + q[r]]
  BY DEF Release
<1>3. StockTypeOK'
  <2>1. \A r \in Rows : [moves[r] EXCEPT !.cancel = @ + q[r]] \in Movement
    BY <1>1 DEF Movement
  <2>2. moves' \in [Rows -> Movement]
    BY <2>1 DEF Release
  <2>3. available' \in [Rows -> Nat] /\ reserved' \in [Rows -> Nat]
    BY <1>1 DEF Release
  <2> QED BY <2>2, <2>3 DEF StockInv, StockTypeOK, Release
<1>4. LedgerReplays'
  <2> SUFFICES ASSUME NEW r \in Rows PROVE LedgerOf(r)'
    BY DEF LedgerReplays
  <2>1. /\ available'[r] = available[r] + q[r] /\ reserved'[r] = reserved[r] - q[r]
        /\ onHand'[r] = onHand[r] /\ stale'[r] = stale[r]
    BY DEF Release
  <2>2. /\ moves'[r].cancel = moves[r].cancel + q[r] /\ moves'[r].order = moves[r].order
        /\ moves'[r].ship = moves[r].ship /\ moves'[r].adjust = moves[r].adjust
    BY <1>1, <1>2 DEF Movement
  <2>3. LedgerOf(r) /\ Opening[r] \in Nat
    BY ConstantsOK DEF StockInv, LedgerReplays
  <2> QED BY <1>1, <2>1, <2>2, <2>3 DEF LedgerOf, Movement
<1> QED BY <1>3, <1>4 DEF StockInv

\* And so does shipping it.
LEMMA ShipmentKeeps ==
  ASSUME NEW q \in Quantities, StockInv, CommitShipment(q)
  PROVE  StockInv'
<1>1. \A r \in Rows : /\ q[r] \in Nat /\ available[r] \in Nat /\ reserved[r] \in Nat
                      /\ onHand[r] \in Int /\ moves[r] \in Movement
                      /\ reserved[r] >= q[r]
  BY DEF StockInv, StockTypeOK, CommitShipment, CanRelease, Quantities
<1>2. \A r \in Rows : moves'[r] = [moves[r] EXCEPT !.ship = @ + q[r]]
  BY DEF CommitShipment
<1>3. StockTypeOK'
  <2>1. \A r \in Rows : [moves[r] EXCEPT !.ship = @ + q[r]] \in Movement
    BY <1>1 DEF Movement
  <2>2. moves' \in [Rows -> Movement]
    BY <2>1 DEF CommitShipment
  <2>3. onHand' \in [Rows -> Int] /\ reserved' \in [Rows -> Nat]
    BY <1>1 DEF CommitShipment
  <2> QED BY <2>2, <2>3 DEF StockInv, StockTypeOK, CommitShipment
<1>4. LedgerReplays'
  <2> SUFFICES ASSUME NEW r \in Rows PROVE LedgerOf(r)'
    BY DEF LedgerReplays
  <2>1. /\ available'[r] = available[r] /\ reserved'[r] = reserved[r] - q[r]
        /\ onHand'[r] = onHand[r] - q[r] /\ stale'[r] = stale[r]
    BY DEF CommitShipment
  <2>2. /\ moves'[r].ship = moves[r].ship + q[r] /\ moves'[r].order = moves[r].order
        /\ moves'[r].cancel = moves[r].cancel /\ moves'[r].adjust = moves[r].adjust
    BY <1>1, <1>2 DEF Movement
  <2>3. LedgerOf(r) /\ Opening[r] \in Nat
    BY ConstantsOK DEF StockInv, LedgerReplays
  <2> QED BY <1>1, <2>1, <2>2, <2>3 DEF LedgerOf, Movement
<1> QED BY <1>3, <1>4 DEF StockInv

\* A plan is a quantity per row.
LEMMA PlanQuantities ==
  ASSUME NEW o \in Orders, StockTypeOK, NEW p \in Plans(o)
  PROVE  p \in Quantities
<1>1. UNION {0 .. available[r] : r \in Rows} \subseteq Nat
  BY DEF StockTypeOK
<1> QED BY <1>1 DEF Plans, Quantities

\* An adjustment writes counters that agree with its movement, unless the row
\* changed after it was read, and then the row is marked stale.
LEMMA OverwriteKeeps ==
  ASSUME NEW t \in Adjustment, t.reserved =< t.to, StockInv, Overwrite(t)
  PROVE  StockInv'
<1>1. /\ t.row \in Rows /\ t.onHand \in Int /\ t.reserved \in Nat /\ t.to \in Nat
  BY DEF Adjustment
<1>2. /\ reserved' = reserved
      /\ \A x \in Rows \ {t.row} :
           /\ moves'[x] = moves[x] /\ stale'[x] = stale[x]
           /\ available'[x] = available[x] /\ onHand'[x] = onHand[x]
  BY DEF Overwrite, StockInv, StockTypeOK
<1>3. /\ moves'[t.row] = [moves[t.row] EXCEPT !.adjust = @ + (t.to - t.onHand)]
      /\ stale'[t.row] = (stale[t.row] \/ Changed(t))
      /\ available'[t.row] = t.to - t.reserved /\ onHand'[t.row] = t.to
  BY <1>1 DEF Overwrite, StockInv, StockTypeOK
<1>4. moves[t.row] \in Movement
  BY <1>1 DEF StockInv, StockTypeOK
<1>5. StockTypeOK'
  <2>1. [moves[t.row] EXCEPT !.adjust = @ + (t.to - t.onHand)] \in Movement
    BY <1>1, <1>4 DEF Movement
  <2>2. moves' \in [Rows -> Movement]
    BY <1>1, <2>1 DEF Overwrite, StockInv, StockTypeOK
  <2>3. t.to - t.reserved \in Nat
    BY <1>1
  <2>4. onHand' \in [Rows -> Int] /\ available' \in [Rows -> Nat]
    BY <1>1, <2>3 DEF Overwrite, StockInv, StockTypeOK
  <2>5. reserved' \in [Rows -> Nat] /\ stale' \in [Rows -> BOOLEAN]
    BY <1>1 DEF Overwrite, StockInv, StockTypeOK, Changed
  <2> QED BY <2>2, <2>4, <2>5 DEF StockTypeOK
<1>6. ASSUME NEW x \in Rows PROVE LedgerOf(x)'
  <2>1. CASE x # t.row
    BY <1>2, <2>1 DEF StockInv, LedgerReplays, LedgerOf
  <2>2. CASE x = t.row
    <3>1. /\ onHand[x] \in Int /\ available[x] \in Nat /\ reserved[x] \in Nat
          /\ stale[x] \in BOOLEAN /\ Opening[x] \in Nat /\ LedgerOf(x)
      BY ConstantsOK DEF StockInv, StockTypeOK, LedgerReplays
    <3>2. /\ moves'[x].order = moves[x].order /\ moves'[x].cancel = moves[x].cancel
          /\ moves'[x].ship = moves[x].ship
          /\ moves'[x].adjust = moves[x].adjust + (t.to - t.onHand)
      BY <1>3, <1>4, <2>2 DEF Movement
    <3>3. ~stale'[x] => ~stale[x] /\ onHand[x] = t.onHand /\ reserved[x] = t.reserved
      BY <1>3, <2>2 DEF Changed
    <3>4. moves[x] \in Movement /\ onHand'[x] = t.to /\ available'[x] = t.to - t.reserved
      BY <1>3, <1>4, <2>2
    <3> QED BY <1>1, <1>2, <3>1, <3>2, <3>3, <3>4 DEF LedgerOf, Movement
  <2> QED BY <2>1, <2>2
<1> QED BY <1>5, <1>6 DEF StockInv, LedgerReplays
-----------------------------------------------------------------------------
Inv == TypeOK /\ LedgerReplays

LEMMA InitInv == Init => Inv
<1> SUFFICES ASSUME Init PROVE Inv
  OBVIOUS
<1>1. StockTypeOK
  BY ConstantsOK DEF Init, StockTypeOK, Movement, Nothing
<1>2. OrdersTypeOK
  BY DEF Init, OrdersTypeOK, Quantities, Nothing
<1>3. task \in [Workers -> Task] /\ adjusts \in Nat
  BY DEF Init, Task
<1>4. LedgerReplays
  BY ConstantsOK DEF Init, LedgerReplays, LedgerOf, Nothing
<1> QED BY <1>1, <1>2, <1>3, <1>4 DEF Inv, TypeOK

\* Steps that write no table leave the counters and their movements as they are.
LEMMA StockUnchanged == StockInv /\ UNCHANGED stock => StockInv'
BY DEF StockInv, StockTypeOK, LedgerReplays, LedgerOf, stock

LEMMA OrdersUnchanged == OrdersTypeOK /\ UNCHANGED orders => OrdersTypeOK'
BY DEF OrdersTypeOK, orders

\* Every task a worker starts is one of the kinds listed in Task.
LEMMA StartTyped ==
  ASSUME NEW w \in Workers, NEW t \in Task, task \in [Workers -> Task],
         task' = [task EXCEPT ![w] = t]
  PROVE  task' \in [Workers -> Task]
OBVIOUS

LEMMA FinishTyped ==
  ASSUME NEW w \in Workers, task \in [Workers -> Task], Finish(w)
  PROVE  task' \in [Workers -> Task]
BY DEF Finish, Task

\* A worker's task has the fields of its kind.
LEMMA TaskFields ==
  ASSUME NEW w \in Workers, task \in [Workers -> Task]
  PROVE  /\ Doing(w, "place") => task[w].order \in Orders /\ task[w].plan \in Quantities
         /\ (Doing(w, "cancel") \/ Doing(w, "fail")) =>
               task[w].order \in Orders /\ task[w].open \subseteq Sellers
         /\ Doing(w, "admin") => task[w].order \in Orders
         /\ Doing(w, "move") =>
               /\ task[w].order \in Orders /\ task[w].seller \in Sellers
               /\ task[w].target \in Status
         /\ Doing(w, "deliver") =>
               /\ task[w].order \in Orders /\ task[w].seller \in Sellers
               /\ task[w].all \in BOOLEAN
         /\ Doing(w, "adjust") =>
               task[w] \in Adjustment /\ task[w].reserved =< task[w].to
BY DEF Doing, Task, Idle, Adjustment

\* A read only fills the worker's task.
LEMMA ReadKeeps ==
  ASSUME Inv, NEW w \in Workers, NEW t \in Task, task' = [task EXCEPT ![w] = t],
         UNCHANGED <<stock, orders>>, adjusts' \in Nat
  PROVE  Inv'
BY StartTyped, StockUnchanged, OrdersUnchanged DEF Inv, TypeOK, StockInv

LEMMA PlaceCommitKeeps ==
  ASSUME Inv, NEW w \in Workers, PlaceCommit(w)
  PROVE  Inv'
<1> DEFINE o == task[w].order
           p == task[w].plan
<1>1. o \in Orders /\ p \in Quantities
  BY TaskFields DEF Inv, TypeOK, PlaceCommit
<1>2. StockInv'
  BY <1>1, ReserveKeeps DEF Inv, TypeOK, StockInv, PlaceCommit
<1>3. OrdersTypeOK'
  BY <1>1 DEF Inv, TypeOK, PlaceCommit, OrdersTypeOK, Status
<1> QED BY <1>2, <1>3, FinishTyped DEF Inv, TypeOK, StockInv, PlaceCommit

LEMMA CancelWholeKeeps ==
  ASSUME Inv, NEW w \in Workers, Doing(w, "cancel") \/ Doing(w, "fail"),
         CancelWhole(w),
         UNCHANGED pay \/ pay' = [pay EXCEPT ![task[w].order] = "FAILED"]
  PROVE  Inv'
<1>1. task[w].order \in Orders /\ task[w].open \subseteq Sellers
  BY TaskFields DEF Inv, TypeOK
<1>2. SliceStock(task[w].order, Sellers) \in Quantities
  BY <1>1, SliceQuantities DEF Inv, TypeOK, OrdersTypeOK
<1>3. StockInv'
  BY <1>2, ReleaseKeeps DEF Inv, TypeOK, StockInv, CancelWhole
<1>4. OrdersTypeOK'
  <2>1. PICK o, open : o = task[w].order /\ open = task[w].open
    OBVIOUS
  <2>2. o \in Orders /\ OrdersTypeOK
    BY <1>1, <2>1 DEF Inv, TypeOK
  <2>3. parent' \in [Orders -> {"NONE", "PENDING", "DELIVERED", "CANCELLED"}]
    BY <2>1, <2>2 DEF CancelWhole, OrdersTypeOK
  <2>4. sub' \in [Orders -> [Sellers -> Status \cup {"NONE"}]]
    BY <2>1, <2>2 DEF CancelWhole, OrdersTypeOK, Status
  <2>5. released' \in [Orders -> [Sellers -> Nat]]
    BY <2>1, <2>2 DEF CancelWhole, OrdersTypeOK
  <2>6. pay' \in [Orders -> {"NONE", "PENDING", "AWAITING_PAYMENT", "PAID", "FAILED"}]
    BY <2>1, <2>2 DEF OrdersTypeOK
  <2> QED BY <2>2, <2>3, <2>4, <2>5, <2>6 DEF CancelWhole, OrdersTypeOK
<1> QED BY <1>3, <1>4, FinishTyped DEF Inv, TypeOK, StockInv, CancelWhole

\* A step of one slice's status, with or without its stock.
LEMMA SetSliceTyped ==
  ASSUME Inv, NEW w \in Workers, Doing(w, "move"), SetSlice(w),
         released' \in [Orders -> [Sellers -> Nat]],
         shipped' \in [Orders -> [Sellers -> Nat]]
  PROVE  OrdersTypeOK' /\ task' \in [Workers -> Task] /\ adjusts' \in Nat
<1>1. /\ task[w].order \in Orders /\ task[w].seller \in Sellers
      /\ task[w].target \in Status
  BY TaskFields DEF Inv, TypeOK
<1> QED BY <1>1, FinishTyped DEF Inv, TypeOK, SetSlice, OrdersTypeOK

LEMMA MoveKeeps ==
  ASSUME Inv, NEW w \in Workers, MoveForward(w) \/ MoveShip(w) \/ MoveCancel(w)
  PROVE  Inv'
<1>1. task[w].order \in Orders /\ task[w].seller \in Sellers
  BY TaskFields DEF Inv, TypeOK, MoveForward, MoveShip, MoveCancel, Moving
<1>2. SliceStock(task[w].order, {task[w].seller}) \in Quantities
  BY <1>1, SliceQuantities DEF Inv, TypeOK, OrdersTypeOK
<1>3. CASE MoveForward(w)
  <2>1. StockInv'
    BY <1>3, StockUnchanged DEF Inv, TypeOK, StockInv, MoveForward
  <2> QED BY <1>3, <2>1, SetSliceTyped
          DEF Inv, TypeOK, OrdersTypeOK, StockInv, MoveForward, Moving
<1>4. CASE MoveShip(w)
  <2>1. StockInv'
    BY <1>2, <1>4, ShipmentKeeps DEF Inv, TypeOK, StockInv, MoveShip
  <2>2. shipped' \in [Orders -> [Sellers -> Nat]]
    BY <1>1, <1>4 DEF Inv, TypeOK, OrdersTypeOK, MoveShip
  <2> QED BY <1>4, <2>1, <2>2, SetSliceTyped
          DEF Inv, TypeOK, OrdersTypeOK, StockInv, MoveShip, Moving
<1>5. CASE MoveCancel(w)
  <2>1. StockInv'
    BY <1>2, <1>5, ReleaseKeeps DEF Inv, TypeOK, StockInv, MoveCancel
  <2>2. released' \in [Orders -> [Sellers -> Nat]]
    BY <1>1, <1>5 DEF Inv, TypeOK, OrdersTypeOK, MoveCancel
  <2> QED BY <1>5, <2>1, <2>2, SetSliceTyped
          DEF Inv, TypeOK, OrdersTypeOK, StockInv, MoveCancel, Moving
<1> QED BY <1>3, <1>4, <1>5

LEMMA DeliverKeeps ==
  ASSUME Inv, NEW w \in Workers, DeliverCommit(w)
  PROVE  Inv'
<1>1. /\ task[w].order \in Orders /\ task[w].seller \in Sellers
  BY TaskFields DEF Inv, TypeOK, DeliverCommit
<1>2. StockInv'
  BY StockUnchanged DEF Inv, TypeOK, StockInv, DeliverCommit
<1>3. OrdersTypeOK'
  BY <1>1 DEF Inv, TypeOK, DeliverCommit, OrdersTypeOK, Status
<1> QED BY <1>2, <1>3, FinishTyped DEF Inv, TypeOK, StockInv, DeliverCommit

LEMMA CaptureKeeps ==
  ASSUME Inv, NEW o \in Orders, CapturePayment(o)
  PROVE  Inv'
<1>1. StockInv'
  BY StockUnchanged DEF Inv, TypeOK, StockInv, CapturePayment
<1>2. OrdersTypeOK'
  BY DEF Inv, TypeOK, CapturePayment, OrdersTypeOK
<1> QED BY <1>1, <1>2 DEF Inv, TypeOK, StockInv, CapturePayment

LEMMA AdjustKeeps ==
  ASSUME Inv, NEW w \in Workers, AdjustCommit(w)
  PROVE  Inv'
<1>1. task[w] \in Adjustment /\ task[w].reserved =< task[w].to
  BY TaskFields DEF Inv, TypeOK, AdjustCommit
<1>2. StockInv'
  BY <1>1, OverwriteKeeps DEF Inv, TypeOK, StockInv, AdjustCommit
<1> QED BY <1>2, FinishTyped, OrdersUnchanged DEF Inv, TypeOK, StockInv, AdjustCommit

LEMMA ReadsKeep ==
  ASSUME Inv, NEW w \in Workers, NEW o \in Orders,
         \/ PlaceRead(w, o) \/ CancelRead(w, o) \/ FailRead(w, o) \/ AdminRead(w, o)
  PROVE  Inv'
<1>1. CASE PlaceRead(w, o)
  <2>1. PICK p \in Plans(o) : Start(w, [op |-> "place", order |-> o, plan |-> p])
    BY <1>1 DEF PlaceRead
  <2>2. [op |-> "place", order |-> o, plan |-> p] \in Task
    BY <2>1, PlanQuantities DEF Task, Inv, TypeOK
  <2> QED BY <1>1, <2>1, <2>2, ReadKeeps DEF PlaceRead, Start, Inv, TypeOK
<1>2. CASE CancelRead(w, o)
  <2>1. [op |-> "cancel", order |-> o, open |-> OpenSlices(o)] \in Task
    BY DEF Task, OpenSlices, SellersOf
  <2> QED BY <1>2, <2>1, ReadKeeps DEF CancelRead, Start, Inv, TypeOK
<1>3. CASE FailRead(w, o)
  <2>1. [op |-> "fail", order |-> o, open |-> OpenSlices(o)] \in Task
    BY DEF Task, OpenSlices, SellersOf
  <2> QED BY <1>3, <2>1, ReadKeeps DEF FailRead, Start, Inv, TypeOK
<1>4. CASE AdminRead(w, o)
  <2>1. [op |-> "admin", order |-> o] \in Task
    BY DEF Task
  <2> QED BY <1>4, <2>1, ReadKeeps DEF AdminRead, Start, Inv, TypeOK
<1> QED BY <1>1, <1>2, <1>3, <1>4

LEMMA SliceReadsKeep ==
  ASSUME Inv, NEW w \in Workers, NEW o \in Orders, NEW s \in Sellers, NEW t \in Targets,
         SellerRead(w, o, s, t) \/ CourierRead(w, o, s, t)
  PROVE  Inv'
<1>1. t \in Status
  BY DEF SellerRead, CourierRead, ValidTransition, Transitions, Status
<1>2. CASE SellerRead(w, o, s, t)
  <2>1. [op |-> "move", order |-> o, seller |-> s, target |-> t, by |-> "seller"] \in Task
    BY <1>1 DEF Task
  <2> QED BY <1>2, <2>1, ReadKeeps DEF SellerRead, Start, Inv, TypeOK
<1>3. CASE CourierRead(w, o, s, t)
  <2>1. [op |-> "move", order |-> o, seller |-> s, target |-> t, by |-> "courier"] \in Task
    BY <1>1 DEF Task
  <2> QED BY <1>3, <2>1, ReadKeeps DEF CourierRead, Start, Inv, TypeOK
<1> QED BY <1>2, <1>3

LEMMA AdjustReadKeeps ==
  ASSUME Inv, NEW w \in Workers, NEW r \in Rows, NEW n \in Counts, AdjustRead(w, r, n)
  PROVE  Inv'
<1>1. [op |-> "adjust", row |-> r, onHand |-> onHand[r], reserved |-> reserved[r],
       to |-> n] \in Task
  BY ConstantsOK DEF Inv, TypeOK, StockTypeOK, AdjustRead, Task, Adjustment
<1>2. adjusts' \in Nat
  BY DEF Inv, TypeOK, AdjustRead
<1> QED BY <1>1, <1>2, ReadKeeps DEF AdjustRead, Start

\* A request that ends with nothing written.
LEMMA GiveUpKeeps ==
  ASSUME Inv, NEW w \in Workers, Finish(w), UNCHANGED <<stock, orders, adjusts>>
  PROVE  Inv'
BY FinishTyped, StockUnchanged, OrdersUnchanged DEF Inv, TypeOK, StockInv

LEMMA HandoverKeeps ==
  ASSUME Inv, NEW w \in Workers, AdminFailRead(w) \/ DeliverRead(w)
  PROVE  Inv'
<1>1. CASE AdminFailRead(w)
  <2> DEFINE o == task[w].order
             t == IF Failable(o)
                    THEN [op |-> "fail", order |-> o, open |-> OpenSlices(o)]
                    ELSE Idle
  <2>1. o \in Orders
    BY <1>1, TaskFields DEF AdminFailRead, Inv, TypeOK
  <2>2. t \in Task
    BY <2>1 DEF Task, OpenSlices, SellersOf
  <2> QED BY <1>1, <2>2, ReadKeeps DEF AdminFailRead, Inv, TypeOK
<1>2. CASE DeliverRead(w)
  <2> DEFINE o == task[w].order
             s == task[w].seller
             t == [op |-> "deliver", order |-> o, seller |-> s,
                   all |-> \A z \in SellersOf(o) \ {s} : sub[o][z] = "DELIVERED"]
  <2>1. o \in Orders /\ s \in Sellers
    BY <1>2, TaskFields DEF DeliverRead, Moving, Inv, TypeOK
  <2>2. t \in Task
    BY <2>1 DEF Task
  <2> QED BY <1>2, <2>2, ReadKeeps DEF DeliverRead, Inv, TypeOK
<1> QED BY <1>1, <1>2

LEMMA NextInv == Inv /\ [Next]_vars => Inv'
<1> SUFFICES ASSUME Inv, [Next]_vars PROVE Inv'
  OBVIOUS
<1>1. ASSUME NEW w \in Workers, Placing(w) PROVE Inv'
  BY <1>1, ReadsKeep, PlaceCommitKeeps, GiveUpKeeps DEF Placing, PlaceReplay, PlaceConflict
<1>2. ASSUME NEW w \in Workers, Cancelling(w) PROVE Inv'
  BY <1>2, ReadsKeep, HandoverKeeps, CancelWholeKeeps
     DEF Cancelling, CancelCommit, FailCommit
<1>3. ASSUME NEW w \in Workers, Fulfilling(w) PROVE Inv'
  BY <1>3, SliceReadsKeep, MoveKeeps, HandoverKeeps, DeliverKeeps DEF Fulfilling
<1>4. ASSUME NEW w \in Workers, Adjusting(w) PROVE Inv'
  BY <1>4, AdjustReadKeeps, AdjustKeeps DEF Adjusting
<1>5. ASSUME NEW w \in Workers, Refused(w) \/ Crash(w) PROVE Inv'
  BY <1>5, GiveUpKeeps DEF Refused, Crash
<1>6. ASSUME NEW o \in Orders, CapturePayment(o) PROVE Inv'
  BY <1>6, CaptureKeeps
<1>7. CASE UNCHANGED vars
  BY <1>7, StockUnchanged, OrdersUnchanged DEF vars, Inv, TypeOK, StockInv
<1> QED BY <1>1, <1>2, <1>3, <1>4, <1>5, <1>6, <1>7 DEF Next

\* Whatever the requests and however they interleave, crash or are refused,
\* the counters of a row never go below zero and the tables keep their types.
THEOREM Typing == Spec => []TypeOK
<1>1. Inv => TypeOK
  BY DEF Inv
<1> QED BY <1>1, InitInv, NextInv, PTL DEF Spec

\* The reserved figure of a row is always what its movements say; available
\* and on-hand are too unless an adjustment overwrote a change it missed.
THEOREM Ledger == Spec => []LedgerReplays
<1>1. Inv => LedgerReplays
  BY DEF Inv
<1> QED BY <1>1, InitInv, NextInv, PTL DEF Spec

-----------------------------------------------------------------------------
(***************************************************************************)
(* Payment before fulfilment.  The invariant says it of the slices and of  *)
(* the decisions still to be committed: a capture is never undone, so a    *)
(* request that saw one may be as late as it likes.                        *)
(***************************************************************************)
PaidTask(t) ==
  (t.op = "move" /\ t.target # "CANCELLED") \/ t.op = "deliver" =>
    (t.order \in Prepaid => captured[t.order])

PaidInv ==
  /\ \A o \in Prepaid : pay[o] = "PAID" => captured[o]
  /\ PaidBeforeFulfil
  /\ \A w \in Workers : PaidTask(task[w])

LEMMA PaidInit == Init => PaidInv
BY ConstantsOK DEF Init, PaidInv, PaidBeforeFulfil, PaidTask, Idle

LEMMA PaidTaskStep ==
  ASSUME Inv, PaidInv, NEW w \in Workers, NEW t, PaidTask(t),
         task' = [task EXCEPT ![w] = t], UNCHANGED captured
  PROVE  \A v \in Workers : PaidTask(task[v])'
<1> TAKE v \in Workers
<1>1. task'[v] = IF v = w THEN t ELSE task[v]
  BY DEF Inv, TypeOK
<1> QED BY <1>1 DEF PaidInv, PaidTask

LEMMA PaidFinish ==
  ASSUME Inv, PaidInv, NEW w \in Workers, Finish(w), UNCHANGED captured
  PROVE  \A v \in Workers : PaidTask(task[v])'
<1>1. PaidTask(Idle)
  BY DEF PaidTask, Idle
<1> QED BY <1>1, PaidTaskStep DEF Finish

\* Reading: a move away from PENDING is asked for only once the order is paid,
\* and one from any later status only once it was confirmed.
LEMMA PaidSliceReads ==
  ASSUME Inv, PaidInv, NEW w \in Workers, NEW o \in Orders, NEW s \in Sellers,
         NEW t \in Targets, SellerRead(w, o, s, t) \/ CourierRead(w, o, s, t)
  PROVE  PaidInv'
<1>1. PICK by \in {"seller", "courier"} :
        Start(w, [op |-> "move", order |-> o, seller |-> s, target |-> t, by |-> by])
  BY DEF SellerRead, CourierRead
<1>2. t # "CANCELLED" /\ o \in Prepaid => captured[o]
  <2>1. CASE SellerRead(w, o, s, t)
    BY <2>1 DEF SellerRead, PaidInv
  <2>2. CASE CourierRead(w, o, s, t)
    <3>1. sub[o][s] \in {"CONFIRMED", "PACKED", "SHIPPED", "DELIVERED", "REFUNDED"}
          \/ sub[o][s] = "CANCELLED"
      BY <2>2 DEF CourierRead, ValidTransition, Status
    <3>2. sub[o][s] # "CANCELLED"
      BY <2>2 DEF CourierRead, ValidTransition, Transitions
    <3> QED BY <3>1, <3>2 DEF PaidInv, PaidBeforeFulfil
  <2> QED BY <2>1, <2>2
<1>3. \A v \in Workers : PaidTask(task[v])'
  BY <1>1, <1>2, PaidTaskStep DEF Start, PaidTask, SellerRead, CourierRead, orders
<1> QED BY <1>3 DEF SellerRead, CourierRead, PaidInv, PaidBeforeFulfil, orders

LEMMA PaidOtherReads ==
  ASSUME Inv, PaidInv, NEW w \in Workers, NEW t, PaidTask(t),
         task' = [task EXCEPT ![w] = t], UNCHANGED orders
  PROVE  PaidInv'
BY PaidTaskStep DEF PaidInv, PaidBeforeFulfil, orders

LEMMA PaidDeliverRead ==
  ASSUME Inv, PaidInv, NEW w \in Workers, DeliverRead(w)
  PROVE  PaidInv'
<1> DEFINE o == task[w].order
           t == [op |-> "deliver", order |-> o, seller |-> task[w].seller,
                 all |-> \A z \in SellersOf(o) \ {task[w].seller} :
                           sub[o][z] = "DELIVERED"]
<1>1. PaidTask(t)
  BY DEF PaidInv, PaidTask, DeliverRead, Moving, Doing
<1> QED BY <1>1, PaidOtherReads DEF DeliverRead

\* Writing: a slice takes the status its task was given when the order had
\* been paid for, or is set to PENDING or CANCELLED.
LEMMA PaidPlace ==
  ASSUME Inv, PaidInv, NEW w \in Workers, PlaceCommit(w)
  PROVE  PaidInv'
<1>1. task[w].order \in Orders
  BY TaskFields DEF Inv, TypeOK, PlaceCommit
<1>2. UNCHANGED captured /\ Finish(w)
  BY DEF PlaceCommit
<1>3. \A o \in Prepaid : pay'[o] = "PAID" => captured'[o]
  BY <1>1, <1>2, ConstantsOK DEF PlaceCommit, PaidInv, Inv, TypeOK, OrdersTypeOK
<1>4. PaidBeforeFulfil'
  BY <1>1, <1>2, ConstantsOK
     DEF PlaceCommit, PaidInv, PaidBeforeFulfil, Inv, TypeOK, OrdersTypeOK
<1> QED BY <1>2, <1>3, <1>4, PaidFinish DEF PaidInv

LEMMA PaidCancel ==
  ASSUME Inv, PaidInv, NEW w \in Workers, CancelCommit(w) \/ FailCommit(w)
  PROVE  PaidInv'
<1>1. task[w].order \in Orders
  BY TaskFields DEF Inv, TypeOK, CancelCommit, FailCommit
<1>2. UNCHANGED captured /\ Finish(w)
  BY DEF CancelCommit, FailCommit, CancelWhole
<1>3. \A o \in Prepaid : pay'[o] = "PAID" => captured'[o]
  BY <1>1, <1>2, ConstantsOK
     DEF CancelCommit, FailCommit, CancelWhole, PaidInv, Inv, TypeOK, OrdersTypeOK
<1>4. \A o \in Orders, s \in Sellers : sub'[o][s] \in {sub[o][s], "CANCELLED"}
  <2>1. sub' = [sub EXCEPT ![task[w].order] =
                  [s \in Sellers |-> IF s \in task[w].open THEN "CANCELLED" ELSE @[s]]]
    BY DEF CancelCommit, FailCommit, CancelWhole
  <2> QED BY <1>1, <2>1 DEF Inv, TypeOK, OrdersTypeOK
<1>5. PaidBeforeFulfil'
  BY <1>2, <1>4, ConstantsOK DEF PaidInv, PaidBeforeFulfil
<1> QED BY <1>2, <1>3, <1>5, PaidFinish DEF PaidInv

LEMMA PaidMove ==
  ASSUME Inv, PaidInv, NEW w \in Workers, Doing(w, "move"), SetSlice(w)
  PROVE  PaidInv'
<1>1. task[w].order \in Orders /\ task[w].seller \in Sellers
  BY TaskFields DEF Inv, TypeOK
<1>2. UNCHANGED <<captured, pay>> /\ Finish(w)
  BY DEF SetSlice
<1>3. PaidBeforeFulfil'
  <2> SUFFICES ASSUME NEW o \in Prepaid, NEW s \in Sellers,
                      sub'[o][s] \in {"CONFIRMED", "PACKED", "SHIPPED",
                                      "DELIVERED", "REFUNDED"}
               PROVE  captured[o]
    BY <1>2 DEF PaidBeforeFulfil
  <2>1. CASE o = task[w].order /\ s = task[w].seller
    <3>1. sub'[o][s] = task[w].target
      BY <1>1, <2>1 DEF SetSlice, Inv, TypeOK, OrdersTypeOK
    <3> QED BY <2>1, <3>1 DEF PaidInv, PaidTask, Doing
  <2>2. CASE ~(o = task[w].order /\ s = task[w].seller)
    <3>1. sub'[o][s] = sub[o][s]
      BY <1>1, <2>2, ConstantsOK DEF SetSlice, Inv, TypeOK, OrdersTypeOK
    <3> QED BY <3>1 DEF PaidInv, PaidBeforeFulfil
  <2> QED BY <2>1, <2>2
<1> QED BY <1>2, <1>3, PaidFinish DEF PaidInv

LEMMA PaidDeliver ==
  ASSUME Inv, PaidInv, NEW w \in Workers, DeliverCommit(w)
  PROVE  PaidInv'
<1>1. /\ task[w].order \in Orders /\ task[w].seller \in Sellers
      /\ task[w].order \in Prepaid => captured[task[w].order]
  BY TaskFields DEF Inv, TypeOK, DeliverCommit, PaidInv, PaidTask, Doing
<1>2. UNCHANGED <<captured, pay>> /\ Finish(w)
  BY DEF DeliverCommit
<1>3. PaidBeforeFulfil'
  BY <1>1, <1>2, ConstantsOK
     DEF DeliverCommit, PaidInv, PaidBeforeFulfil, Inv, TypeOK, OrdersTypeOK
<1> QED BY <1>2, <1>3, PaidFinish DEF PaidInv

LEMMA PaidCapture ==
  ASSUME Inv, PaidInv, NEW o \in Orders, CapturePayment(o)
  PROVE  PaidInv'
<1>1. \A x \in Orders : captured'[x] = (captured[x] \/ x = o)
  BY DEF CapturePayment, Inv, TypeOK, OrdersTypeOK
<1>2. \A x \in Orders : pay'[x] = "PAID" => x = o \/ pay[x] = "PAID"
  BY DEF CapturePayment, Inv, TypeOK, OrdersTypeOK
<1> QED BY <1>1, <1>2, ConstantsOK
        DEF CapturePayment, PaidInv, PaidBeforeFulfil, PaidTask

LEMMA PaidUnwritten ==
  ASSUME Inv, PaidInv, NEW w \in Workers, Finish(w), UNCHANGED orders
  PROVE  PaidInv'
BY PaidFinish DEF PaidInv, PaidBeforeFulfil, orders

LEMMA PaidNext == Inv /\ PaidInv /\ [Next]_vars => PaidInv'
<1> SUFFICES ASSUME Inv, PaidInv, [Next]_vars PROVE PaidInv'
  OBVIOUS
<1>1. ASSUME NEW w \in Workers, Placing(w) PROVE PaidInv'
  <2>1. ASSUME NEW o \in Orders, PlaceRead(w, o) PROVE PaidInv'
    BY <2>1, PaidOtherReads DEF PlaceRead, Start, PaidTask
  <2> QED BY <1>1, <2>1, PaidPlace, PaidUnwritten DEF Placing, PlaceReplay, PlaceConflict
<1>2. ASSUME NEW w \in Workers, Cancelling(w) PROVE PaidInv'
  <2>1. ASSUME NEW o \in Orders, CancelRead(w, o) \/ FailRead(w, o) \/ AdminRead(w, o)
        PROVE  PaidInv'
    BY <2>1, PaidOtherReads DEF CancelRead, FailRead, AdminRead, Start, PaidTask
  <2>2. ASSUME AdminFailRead(w) PROVE PaidInv'
    <3> DEFINE t == IF Failable(task[w].order)
                      THEN [op |-> "fail", order |-> task[w].order,
                            open |-> OpenSlices(task[w].order)]
                      ELSE Idle
    <3>1. PaidTask(t)
      BY DEF PaidTask, Idle
    <3> QED BY <2>2, <3>1, PaidOtherReads DEF AdminFailRead
  <2> QED BY <1>2, <2>1, <2>2, PaidCancel DEF Cancelling
<1>3. ASSUME NEW w \in Workers, Fulfilling(w) PROVE PaidInv'
  BY <1>3, PaidSliceReads, PaidMove, PaidDeliverRead, PaidDeliver
     DEF Fulfilling, MoveForward, MoveShip, MoveCancel, Moving
<1>4. ASSUME NEW w \in Workers, Adjusting(w) PROVE PaidInv'
  <2>1. ASSUME NEW r \in Rows, NEW n \in Counts, AdjustRead(w, r, n) PROVE PaidInv'
    BY <2>1, PaidOtherReads DEF AdjustRead, Start, PaidTask
  <2> QED BY <1>4, <2>1, PaidUnwritten DEF Adjusting, AdjustCommit
<1>5. ASSUME NEW w \in Workers, Refused(w) \/ Crash(w) PROVE PaidInv'
  BY <1>5, PaidUnwritten DEF Refused, Crash
<1>6. ASSUME NEW o \in Orders, CapturePayment(o) PROVE PaidInv'
  BY <1>6, PaidCapture
<1>7. CASE UNCHANGED vars
  BY <1>7 DEF vars, orders, PaidInv, PaidBeforeFulfil, PaidTask
<1> QED BY <1>1, <1>2, <1>3, <1>4, <1>5, <1>6, <1>7 DEF Next

\* No seller's and no courier's step, however late, takes a slice of a prepaid
\* order past PENDING unless its payment was captured.
THEOREM PaidFirst == Spec => []PaidBeforeFulfil
<1>1. Inv /\ PaidInv => PaidBeforeFulfil
  BY DEF PaidInv
<1> QED BY <1>1, InitInv, NextInv, PaidInit, PaidNext, PTL DEF Spec

-----------------------------------------------------------------------------
\* The rows of a seller's warehouses.
OwnRows(s) == {r \in Rows : StoreOf[r] = s}

\* A plan or a movement that gives every slice its whole demand.
Fills(p, o) == \A s \in Sellers : SumFunctionOnSet(p, OwnRows(s)) = Demand[o][s]

\* What a request knows of the order it read: its plan fills the order, an order it
\* cancels or moves was placed, and the slices it names are slices of the order.
PlacedTask(t) ==
  /\ t.op = "place" => Fills(t.plan, t.order)
  /\ t.op \in {"cancel", "fail", "admin", "move", "deliver"} => parent[t.order] # "NONE"
  /\ t.op \in {"cancel", "fail"} => t.open \subseteq SellersOf(t.order)
  /\ t.op \in {"move", "deliver"} => t.seller \in SellersOf(t.order)

\* An order that was not placed has moved nothing and has no slice;
Unplaced(o) ==
  /\ \A r \in Rows : moved[o][r] = 0
  /\ \A s \in Sellers : sub[o][s] = "NONE" /\ released[o][s] = 0 /\ shipped[o][s] = 0

\* a placed one was filled whole and has exactly its sellers' slices.
Placed(o) ==
  /\ Fills(moved[o], o)
  /\ \A s \in Sellers : sub[o][s] # "NONE" <=> s \in SellersOf(o)

\* The invariant that makes PlacedEntirely inductive.
PlacedInv ==
  /\ \A o \in Orders : IF parent[o] = "NONE" THEN Unplaced(o) ELSE Placed(o)
  /\ \A w \in Workers : PlacedTask(task[w])

\* It holds first.
LEMMA PlacedInit == Init => PlacedInv
BY DEF Init, PlacedInv, Unplaced, PlacedTask, Idle, Nothing

\* The rows of a seller are finitely many.
LEMMA OwnFinite == \A s : IsFiniteSet(OwnRows(s))
<1>1. IsFiniteSet(Rows) /\ \A s : OwnRows(s) \in SUBSET Rows
  BY ConstantsOK DEF OwnRows
<1> QED BY <1>1, FS_Subset

\* It implies what the runs check.
LEMMA PlacedMeans == Inv /\ PlacedInv => PlacedEntirely
<1> SUFFICES ASSUME Inv, PlacedInv, NEW o \in Orders, NEW s \in Sellers
             PROVE  /\ (sub[o][s] # "NONE") <=> (parent[o] # "NONE" /\ Demand[o][s] > 0)
                    /\ SumFunctionOnSet(moved[o], OwnRows(s)) =
                         IF parent[o] = "NONE" THEN 0 ELSE Demand[o][s]
  BY DEF PlacedEntirely, OwnRows
<1>1. CASE parent[o] = "NONE"
  <2>1. Unplaced(o)
    BY <1>1 DEF PlacedInv
  <2>2. \A r \in OwnRows(s) : moved[o][r] = 0
    BY <2>1 DEF Unplaced, OwnRows
  <2>3. SumFunctionOnSet(moved[o], OwnRows(s)) = 0
    BY <2>2, OwnFinite, SumZero
  <2> QED BY <1>1, <2>1, <2>3 DEF Unplaced
<1>2. CASE parent[o] # "NONE"
  BY <1>2 DEF PlacedInv, Placed, Fills, SellersOf
<1> QED BY <1>1, <1>2

\* Every task that names an order names one of them.
LEMMA TaskOrder ==
  ASSUME NEW t \in Task, t.op \in {"place", "cancel", "fail", "admin", "move", "deliver"}
  PROVE  t.order \in Orders
BY DEF Task, Idle, Adjustment

\* A request's next task leaves the other requests' as they were.
LEMMA PlacedTurn ==
  ASSUME Inv, PlacedInv, NEW w \in Workers, NEW t \in Task, task' = [task EXCEPT ![w] = t],
         PlacedTask(t), \A o \in Orders : parent[o] # "NONE" => parent'[o] # "NONE"
  PROVE  \A v \in Workers : PlacedTask(task[v])'
<1> SUFFICES ASSUME NEW v \in Workers PROVE PlacedTask(task[v])'
  OBVIOUS
<1>1. PICK u \in Task : u = task'[v] /\ PlacedTask(u)
  BY DEF Inv, TypeOK, PlacedInv
<1>2. PlacedTask(u)'
  BY <1>1, TaskOrder DEF PlacedTask, Fills
<1> QED BY <1>1, <1>2

\* A step that only reads keeps the invariant when what it read is so.
LEMMA PlacedRead ==
  ASSUME Inv, PlacedInv, NEW w \in Workers, NEW t \in Task, task' = [task EXCEPT ![w] = t],
         PlacedTask(t), UNCHANGED orders
  PROVE  PlacedInv'
<1>1. UNCHANGED <<moved, released, shipped, parent, sub>>
  BY DEF orders
<1>2. \A v \in Workers : PlacedTask(task[v])'
  BY <1>1, PlacedTurn
<1> QED BY <1>1, <1>2 DEF PlacedInv, Unplaced, Placed

\* A request that ends keeps its part,
LEMMA PlacedEnd ==
  ASSUME Inv, PlacedInv, NEW w \in Workers, Finish(w),
         \A o \in Orders : parent[o] # "NONE" => parent'[o] # "NONE"
  PROVE  \A v \in Workers : PlacedTask(task[v])'
<1>1. Idle \in Task /\ PlacedTask(Idle)
  BY DEF Task, Idle, PlacedTask
<1> QED BY <1>1, PlacedTurn DEF Finish

\* A commit on a placed order that opens no other.
LEMMA PlacedWrite ==
  ASSUME Inv, PlacedInv, UNCHANGED moved, NEW o \in Orders, parent[o] # "NONE",
         parent'[o] # "NONE",
         \A x \in Orders \ {o} : /\ parent'[x] = parent[x] /\ sub'[x] = sub[x]
                                 /\ released'[x] = released[x] /\ shipped'[x] = shipped[x],
         \A s \in Sellers : sub'[o][s] # "NONE" <=> sub[o][s] # "NONE",
         \A v \in Workers : PlacedTask(task[v])'
  PROVE  PlacedInv'
<1> SUFFICES ASSUME NEW x \in Orders
             PROVE  IF parent'[x] = "NONE" THEN Unplaced(x)' ELSE Placed(x)'
  BY DEF PlacedInv
<1>1. CASE x = o
  BY <1>1 DEF PlacedInv, Placed, Fills, SellersOf
<1>2. CASE x # o
  BY <1>2 DEF PlacedInv, Unplaced, Placed, Fills, SellersOf
<1> QED BY <1>1, <1>2

\* The reads of placement, cancellation and the administrator,
LEMMA PlacedReads ==
  ASSUME Inv, PlacedInv, NEW w \in Workers, NEW o \in Orders,
         \/ PlaceRead(w, o) \/ CancelRead(w, o) \/ FailRead(w, o) \/ AdminRead(w, o)
  PROVE  PlacedInv'
<1>1. CASE PlaceRead(w, o)
  <2>1. PICK p \in Plans(o) : Start(w, [op |-> "place", order |-> o, plan |-> p])
    BY <1>1 DEF PlaceRead
  <2>2. PICK t : t = [op |-> "place", order |-> o, plan |-> p]
    OBVIOUS
  <2>3. t \in Task
    BY <2>1, <2>2, PlanQuantities DEF Task, Inv, TypeOK
  <2>4. PlacedTask(t)
    BY <2>2 DEF Plans, PlacedTask, Fills, OwnRows
  <2> QED BY <1>1, <2>1, <2>2, <2>3, <2>4, PlacedRead DEF PlaceRead, Start
<1>2. ASSUME NEW op \in {"cancel", "fail"}, parent[o] # "NONE", UNCHANGED orders,
             Start(w, [op |-> op, order |-> o, open |-> OpenSlices(o)])
      PROVE  PlacedInv'
  <2>1. PICK t : t = [op |-> op, order |-> o, open |-> OpenSlices(o)]
    OBVIOUS
  <2>2. t \in Task /\ PlacedTask(t)
    BY <1>2, <2>1 DEF Task, OpenSlices, SellersOf, PlacedTask
  <2> QED BY <1>2, <2>1, <2>2, PlacedRead DEF Start
<1>3. CASE AdminRead(w, o)
  <2>1. PICK t : t = [op |-> "admin", order |-> o]
    OBVIOUS
  <2>2. t \in Task /\ PlacedTask(t)
    BY <1>3, <2>1 DEF Task, PlacedTask, AdminRead
  <2> QED BY <1>3, <2>1, <2>2, PlacedRead DEF AdminRead, Start
<1> QED BY <1>1, <1>2, <1>3 DEF CancelRead, FailRead, Failable

\* the reads of a seller and of the courier,
LEMMA PlacedSliceReads ==
  ASSUME Inv, PlacedInv, NEW w \in Workers, NEW o \in Orders, NEW s \in Sellers,
         NEW t \in Targets, SellerRead(w, o, s, t) \/ CourierRead(w, o, s, t)
  PROVE  PlacedInv'
<1>1. PICK by \in {"seller", "courier"} :
        Start(w, [op |-> "move", order |-> o, seller |-> s, target |-> t, by |-> by])
  BY DEF SellerRead, CourierRead
<1>2. PICK u : u = [op |-> "move", order |-> o, seller |-> s, target |-> t, by |-> by]
  OBVIOUS
<1>3. sub[o][s] # "NONE" /\ t \in Status
  BY DEF SellerRead, CourierRead, ValidTransition, Status, Transitions
<1>4. parent[o] # "NONE" /\ s \in SellersOf(o)
  BY <1>3 DEF PlacedInv, Unplaced, Placed
<1>5. u \in Task
  BY <1>2, <1>3 DEF Task
<1>6. PlacedTask(u)
  BY <1>2, <1>4 DEF PlacedTask
<1>7. UNCHANGED orders
  BY DEF SellerRead, CourierRead
<1> QED BY <1>1, <1>2, <1>5, <1>6, <1>7, PlacedRead DEF Start

\* the second reads of a payment failure and of a delivery,
LEMMA PlacedHandover ==
  ASSUME Inv, PlacedInv, NEW w \in Workers, AdminFailRead(w) \/ DeliverRead(w)
  PROVE  PlacedInv'
<1> DEFINE o == task[w].order
<1>0. PlacedTask(task[w])
  BY DEF PlacedInv
<1>1. CASE AdminFailRead(w)
  <2>1. PICK t : t = IF Failable(o) THEN [op |-> "fail", order |-> o, open |-> OpenSlices(o)]
                                    ELSE Idle
    OBVIOUS
  <2>2. o \in Orders
    BY <1>1, TaskFields DEF AdminFailRead, Inv, TypeOK
  <2>3. t \in Task
    BY <2>1, <2>2 DEF Task, OpenSlices, SellersOf
  <2>4. PlacedTask(t)
    BY <2>1 DEF PlacedTask, Idle, OpenSlices, Failable
  <2> QED BY <1>1, <2>1, <2>3, <2>4, PlacedRead DEF AdminFailRead
<1>2. CASE DeliverRead(w)
  <2>1. PICK t, all : /\ t = [op |-> "deliver", order |-> o, seller |-> task[w].seller,
                              all |-> all]
                      /\ all = \A z \in SellersOf(o) \ {task[w].seller} :
                                 sub[o][z] = "DELIVERED"
    OBVIOUS
  <2>2. o \in Orders /\ task[w].seller \in Sellers /\ task[w].op = "move"
    BY <1>2, TaskFields DEF DeliverRead, Moving, Inv, TypeOK, Doing
  <2>3. t \in Task
    BY <2>1, <2>2 DEF Task
  <2>4. PlacedTask(t)
    BY <1>0, <2>1, <2>2 DEF PlacedTask
  <2> QED BY <1>2, <2>1, <2>3, <2>4, PlacedRead DEF DeliverRead
<1> QED BY <1>1, <1>2

\* the commit of a placement,
LEMMA PlacedCommit ==
  ASSUME Inv, PlacedInv, NEW w \in Workers, PlaceCommit(w)
  PROVE  PlacedInv'
<1>0. PICK o, p : o = task[w].order /\ p = task[w].plan
  OBVIOUS
<1>1. o \in Orders /\ p \in Quantities /\ Fills(p, o) /\ Finish(w)
  BY <1>0, TaskFields DEF Inv, TypeOK, PlaceCommit, PlacedInv, PlacedTask, Doing
<1>2. /\ moved'[o] = p /\ parent'[o] = "PENDING"
      /\ \A s \in Sellers : sub'[o][s] = IF s \in SellersOf(o) THEN "PENDING" ELSE "NONE"
      /\ \A x \in Orders \ {o} : moved'[x] = moved[x] /\ parent'[x] = parent[x]
                                 /\ sub'[x] = sub[x]
      /\ UNCHANGED <<released, shipped>>
  BY <1>0, <1>1 DEF Inv, TypeOK, OrdersTypeOK, PlaceCommit
<1>3. \A v \in Workers : PlacedTask(task[v])'
  BY <1>1, <1>2, PlacedEnd
<1>4. Placed(o)'
  <2>1. Fills(moved[o], o)'
    BY <1>1, <1>2 DEF Fills
  <2>2. \A s \in Sellers : sub'[o][s] # "NONE" <=> s \in SellersOf(o)
    BY <1>2
  <2> QED BY <2>1, <2>2 DEF Placed, SellersOf
<1>5. \A x \in Orders \ {o} : IF parent'[x] = "NONE" THEN Unplaced(x)' ELSE Placed(x)'
  BY <1>2 DEF PlacedInv, Unplaced, Placed, Fills, SellersOf
<1>6. parent'[o] # "NONE"
  BY <1>2
<1> QED BY <1>3, <1>4, <1>5, <1>6 DEF PlacedInv

\* of a cancellation,
LEMMA PlacedCancel ==
  ASSUME Inv, PlacedInv, NEW w \in Workers, CancelCommit(w) \/ FailCommit(w)
  PROVE  PlacedInv'
<1> DEFINE o == task[w].order
<1>1. /\ o \in Orders /\ parent[o] # "NONE" /\ task[w].open \subseteq SellersOf(o)
      /\ CancelWhole(w) /\ Finish(w) /\ UNCHANGED <<moved, shipped>>
  BY TaskFields DEF Inv, TypeOK, CancelCommit, FailCommit, CancelWhole, PlacedInv, PlacedTask,
                    Doing
<1>2. /\ parent'[o] = "CANCELLED"
      /\ \A x \in Orders \ {o} : /\ parent'[x] = parent[x] /\ sub'[x] = sub[x]
                                 /\ released'[x] = released[x]
  BY <1>1 DEF Inv, TypeOK, OrdersTypeOK, CancelWhole
<1>3. \A s \in Sellers : sub'[o][s] = IF s \in task[w].open THEN "CANCELLED" ELSE sub[o][s]
  BY <1>1 DEF Inv, TypeOK, OrdersTypeOK, CancelWhole
<1>4. \A s \in Sellers : sub'[o][s] # "NONE" <=> sub[o][s] # "NONE"
  BY <1>1, <1>3 DEF PlacedInv, Placed
<1>5. \A v \in Workers : PlacedTask(task[v])'
  BY <1>1, <1>2, PlacedEnd
<1> QED BY <1>1, <1>2, <1>4, <1>5, PlacedWrite

\* of a slice's move in general,
LEMMA PlacedSlice ==
  ASSUME Inv, PlacedInv, NEW w \in Workers, Doing(w, "move") \/ Doing(w, "deliver"),
         NEW st \in Status, Finish(w), UNCHANGED moved,
         sub' = [sub EXCEPT ![task[w].order][task[w].seller] = st],
         NEW f \in {parent[task[w].order], "DELIVERED"},
         parent' = [parent EXCEPT ![task[w].order] = f],
         \A x \in Orders : x # task[w].order =>
           released'[x] = released[x] /\ shipped'[x] = shipped[x]
  PROVE  PlacedInv'
<1> DEFINE o == task[w].order
           s == task[w].seller
<1>1. o \in Orders /\ s \in SellersOf(o) /\ s \in Sellers /\ parent[o] # "NONE"
  BY TaskFields DEF Inv, TypeOK, PlacedInv, PlacedTask, Doing
<1>2. /\ parent'[o] = f /\ f # "NONE"
      /\ \A x \in Orders \ {o} : parent'[x] = parent[x] /\ sub'[x] = sub[x]
  BY <1>1 DEF Inv, TypeOK, OrdersTypeOK
<1>3. \A z \in Sellers : sub'[o][z] = IF z = s THEN st ELSE sub[o][z]
  BY <1>1 DEF Inv, TypeOK, OrdersTypeOK
<1>4. \A z \in Sellers : sub'[o][z] # "NONE" <=> sub[o][z] # "NONE"
  BY <1>1, <1>3 DEF PlacedInv, Placed, Status
<1>5. \A v \in Workers : PlacedTask(task[v])'
  BY <1>2, PlacedEnd
<1> QED BY <1>1, <1>2, <1>4, <1>5, PlacedWrite

\* and of each of them,
LEMMA PlacedFulfil ==
  ASSUME Inv, PlacedInv, NEW w \in Workers,
         MoveForward(w) \/ MoveShip(w) \/ MoveCancel(w) \/ DeliverCommit(w)
  PROVE  PlacedInv'
<1> DEFINE o == task[w].order
<1>1. o \in Orders /\ parent = [parent EXCEPT ![o] = parent[o]] /\ OrdersTypeOK
  BY TaskFields DEF Inv, TypeOK, OrdersTypeOK, MoveForward, MoveShip, MoveCancel, Moving,
                    DeliverCommit
<1>2. CASE DeliverCommit(w)
  <2>1. /\ Doing(w, "deliver") /\ "DELIVERED" \in Status /\ Finish(w)
        /\ UNCHANGED <<moved, released, shipped>>
        /\ sub' = [sub EXCEPT ![o][task[w].seller] = "DELIVERED"]
    BY <1>2 DEF DeliverCommit, Status
  <2>2. PICK f \in {parent[o], "DELIVERED"} : parent' = [parent EXCEPT ![o] = f]
    BY <1>2 DEF DeliverCommit
  <2> QED BY <2>1, <2>2, PlacedSlice
<1>3. ASSUME Doing(w, "move"), SetSlice(w),
             \A x \in Orders : x # o => released'[x] = released[x] /\ shipped'[x] = shipped[x]
      PROVE  PlacedInv'
  <2>1. task[w].target \in Status /\ UNCHANGED <<moved, parent>> /\ Finish(w)
        /\ sub' = [sub EXCEPT ![o][task[w].seller] = task[w].target]
    BY <1>3, TaskFields DEF Inv, TypeOK, SetSlice
  <2> QED BY <1>1, <1>3, <2>1, PlacedSlice
<1>4. CASE MoveForward(w)
  BY <1>3, <1>4 DEF MoveForward, Moving
<1>5. CASE MoveShip(w)
  BY <1>1, <1>3, <1>5 DEF MoveShip, Moving, OrdersTypeOK
<1>6. CASE MoveCancel(w)
  BY <1>1, <1>3, <1>6 DEF MoveCancel, Moving, OrdersTypeOK
<1> QED BY <1>2, <1>4, <1>5, <1>6

\* a request that ends without writing,
LEMMA PlacedUnwritten ==
  ASSUME Inv, PlacedInv, NEW w \in Workers, Finish(w), UNCHANGED orders
  PROVE  PlacedInv'
<1>1. Idle \in Task /\ PlacedTask(Idle)
  BY DEF Task, Idle, PlacedTask
<1> QED BY <1>1, PlacedRead DEF Finish

\* and a step that leaves the orders alone: all keep it.
LEMMA PlacedStill ==
  ASSUME PlacedInv, UNCHANGED <<moved, released, shipped, parent, sub, task>>
  PROVE  PlacedInv'
BY DEF PlacedInv, Unplaced, Placed, Fills, SellersOf, PlacedTask

\* So every step does.
LEMMA PlacedNext == Inv /\ PlacedInv /\ [Next]_vars => PlacedInv'
<1> SUFFICES ASSUME Inv, PlacedInv, [Next]_vars PROVE PlacedInv'
  OBVIOUS
<1>1. ASSUME NEW w \in Workers, Placing(w) PROVE PlacedInv'
  BY <1>1, PlacedReads, PlacedCommit, PlacedUnwritten DEF Placing, PlaceReplay, PlaceConflict
<1>2. ASSUME NEW w \in Workers, Cancelling(w) PROVE PlacedInv'
  BY <1>2, PlacedReads, PlacedHandover, PlacedCancel DEF Cancelling
<1>3. ASSUME NEW w \in Workers, Fulfilling(w) PROVE PlacedInv'
  BY <1>3, PlacedSliceReads, PlacedFulfil, PlacedHandover DEF Fulfilling
<1>4. ASSUME NEW w \in Workers, Adjusting(w) PROVE PlacedInv'
  <2>1. ASSUME NEW r \in Rows, NEW n \in Counts, AdjustRead(w, r, n) PROVE PlacedInv'
    <3>1. PICK t : t = [op |-> "adjust", row |-> r, onHand |-> onHand[r],
                        reserved |-> reserved[r], to |-> n]
      OBVIOUS
    <3>2. t \in Task
      BY <2>1, <3>1, ConstantsOK DEF Inv, TypeOK, StockTypeOK, AdjustRead, Task, Adjustment
    <3>3. PlacedTask(t)
      BY <3>1 DEF PlacedTask
    <3> QED BY <2>1, <3>1, <3>2, <3>3, PlacedRead DEF AdjustRead, Start
  <2> QED BY <1>4, <2>1, PlacedUnwritten DEF Adjusting, AdjustCommit
<1>5. ASSUME NEW w \in Workers, Refused(w) \/ Crash(w) PROVE PlacedInv'
  BY <1>5, PlacedUnwritten DEF Refused, Crash
<1>6. ASSUME NEW o \in Orders, CapturePayment(o) PROVE PlacedInv'
  BY <1>6, PlacedStill DEF CapturePayment
<1>7. CASE UNCHANGED vars
  BY <1>7, PlacedStill DEF vars, orders
<1> QED BY <1>1, <1>2, <1>3, <1>4, <1>5, <1>6, <1>7 DEF Next

\* Whatever requests run together, a placed order has a slice for exactly the sellers
\* it buys from, and each slice took its whole demand from that seller's warehouses.
THEOREM PlacedWhole == Spec => []PlacedEntirely
BY InitInv, NextInv, PlacedInit, PlacedNext, PlacedMeans, PTL DEF Spec

-----------------------------------------------------------------------------
(***************************************************************************)
(* Reservations by slice.                                                  *)
(***************************************************************************)
\* A seller of whom nothing is asked gives nothing.
LEMMA NothingAsked ==
  ASSUME NEW p \in Quantities, NEW o \in Orders, Fills(p, o), NEW r \in Rows,
         StoreOf[r] \notin SellersOf(o)
  PROVE  p[r] = 0
<1>1. PICK s : s = StoreOf[r]
  OBVIOUS
<1>2. s \in Sellers /\ Demand[o][s] = 0
  BY <1>1, ConstantsOK DEF SellersOf
<1>3. r \in OwnRows(s) /\ \A x \in OwnRows(s) : p[x] \in Nat
  BY <1>1 DEF OwnRows, Quantities
<1>4. SumFunctionOnSet(p, OwnRows(s)) = p[r] + SumFunctionOnSet(p, OwnRows(s) \ {r})
  BY <1>3, OwnFinite, SumRemove
<1>5. SumFunctionOnSet(p, OwnRows(s) \ {r}) \in Nat
  <2>1. IsFiniteSet(OwnRows(s) \ {r}) /\ \A x \in OwnRows(s) \ {r} : p[x] \in Nat
    BY <1>3, OwnFinite, FS_RemoveElement
  <2> QED BY <2>1, SumNat
<1>6. SumFunctionOnSet(p, OwnRows(s)) = 0
  BY <1>2 DEF Fills
<1> QED BY <1>3, <1>4, <1>5, <1>6

\* What an order holds on a row is a number.
LEMMA HeldInt ==
  ASSUME OrdersTypeOK, NEW r \in Rows, NEW o \in Orders
  PROVE  /\ moved[o][r] \in Nat /\ released[o][StoreOf[r]] \in Nat
         /\ shipped[o][StoreOf[r]] \in Nat /\ StoreOf[r] \in Sellers
         /\ Held(r)[o] = moved[o][r] * (1 - released[o][StoreOf[r]] - shipped[o][StoreOf[r]])
         /\ Held(r)[o] \in Int
<1>1. /\ StoreOf[r] \in Sellers /\ moved[o][r] \in Nat
      /\ released[o][StoreOf[r]] \in Nat /\ shipped[o][StoreOf[r]] \in Nat
  BY ConstantsOK DEF OrdersTypeOK, Quantities
<1>2. \A m, x, y \in Nat : m * (1 - x - y) \in Int
  OBVIOUS
<1> QED BY <1>1, <1>2 DEF Held

\* A step that changes what one order holds of a row by as much as is reserved of it.
LEMMA HeldChange ==
  ASSUME Inv, Inv', ReservationsBySlice, NEW o \in Orders,
         \A r \in Rows : /\ Held(r)'[o] - Held(r)[o] = reserved'[r] - reserved[r]
                         /\ \A x \in Orders \ {o} : Held(r)'[x] = Held(r)[x]
  PROVE  ReservationsBySlice'
<1> SUFFICES ASSUME NEW r \in Rows
             PROVE  reserved'[r] = SumFunctionOnSet(Held(r), Orders)'
  BY DEF ReservationsBySlice
<1>1. PICK f, g, n, m :
        f = Held(r) /\ g = Held(r)' /\ n = reserved[r] /\ m = reserved'[r]
  OBVIOUS
<1>2. /\ n \in Nat /\ m \in Nat /\ n = SumFunctionOnSet(f, Orders)
      /\ g[o] - f[o] = m - n /\ \A x \in Orders \ {o} : g[x] = f[x]
  BY <1>1 DEF Inv, TypeOK, StockTypeOK, ReservationsBySlice
<1>3. \A x \in Orders : f[x] \in Int
  BY <1>1, HeldInt DEF Inv, TypeOK
<1>4. \A x \in Orders : g[x] \in Int
  <2> SUFFICES ASSUME NEW x \in Orders PROVE Held(r)'[x] \in Int
    BY <1>1
  <2>1. /\ StoreOf[r] \in Sellers /\ moved'[x][r] \in Nat
        /\ released'[x][StoreOf[r]] \in Nat /\ shipped'[x][StoreOf[r]] \in Nat
    BY ConstantsOK DEF Inv, TypeOK, OrdersTypeOK, Quantities
  <2>2. \A a, b, c \in Nat : a * (1 - b - c) \in Int
    OBVIOUS
  <2> QED BY <2>1, <2>2 DEF Held
<1>5. PICK rest : rest = Orders \ {o}
  OBVIOUS
<1>6. IsFiniteSet(Orders) /\ IsFiniteSet(rest)
  BY <1>5, ConstantsOK, FS_RemoveElement
<1>7. SumFunctionOnSet(f, rest) = SumFunctionOnSet(g, rest)
  BY <1>2, <1>5, <1>6, SumSame
<1>8. /\ SumFunctionOnSet(f, Orders) = f[o] + SumFunctionOnSet(f, rest)
      /\ SumFunctionOnSet(g, Orders) = g[o] + SumFunctionOnSet(g, rest)
  BY <1>3, <1>4, <1>5, <1>6, SumRemove
<1>9. SumFunctionOnSet(f, rest) \in Int
  BY <1>3, <1>5, <1>6, SumType
<1>10. m = SumFunctionOnSet(g, Orders)
  BY <1>2, <1>3, <1>4, <1>7, <1>8, <1>9
<1> QED BY <1>1, <1>10

\* So do they when neither changes.
LEMMA HeldStill ==
  ASSUME ReservationsBySlice, UNCHANGED <<reserved, moved, released, shipped>>
  PROVE  ReservationsBySlice'
BY DEF ReservationsBySlice, Held

\* A placement holds what it reserves.
LEMMA HeldPlaced ==
  ASSUME Inv, Inv', PlacedInv, ReservationsBySlice, NEW w \in Workers, PlaceCommit(w)
  PROVE  ReservationsBySlice'
<1>0. PICK o, p : o = task[w].order /\ p = task[w].plan
  OBVIOUS
<1>1. /\ o \in Orders /\ p \in Quantities /\ Unplaced(o)
      /\ \A r \in Rows : p[r] \in Nat /\ reserved[r] \in Nat
      /\ \A r \in Rows : reserved'[r] = reserved[r] + p[r]
      /\ moved'[o] = p /\ \A x \in Orders \ {o} : moved'[x] = moved[x]
      /\ UNCHANGED <<released, shipped>>
  BY <1>0, TaskFields DEF Inv, TypeOK, PlaceCommit, PlacedInv, OrdersTypeOK, StockTypeOK,
                          Reserve, Quantities
<1>2. ASSUME NEW r \in Rows
      PROVE  /\ Held(r)'[o] - Held(r)[o] = reserved'[r] - reserved[r]
             /\ \A x \in Orders \ {o} : Held(r)'[x] = Held(r)[x]
  <2>1. /\ Held(r)[o] = moved[o][r] * (1 - released[o][StoreOf[r]] - shipped[o][StoreOf[r]])
        /\ Held(r)'[o] = p[r] * (1 - released[o][StoreOf[r]] - shipped[o][StoreOf[r]])
    BY <1>1 DEF Held
  <2>2. moved[o][r] = 0 /\ released[o][StoreOf[r]] = 0 /\ shipped[o][StoreOf[r]] = 0
    BY <1>1, ConstantsOK DEF Unplaced
  <2>3. Held(r)[o] = 0 /\ Held(r)'[o] = p[r]
    BY <1>1, <2>1, <2>2
  <2>4. \A x \in Orders \ {o} : Held(r)'[x] = Held(r)[x]
    BY <1>1 DEF Held
  <2> QED BY <1>1, <2>3, <2>4
<1> QED BY <1>1, <1>2, HeldChange

\* Counting one more release or shipment off a seller's share of an order.
LEMMA CountOff ==
  /\ \A m, a, b \in Nat : m * (1 - (a + 1) - b) = m * (1 - a - b) - m
  /\ \A m, a, b \in Nat : m * (1 - a - (b + 1)) = m * (1 - a - b) - m
OBVIOUS

\* Releasing or shipping slices lowers the hold by what it gives back,
LEMMA HeldCounted ==
  ASSUME Inv, Inv', ReservationsBySlice, NEW o \in Orders, NEW S,
         UNCHANGED moved,
         \A x \in Orders \ {o} : released'[x] = released[x] /\ shipped'[x] = shipped[x],
         \A r \in Rows : /\ reserved'[r] = reserved[r] - SliceStock(o, S)[r]
                         /\ StoreOf[r] \notin S => moved[o][r] = 0 \/
                              (/\ released'[o][StoreOf[r]] = released[o][StoreOf[r]]
                               /\ shipped'[o][StoreOf[r]] = shipped[o][StoreOf[r]]),
         \A r \in Rows : StoreOf[r] \in S => moved[o][r] = 0 \/
           \/ /\ released'[o][StoreOf[r]] = released[o][StoreOf[r]] + 1
              /\ shipped'[o][StoreOf[r]] = shipped[o][StoreOf[r]]
           \/ /\ released'[o][StoreOf[r]] = released[o][StoreOf[r]]
              /\ shipped'[o][StoreOf[r]] = shipped[o][StoreOf[r]] + 1
  PROVE  ReservationsBySlice'
<1>1. ASSUME NEW r \in Rows
      PROVE  /\ Held(r)'[o] - Held(r)[o] = reserved'[r] - reserved[r]
             /\ \A x \in Orders \ {o} : Held(r)'[x] = Held(r)[x]
  <2>1. \A x \in Orders \ {o} : Held(r)'[x] = Held(r)[x]
    BY DEF Held
  <2>2. PICK m, a, b, a2, b2 :
          /\ m = moved[o][r] /\ a = released[o][StoreOf[r]] /\ b = shipped[o][StoreOf[r]]
          /\ a2 = released'[o][StoreOf[r]] /\ b2 = shipped'[o][StoreOf[r]]
    OBVIOUS
  <2>3. /\ m \in Nat /\ a \in Nat /\ b \in Nat /\ a2 \in Nat /\ b2 \in Nat
        /\ reserved[r] \in Nat
    BY <2>2, ConstantsOK DEF Inv, TypeOK, OrdersTypeOK, StockTypeOK, Quantities
  <2>4. Held(r)[o] = m * (1 - a - b) /\ Held(r)'[o] = m * (1 - a2 - b2)
    BY <2>2 DEF Held
  <2>5. reserved'[r] = reserved[r] - (IF StoreOf[r] \in S THEN m ELSE 0)
    BY <2>2 DEF SliceStock
  <2>6. m * (1 - a - b) \in Int
    BY <2>3
  <2>7. CASE m = 0
    BY <2>1, <2>3, <2>4, <2>5, <2>7
  <2>8. CASE m # 0 /\ StoreOf[r] \in S
    <3>1. (a2 = a + 1 /\ b2 = b) \/ (a2 = a /\ b2 = b + 1)
      BY <2>2, <2>8
    <3>2. m * (1 - a2 - b2) = m * (1 - a - b) - m
      BY <2>3, <3>1, CountOff
    <3> QED BY <2>1, <2>3, <2>4, <2>5, <2>6, <2>8, <3>2
  <2>9. CASE m # 0 /\ StoreOf[r] \notin S
    <3>1. a2 = a /\ b2 = b
      BY <2>2, <2>9
    <3> QED BY <2>1, <2>3, <2>4, <2>5, <2>6, <2>9, <3>1
  <2> QED BY <2>7, <2>8, <2>9
<1> QED BY <1>1, HeldChange

\* a cancellation does it for its open slices,
LEMMA HeldCancelled ==
  ASSUME Inv, Inv', PlacedInv, ReservationsBySlice, NEW w \in Workers,
         CancelCommit(w) \/ FailCommit(w)
  PROVE  ReservationsBySlice'
<1>0. PICK o : o = task[w].order
  OBVIOUS
<1>1. /\ o \in Orders /\ parent[o] # "NONE" /\ CancelWhole(w)
      /\ UNCHANGED <<moved, shipped>>
  BY <1>0, TaskFields DEF Inv, TypeOK, CancelCommit, FailCommit, CancelWhole, PlacedInv,
                          PlacedTask, Doing
<1>2. /\ \A x \in Orders \ {o} : released'[x] = released[x]
      /\ \A s \in Sellers :
           released'[o][s] = IF s \in SellersOf(o) THEN released[o][s] + 1 ELSE released[o][s]
      /\ \A r \in Rows : reserved'[r] = reserved[r] - SliceStock(o, Sellers)[r]
  BY <1>0, <1>1 DEF Inv, TypeOK, OrdersTypeOK, CancelWhole, Release
<1>3. \A r \in Rows : StoreOf[r] \notin SellersOf(o) => moved[o][r] = 0
  <2>1. Fills(moved[o], o) /\ moved[o] \in Quantities
    BY <1>1 DEF PlacedInv, Placed, Inv, TypeOK, OrdersTypeOK
  <2> QED BY <1>1, <2>1, NothingAsked
<1>4. \A r \in Rows : StoreOf[r] \in Sellers
  BY ConstantsOK
<1> QED BY <1>1, <1>2, <1>3, <1>4, HeldCounted

\* a shipment or a slice's cancellation for one.
LEMMA HeldMoved ==
  ASSUME Inv, Inv', ReservationsBySlice, NEW w \in Workers, MoveShip(w) \/ MoveCancel(w)
  PROVE  ReservationsBySlice'
<1>0. PICK o, s : o = task[w].order /\ s = task[w].seller
  OBVIOUS
<1>1. /\ o \in Orders /\ s \in Sellers /\ UNCHANGED moved
      /\ \A r \in Rows : reserved'[r] = reserved[r] - SliceStock(o, {s})[r]
  BY <1>0, TaskFields DEF Inv, TypeOK, MoveShip, MoveCancel, Moving, SetSlice, CommitShipment,
                          Release
<1>2. /\ \A x \in Orders \ {o} : released'[x] = released[x] /\ shipped'[x] = shipped[x]
      /\ \A z \in Sellers \ {s} : /\ released'[o][z] = released[o][z]
                                  /\ shipped'[o][z] = shipped[o][z]
      /\ \/ released'[o][s] = released[o][s] + 1 /\ shipped'[o][s] = shipped[o][s]
         \/ released'[o][s] = released[o][s] /\ shipped'[o][s] = shipped[o][s] + 1
  <2>1. /\ released \in [Orders -> [Sellers -> Nat]] /\ shipped \in [Orders -> [Sellers -> Nat]]
    BY DEF Inv, TypeOK, OrdersTypeOK
  <2>2. \/ released' = [released EXCEPT ![o][s] = @ + 1] /\ shipped' = shipped
        \/ released' = released /\ shipped' = [shipped EXCEPT ![o][s] = @ + 1]
    BY <1>0 DEF MoveShip, MoveCancel
  <2> QED BY <1>1, <2>1, <2>2
<1>3. \A r \in Rows : StoreOf[r] \in Sellers
  BY ConstantsOK
<1> QED BY <1>1, <1>2, <1>3, HeldCounted

\* Nothing is held first.
LEMMA HeldInit == Init => ReservationsBySlice
<1> SUFFICES ASSUME Init, NEW r \in Rows PROVE reserved[r] = SumFunctionOnSet(Held(r), Orders)
  BY DEF ReservationsBySlice
<1>1. \A o \in Orders : Held(r)[o] = 0
  BY ConstantsOK DEF Init, Held, Nothing
<1>2. SumFunctionOnSet(Held(r), Orders) = 0
  BY <1>1, ConstantsOK, SumZero
<1> QED BY <1>2 DEF Init, Nothing

\* The reservations are the sum of the holds after every step.
LEMMA HeldNext ==
  Inv /\ Inv' /\ PlacedInv /\ ReservationsBySlice /\ [Next]_vars => ReservationsBySlice'
<1> SUFFICES ASSUME Inv, Inv', PlacedInv, ReservationsBySlice, [Next]_vars
             PROVE  ReservationsBySlice'
  OBVIOUS
<1> USE DEF stock, orders
<1>1. ASSUME NEW w \in Workers, Placing(w) PROVE ReservationsBySlice'
  BY <1>1, HeldPlaced, HeldStill DEF Placing, PlaceRead, PlaceReplay, PlaceConflict
<1>2. ASSUME NEW w \in Workers, Cancelling(w) PROVE ReservationsBySlice'
  BY <1>2, HeldCancelled, HeldStill DEF Cancelling, CancelRead, FailRead, AdminRead,
     AdminFailRead
<1>3. ASSUME NEW w \in Workers, Fulfilling(w) PROVE ReservationsBySlice'
  BY <1>3, HeldMoved, HeldStill DEF Fulfilling, SellerRead, CourierRead, MoveForward, SetSlice,
     DeliverRead, DeliverCommit
<1>4. ASSUME NEW w \in Workers, Adjusting(w) PROVE ReservationsBySlice'
  BY <1>4, HeldStill DEF Adjusting, AdjustRead, AdjustCommit, Overwrite
<1>5. ASSUME NEW w \in Workers, Refused(w) \/ Crash(w) PROVE ReservationsBySlice'
  BY <1>5, HeldStill DEF Refused, Crash
<1>6. ASSUME NEW o \in Orders, CapturePayment(o) PROVE ReservationsBySlice'
  BY <1>6, HeldStill DEF CapturePayment
<1>7. CASE UNCHANGED vars
  BY <1>7, HeldStill DEF vars
<1> QED BY <1>1, <1>2, <1>3, <1>4, <1>5, <1>6, <1>7 DEF Next

\* A row's reservations are what its orders hold on it, each slice counted as often as
\* it was released or shipped, whatever requests run together: with LedgerReplays this
\* says that the only way stock goes astray is a slice released or shipped twice.
THEOREM Reservations == Spec => []ReservationsBySlice
<1>1. Inv /\ PlacedInv /\ ReservationsBySlice /\ [Next]_vars
        => Inv' /\ PlacedInv' /\ ReservationsBySlice'
  BY NextInv, PlacedNext, HeldNext
<1> QED BY <1>1, InitInv, PlacedInit, HeldInit, PTL DEF Spec

-----------------------------------------------------------------------------
(***************************************************************************)
(* One request at a time.                                                  *)
(***************************************************************************)

\* Requests run one at a time; Workers may be any set of at most one.
OneAtATime == \A v, w \in Workers : v = w

\* What a request decided on is still so: no other ran since it read.
Decided(t) ==
  /\ t.op \in {"cancel", "fail"} => t.open = OpenSlices(t.order)
  /\ t.op = "move" => ValidTransition(sub[t.order][t.seller], t.target)
  /\ t.op = "deliver" =>
       /\ sub[t.order][t.seller] = "SHIPPED"
       /\ t.all <=> \A z \in SellersOf(t.order) \ {t.seller} : sub[t.order][z] = "DELIVERED"

\* The invariant of requests one at a time.
SerialInv ==
  OpenSlicesHoldStock /\ DeliveredTogether /\ \A w \in Workers : Decided(task[w])

\* It holds first.
LEMMA SerialInit == Init => SerialInv
BY DEF Init, SerialInv, OpenSlicesHoldStock, DeliveredTogether, Decided, Idle

\* A step that only reads keeps it when what it decided is so.
LEMMA SerialRead ==
  ASSUME OneAtATime, Inv, SerialInv, NEW w \in Workers, NEW t, task' = [task EXCEPT ![w] = t],
         Decided(t), UNCHANGED orders
  PROVE  SerialInv'
<1>1. \A v \in Workers : task'[v] = t
  BY DEF OneAtATime, Inv, TypeOK
<1>2. UNCHANGED <<released, shipped, parent, sub>>
  BY DEF orders
<1>3. Decided(t)'
  BY <1>2 DEF Decided, OpenSlices, SellersOf
<1>4. \A v \in Workers : Decided(task[v])'
  BY <1>1, <1>3
<1> QED BY <1>2, <1>4 DEF SerialInv, OpenSlicesHoldStock, DeliveredTogether, SellersOf

\* A request that ends leaves none running.
LEMMA SerialEnd ==
  ASSUME OneAtATime, Inv, NEW w \in Workers, Finish(w)
  PROVE  \A v \in Workers : Decided(task[v])'
<1>1. \A v \in Workers : task'[v] = Idle
  BY DEF OneAtATime, Inv, TypeOK, Finish
<1>2. Idle.op = "idle"
  BY DEF Idle
<1>3. Decided(Idle)'
  BY <1>2 DEF Decided
<1> QED BY <1>1, <1>3

\* A request that ends without writing keeps it,
LEMMA SerialUnwritten ==
  ASSUME OneAtATime, Inv, SerialInv, NEW w \in Workers, Finish(w), UNCHANGED orders
  PROVE  SerialInv'
<1>1. Decided(Idle)
  BY DEF Decided, Idle
<1> QED BY <1>1, SerialRead DEF Finish

\* so does every first read
LEMMA SerialReads ==
  ASSUME OneAtATime, Inv, SerialInv, NEW w \in Workers, NEW o \in Orders,
         \/ PlaceRead(w, o) \/ CancelRead(w, o) \/ FailRead(w, o) \/ AdminRead(w, o)
         \/ \E s \in Sellers, t \in Targets : SellerRead(w, o, s, t) \/ CourierRead(w, o, s, t)
  PROVE  SerialInv'
<1>0. UNCHANGED orders
  BY DEF PlaceRead, CancelRead, FailRead, AdminRead, SellerRead, CourierRead
<1>1. PICK t : /\ task' = [task EXCEPT ![w] = t]
               /\ \/ t.op \in {"place", "admin"}
                  \/ t.op \in {"cancel", "fail"} /\ t.open = OpenSlices(t.order)
                  \/ t.op = "move" /\ ValidTransition(sub[t.order][t.seller], t.target)
  <2>1. ASSUME NEW p, Start(w, [op |-> "place", order |-> o, plan |-> p])
        PROVE  \E t : task' = [task EXCEPT ![w] = t] /\ t.op = "place"
    <3>1. PICK t : t = [op |-> "place", order |-> o, plan |-> p]
      OBVIOUS
    <3>2. t.op = "place"
      BY <3>1
    <3> QED BY <2>1, <3>1, <3>2 DEF Start
  <2>2. ASSUME NEW op, Start(w, [op |-> op, order |-> o, open |-> OpenSlices(o)])
        PROVE  \E t : /\ task' = [task EXCEPT ![w] = t]
                      /\ t.op = op /\ t.open = OpenSlices(t.order)
    <3>1. PICK t : t = [op |-> op, order |-> o, open |-> OpenSlices(o)]
      OBVIOUS
    <3>2. t.op = op /\ t.open = OpenSlices(t.order)
      BY <3>1
    <3> QED BY <2>2, <3>1, <3>2 DEF Start
  <2>3. ASSUME Start(w, [op |-> "admin", order |-> o])
        PROVE  \E t : task' = [task EXCEPT ![w] = t] /\ t.op = "admin"
    <3>1. PICK t : t = [op |-> "admin", order |-> o]
      OBVIOUS
    <3>2. t.op = "admin"
      BY <3>1
    <3> QED BY <2>3, <3>1, <3>2 DEF Start
  <2>4. ASSUME NEW s, NEW to, NEW by, ValidTransition(sub[o][s], to),
               Start(w, [op |-> "move", order |-> o, seller |-> s, target |-> to, by |-> by])
        PROVE  \E t : /\ task' = [task EXCEPT ![w] = t]
                      /\ t.op = "move" /\ ValidTransition(sub[t.order][t.seller], t.target)
    <3>1. PICK t : t = [op |-> "move", order |-> o, seller |-> s, target |-> to, by |-> by]
      OBVIOUS
    <3>2. t.op = "move" /\ t.order = o /\ t.seller = s /\ t.target = to
      BY <3>1
    <3> QED BY <2>4, <3>1, <3>2 DEF Start
  <2>5. CASE PlaceRead(w, o)
    BY <2>1, <2>5 DEF PlaceRead
  <2>6. CASE CancelRead(w, o) \/ FailRead(w, o)
    BY <2>2, <2>6 DEF CancelRead, FailRead
  <2>7. CASE AdminRead(w, o)
    BY <2>3, <2>7 DEF AdminRead
  <2>8. CASE \E s \in Sellers, t \in Targets : SellerRead(w, o, s, t) \/ CourierRead(w, o, s, t)
    BY <2>4, <2>8 DEF SellerRead, CourierRead
  <2> QED BY <2>5, <2>6, <2>7, <2>8
<1>2. Decided(t)
  BY <1>1 DEF Decided
<1> QED BY <1>0, <1>1, <1>2, SerialRead

\* and every second one.
LEMMA SerialHandover ==
  ASSUME OneAtATime, Inv, SerialInv, NEW w \in Workers, AdminFailRead(w) \/ DeliverRead(w)
  PROVE  SerialInv'
<1>0. PICK o : o = task[w].order
  OBVIOUS
<1>1. CASE AdminFailRead(w)
  <2>1. PICK t : t = IF Failable(o) THEN [op |-> "fail", order |-> o, open |-> OpenSlices(o)]
                                    ELSE Idle
    OBVIOUS
  <2>2. Decided(t)
    BY <2>1 DEF Decided, Idle
  <2> QED BY <1>0, <1>1, <2>1, <2>2, SerialRead DEF AdminFailRead
<1>2. CASE DeliverRead(w)
  <2>1. PICK s, all : /\ s = task[w].seller
                      /\ all = \A z \in SellersOf(o) \ {s} : sub[o][z] = "DELIVERED"
    OBVIOUS
  <2>2. PICK t : t = [op |-> "deliver", order |-> o, seller |-> s, all |-> all]
    OBVIOUS
  <2>3. ValidTransition(sub[o][s], "DELIVERED")
    BY <1>0, <1>2, <2>1 DEF DeliverRead, Moving, Doing, SerialInv, Decided
  <2>4. sub[o][s] = "SHIPPED"
    BY <2>3 DEF ValidTransition, Transitions, Status
  <2>5. Decided(t)
    BY <2>1, <2>2, <2>4 DEF Decided
  <2>6. task' = [task EXCEPT ![w] = t] /\ UNCHANGED orders
    BY <1>0, <1>2, <2>1, <2>2 DEF DeliverRead
  <2> QED BY <2>5, <2>6, SerialRead
<1> QED BY <1>1, <1>2

\* What a step may do to a slice.
Forward(o, s) ==
  sub'[o][s] # sub[o][s] /\ sub[o][s] # "NONE" =>
    \/ ValidTransition(sub[o][s], sub'[o][s])
    \/ sub'[o][s] = "CANCELLED" /\ parent'[o] = "CANCELLED"

\* Every slice does.
AllForward == \A o \in Orders, s \in Sellers : Forward(o, s)

\* A placement keeps the invariant and moves slices forward,
LEMMA SerialPlaced ==
  ASSUME OneAtATime, Inv, PlacedInv, SerialInv, NEW w \in Workers, PlaceCommit(w)
  PROVE  SerialInv' /\ AllForward
<1>0. PICK o : o = task[w].order
  OBVIOUS
<1>1. o \in Orders /\ Unplaced(o) /\ Finish(w)
  BY <1>0, TaskFields DEF Inv, TypeOK, PlaceCommit, PlacedInv
<1>2. /\ parent'[o] = "PENDING"
      /\ \A s \in Sellers : sub'[o][s] = IF s \in SellersOf(o) THEN "PENDING" ELSE "NONE"
      /\ \A x \in Orders \ {o} : parent'[x] = parent[x] /\ sub'[x] = sub[x]
      /\ UNCHANGED <<released, shipped>>
  BY <1>0, <1>1 DEF Inv, TypeOK, OrdersTypeOK, PlaceCommit
<1>3. OpenSlicesHoldStock'
  BY <1>1, <1>2 DEF SerialInv, OpenSlicesHoldStock, Unplaced
<1>4. DeliveredTogether'
  <2>1. \A s \in SellersOf(o) : s \in Sellers /\ sub'[o][s] = "PENDING"
    BY <1>2 DEF SellersOf
  <2> QED BY <1>2, <2>1 DEF SerialInv, DeliveredTogether, SellersOf
<1>5. AllForward
  BY <1>1, <1>2 DEF AllForward, Forward, Unplaced
<1> QED BY <1>1, <1>3, <1>4, <1>5, SerialEnd DEF SerialInv

\* so does a cancellation,
LEMMA SerialCancelled ==
  ASSUME OneAtATime, Inv, PlacedInv, SerialInv, NEW w \in Workers,
         CancelCommit(w) \/ FailCommit(w)
  PROVE  SerialInv' /\ AllForward
<1>0. PICK o, open : o = task[w].order /\ open = task[w].open
  OBVIOUS
<1>1. /\ o \in Orders /\ parent[o] # "NONE" /\ CancelWhole(w) /\ Finish(w)
      /\ UNCHANGED shipped /\ open = OpenSlices(o)
  BY <1>0, TaskFields DEF Inv, TypeOK, CancelCommit, FailCommit, CancelWhole, PlacedInv,
                          PlacedTask, SerialInv, Decided, Doing
<1>2. /\ parent'[o] = "CANCELLED"
      /\ \A x \in Orders \ {o} : /\ parent'[x] = parent[x] /\ sub'[x] = sub[x]
                                 /\ released'[x] = released[x]
  BY <1>0, <1>1 DEF Inv, TypeOK, OrdersTypeOK, CancelWhole
<1>3. \A s \in Sellers : sub'[o][s] = IF s \in open THEN "CANCELLED" ELSE sub[o][s]
  BY <1>0, <1>1 DEF Inv, TypeOK, OrdersTypeOK, CancelWhole
<1>4. \A s \in Sellers : sub'[o][s] = IF s \in SellersOf(o) THEN "CANCELLED" ELSE "NONE"
  BY <1>1, <1>3 DEF PlacedInv, Placed, OpenSlices, SellersOf
<1>5. OpenSlicesHoldStock'
  BY <1>1, <1>2, <1>4 DEF SerialInv, OpenSlicesHoldStock
<1>6. DeliveredTogether'
  BY <1>2 DEF SerialInv, DeliveredTogether, SellersOf
<1>7. AllForward
  BY <1>2, <1>3 DEF AllForward, Forward
<1> QED BY <1>1, <1>5, <1>6, <1>7, SerialEnd DEF SerialInv

\* a seller's or the courier's move
LEMMA SerialMoved ==
  ASSUME OneAtATime, Inv, PlacedInv, SerialInv, NEW w \in Workers,
         MoveForward(w) \/ MoveShip(w) \/ MoveCancel(w)
  PROVE  SerialInv' /\ AllForward
<1>0. PICK o, s, t : o = task[w].order /\ s = task[w].seller /\ t = task[w].target
  OBVIOUS
<1>1. /\ Doing(w, "move") /\ SetSlice(w) /\ UNCHANGED parent /\ Finish(w)
      /\ o \in Orders /\ s \in SellersOf(o) /\ s \in Sellers
      /\ t \in Status /\ t # "DELIVERED" /\ ValidTransition(sub[o][s], t)
  <2>1. Doing(w, "move") /\ SetSlice(w) /\ t # "DELIVERED"
    BY <1>0 DEF MoveForward, MoveShip, MoveCancel, Moving
  <2> QED BY <1>0, <2>1, TaskFields
          DEF Inv, TypeOK, SetSlice, Doing, PlacedInv, PlacedTask, SerialInv, Decided
<1>2. /\ \A x \in Orders \ {o} : sub'[x] = sub[x]
      /\ \A z \in Sellers : sub'[o][z] = IF z = s THEN t ELSE sub[o][z]
  BY <1>0, <1>1 DEF Inv, TypeOK, OrdersTypeOK, SetSlice
<1>3. /\ t \in {"SHIPPED", "CANCELLED"} \/ UNCHANGED <<released, shipped>>
      /\ \A x \in Orders, z \in Sellers :
           \/ x = o /\ z = s
           \/ released'[x][z] = released[x][z] /\ shipped'[x][z] = shipped[x][z]
  <2>1. /\ released \in [Orders -> [Sellers -> Nat]] /\ shipped \in [Orders -> [Sellers -> Nat]]
    BY DEF Inv, TypeOK, OrdersTypeOK
  <2>2. \/ released' = released /\ shipped' = shipped
        \/ t = "CANCELLED" /\ released' = [released EXCEPT ![o][s] = @ + 1] /\ shipped' = shipped
        \/ t = "SHIPPED" /\ released' = released /\ shipped' = [shipped EXCEPT ![o][s] = @ + 1]
    BY <1>0 DEF MoveForward, MoveShip, MoveCancel
  <2> QED BY <1>1, <2>1, <2>2
<1>4. OpenSlicesHoldStock'
  <2> SUFFICES ASSUME NEW x \in Orders, NEW z \in Sellers,
                      sub'[x][z] \in {"PENDING", "CONFIRMED", "PACKED"}
               PROVE  released'[x][z] = 0 /\ shipped'[x][z] = 0
    BY DEF OpenSlicesHoldStock
  <2>1. CASE x = o /\ z = s
    <3>1. sub[o][s] \in {"PENDING", "CONFIRMED", "PACKED"} /\ t \notin {"SHIPPED", "CANCELLED"}
      BY <1>1, <1>2, <2>1 DEF ValidTransition, Transitions, Status
    <3> QED BY <1>1, <1>3, <2>1, <3>1 DEF SerialInv, OpenSlicesHoldStock
  <2>2. CASE ~ (x = o /\ z = s)
    <3>1. sub'[x][z] = sub[x][z]
      BY <1>1, <1>2, <2>2
    <3> QED BY <1>3, <2>2, <3>1 DEF SerialInv, OpenSlicesHoldStock
  <2> QED BY <2>1, <2>2
<1>5. DeliveredTogether'
  <2>1. sub[o][s] = "DELIVERED" => t = "REFUNDED"
    BY <1>1 DEF ValidTransition, Transitions
  <2>2. sub[o][s] # "REFUNDED"
    BY <1>1 DEF ValidTransition, Transitions
  <2>3. ASSUME NEW x \in Orders
        PROVE  /\ parent[x] = "DELIVERED" =>
                    \A z \in SellersOf(x) : sub'[x][z] \in {"DELIVERED", "REFUNDED"}
               /\ (parent[x] = "PENDING" /\ SellersOf(x) # {}) =>
                    \E z \in SellersOf(x) : sub'[x][z] # "DELIVERED"
    <3>1. CASE x = o
      <4>1. \A z \in SellersOf(o) : z \in Sellers
        BY DEF SellersOf
      <4> QED BY <1>1, <1>2, <2>1, <2>2, <3>1, <4>1 DEF SerialInv, DeliveredTogether
    <3>2. CASE x # o
      BY <1>2, <3>2 DEF SerialInv, DeliveredTogether
    <3> QED BY <3>1, <3>2
  <2> QED BY <1>1, <2>3 DEF DeliveredTogether, SellersOf
<1>6. AllForward
  BY <1>1, <1>2 DEF AllForward, Forward
<1> QED BY <1>1, <1>4, <1>5, <1>6, SerialEnd DEF SerialInv

\* and a delivery.
LEMMA SerialDelivered ==
  ASSUME OneAtATime, Inv, PlacedInv, SerialInv, NEW w \in Workers, DeliverCommit(w)
  PROVE  SerialInv' /\ AllForward
<1>0. PICK o, s, all : o = task[w].order /\ s = task[w].seller /\ all = task[w].all
  OBVIOUS
<1>1. /\ Finish(w) /\ UNCHANGED <<released, shipped>>
      /\ o \in Orders /\ s \in SellersOf(o) /\ s \in Sellers /\ sub[o][s] = "SHIPPED"
      /\ all <=> \A z \in SellersOf(o) \ {s} : sub[o][z] = "DELIVERED"
  BY <1>0, TaskFields
     DEF Inv, TypeOK, DeliverCommit, Doing, PlacedInv, PlacedTask, SerialInv, Decided
<1>2. /\ \A x \in Orders \ {o} : sub'[x] = sub[x] /\ parent'[x] = parent[x]
      /\ \A z \in Sellers : sub'[o][z] = IF z = s THEN "DELIVERED" ELSE sub[o][z]
      /\ parent'[o] = IF all THEN "DELIVERED" ELSE parent[o]
  BY <1>0, <1>1 DEF Inv, TypeOK, OrdersTypeOK, DeliverCommit
<1>3. OpenSlicesHoldStock'
  BY <1>1, <1>2 DEF SerialInv, OpenSlicesHoldStock
<1>4. DeliveredTogether'
  <2>1. \A z \in SellersOf(o) : z \in Sellers
    BY DEF SellersOf
  <2>2. ASSUME NEW x \in Orders
        PROVE  /\ parent'[x] = "DELIVERED" =>
                    \A z \in SellersOf(x) : sub'[x][z] \in {"DELIVERED", "REFUNDED"}
               /\ (parent'[x] = "PENDING" /\ SellersOf(x) # {}) =>
                    \E z \in SellersOf(x) : sub'[x][z] # "DELIVERED"
    <3>1. CASE x = o
      BY <1>1, <1>2, <2>1, <3>1 DEF SerialInv, DeliveredTogether
    <3>2. CASE x # o
      BY <1>2, <3>2 DEF SerialInv, DeliveredTogether
    <3> QED BY <3>1, <3>2
  <2> QED BY <2>2 DEF DeliveredTogether, SellersOf
<1>5. AllForward
  BY <1>1, <1>2 DEF AllForward, Forward, ValidTransition, Transitions, Status
<1> QED BY <1>1, <1>3, <1>4, <1>5, SerialEnd DEF SerialInv

\* A step that leaves the orders alone keeps it.
LEMMA SerialStill ==
  ASSUME SerialInv, UNCHANGED <<released, shipped, parent, sub, task>>
  PROVE  SerialInv'
BY DEF SerialInv, OpenSlicesHoldStock, DeliveredTogether, Decided, OpenSlices, SellersOf

\* So every step keeps it and moves slices forward.
LEMMA SerialNext ==
  ASSUME OneAtATime, Inv, PlacedInv, SerialInv, [Next]_vars
  PROVE  SerialInv' /\ AllForward
<1>0. UNCHANGED orders => AllForward
  BY DEF orders, AllForward, Forward
<1>1. ASSUME NEW w \in Workers, Placing(w) PROVE SerialInv' /\ AllForward
  BY <1>0, <1>1, SerialReads, SerialPlaced, SerialUnwritten
     DEF Placing, PlaceRead, PlaceReplay, PlaceConflict
<1>2. ASSUME NEW w \in Workers, Cancelling(w) PROVE SerialInv' /\ AllForward
  BY <1>0, <1>2, SerialReads, SerialHandover, SerialCancelled
     DEF Cancelling, CancelRead, FailRead, AdminRead, AdminFailRead
<1>3. ASSUME NEW w \in Workers, Fulfilling(w) PROVE SerialInv' /\ AllForward
  BY <1>0, <1>3, SerialReads, SerialHandover, SerialMoved, SerialDelivered
     DEF Fulfilling, SellerRead, CourierRead, DeliverRead
<1>4. ASSUME NEW w \in Workers, Adjusting(w) PROVE SerialInv' /\ AllForward
  <2>1. ASSUME NEW r \in Rows, NEW n \in Counts, AdjustRead(w, r, n) PROVE SerialInv'
    <3>1. PICK t : t = [op |-> "adjust", row |-> r, onHand |-> onHand[r],
                        reserved |-> reserved[r], to |-> n]
      OBVIOUS
    <3>2. Decided(t)
      BY <3>1 DEF Decided
    <3> QED BY <2>1, <3>1, <3>2, SerialRead DEF AdjustRead, Start
  <2> QED BY <1>0, <1>4, <2>1, SerialUnwritten DEF Adjusting, AdjustRead, AdjustCommit
<1>5. ASSUME NEW w \in Workers, Refused(w) \/ Crash(w) PROVE SerialInv' /\ AllForward
  BY <1>0, <1>5, SerialUnwritten DEF Refused, Crash
<1>6. ASSUME NEW o \in Orders, CapturePayment(o) PROVE SerialInv' /\ AllForward
  BY <1>6, SerialStill DEF CapturePayment, AllForward, Forward
<1>7. CASE UNCHANGED vars
  BY <1>7, <1>0, SerialStill DEF vars, orders
<1> QED BY <1>1, <1>2, <1>3, <1>4, <1>5, <1>6, <1>7 DEF Next

\* The invariants together,
SerialAll == Inv /\ PlacedInv /\ SerialInv

\* which are inductive.
LEMMA SerialInductive ==
  ASSUME OneAtATime
  PROVE  /\ Init => SerialAll
         /\ SerialAll /\ [Next]_vars => SerialAll'
BY InitInv, PlacedInit, SerialInit, NextInv, PlacedNext, SerialNext DEF SerialAll

\* With requests one at a time, a slice that is PENDING, CONFIRMED or PACKED holds its
\* stock: it was neither released nor shipped. Run together they break it.
THEOREM SerialOpenSlices == OneAtATime => (Spec => []OpenSlicesHoldStock)
<1> SUFFICES ASSUME OneAtATime PROVE Spec => []OpenSlicesHoldStock
  OBVIOUS
<1>1. Init => SerialAll
  BY SerialInductive
<1>2. SerialAll /\ [Next]_vars => SerialAll'
  BY SerialInductive
<1>3. SerialAll => OpenSlicesHoldStock
  BY DEF SerialAll, SerialInv
<1> QED BY <1>1, <1>2, <1>3, PTL DEF Spec

\* With requests one at a time, an order is DELIVERED only with all its slices.
THEOREM SerialTogether == OneAtATime => (Spec => []DeliveredTogether)
<1> SUFFICES ASSUME OneAtATime PROVE Spec => []DeliveredTogether
  OBVIOUS
<1>1. Init => SerialAll
  BY SerialInductive
<1>2. SerialAll /\ [Next]_vars => SerialAll'
  BY SerialInductive
<1>3. SerialAll => DeliveredTogether
  BY DEF SerialAll, SerialInv
<1> QED BY <1>1, <1>2, <1>3, PTL DEF Spec

\* With requests one at a time, no slice goes back on the table of transitions.
THEOREM SerialForward == OneAtATime => (Spec => ForwardOnly)
<1> SUFFICES ASSUME OneAtATime PROVE Spec => ForwardOnly
  OBVIOUS
<1>1. Init => SerialAll
  BY SerialInductive
<1>2. SerialAll /\ [Next]_vars => SerialAll'
  BY SerialInductive
<1>3. SerialAll /\ [Next]_vars => [AllForward]_vars
  BY SerialNext DEF SerialAll
<1>4. Spec => [][AllForward]_vars
  BY <1>1, <1>2, <1>3, PTL DEF Spec
<1> QED BY <1>4, PTL DEF ForwardOnly, AllForward, Forward
=============================================================================
