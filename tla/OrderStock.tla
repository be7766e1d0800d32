----------------------------- MODULE OrderStock -----------------------------
(***************************************************************************)
(* Orders and the stock they hold: OrderPlacementService, OrderService,    *)
(* OrderAdminService, SellerOrderService and InventoryService, up to the   *)
(* delivery or cancellation of an order.  RefundService and ReturnsService *)
(* write the same tables after that and are not part of this module.       *)
(*                                                                         *)
(* Every mutation of these services has the same shape: read the rows with *)
(* no lock, decide, then write in one interactive transaction at the       *)
(* database's default READ COMMITTED level.  A request is therefore a      *)
(* worker's task: an action that reads and fills the task, and an action   *)
(* that commits what was decided then.  Everything committed in between is *)
(* what the decision did not see.                                          *)
(*                                                                         *)
(* An order is named by its checkout attempt (customerId, clientRequestId),*)
(* and has one sub-order, here a slice, per seller.  Quantities are small  *)
(* naturals; prices, taxes, addresses and history rows are left out.       *)
(***************************************************************************)
EXTENDS Integers, FiniteSets, Functions

CONSTANTS
  Orders,          \* checkout attempts
  Prepaid,         \* the ones paid through a gateway; the others are COD
  DirectCod,       \* COD ones placed by the placeOrder mutation: no Payment row
  Sellers,
  Rows,            \* Inventory rows (variant, warehouse)
  StoreOf,         \* the seller whose store owns a row's warehouse
  Demand,          \* units a cart asks of each seller
  Opening,         \* stock of each row at the start
  Workers,         \* requests the API runs at the same time
  Targets,         \* bound: statuses asked for by sellers and couriers
  Counts,          \* on-hand figures a seller may enter
  MaxAdjusts       \* bound: manual adjustments in a behaviour

ASSUME ConstantsOK ==
  /\ IsFiniteSet(Orders) /\ IsFiniteSet(Rows)
  /\ Prepaid \subseteq Orders
  /\ DirectCod \subseteq Orders \ Prepaid
  /\ StoreOf \in [Rows -> Sellers]
  /\ Demand \in [Orders -> [Sellers -> Nat]]
  /\ Opening \in [Rows -> Nat]
  /\ Counts \subseteq Nat
  /\ MaxAdjusts \in Nat

VARIABLES
  onHand, available, reserved,  \* the three counters of an Inventory row
  moves,      \* InventoryMovement summed per row and kind of reference
  stale,      \* history: an adjustment overwrote a row changed since its read
  moved,      \* order -> row -> units deducted by the placement movements
  released,   \* order -> seller -> times its deductions were released
  shipped,    \* order -> seller -> times they were committed as shipped
  parent,     \* Order.status, "NONE" before placement
  pay,        \* Order.paymentStatus
  captured,   \* the order has a CAPTURED Payment row
  sub,        \* order -> seller -> SellerOrder.status
  task,       \* what each worker has read and is about to commit
  adjusts     \* adjustments begun

stock  == <<onHand, available, reserved, moves, stale>>
orders == <<moved, released, shipped, parent, pay, captured, sub>>
vars   == <<stock, orders, task, adjusts>>

Status == {"PENDING", "CONFIRMED", "PACKED", "SHIPPED", "DELIVERED",
           "CANCELLED", "REFUNDED"}

\* Slip: a cancelled slice can be confirmed again.
ReopeningTransitions ==
  [PENDING   |-> {"CONFIRMED", "CANCELLED"},
   CONFIRMED |-> {"PACKED", "CANCELLED"},
   PACKED    |-> {"SHIPPED", "CANCELLED"},
   SHIPPED   |-> {"DELIVERED"},
   DELIVERED |-> {"REFUNDED"},
   CANCELLED |-> {"CONFIRMED"},
   REFUNDED  |-> {}]

\* The table TRANSITIONS: a slice's status to the statuses it may take next.
Transitions ==
  [PENDING   |-> {"CONFIRMED", "CANCELLED"},
   CONFIRMED |-> {"PACKED", "CANCELLED"},
   PACKED    |-> {"SHIPPED", "CANCELLED"},
   SHIPPED   |-> {"DELIVERED"},
   DELIVERED |-> {"REFUNDED"},
   CANCELLED |-> {},
   REFUNDED  |-> {}]

ValidTransition(from, to) == from \in Status /\ to \in Transitions[from]

Quantities == [Rows -> Nat]
Nothing    == [r \in Rows |-> 0]

Idle == [op |-> "idle"]
Adjustment == [op : {"adjust"}, row : Rows, onHand : Int, reserved : Nat, to : Nat]
Task ==
  {Idle}
    \cup [op : {"place"},  order : Orders, plan : Quantities]
    \cup [op : {"cancel", "fail"}, order : Orders, open : SUBSET Sellers]
    \cup [op : {"admin"},  order : Orders]
    \cup [op : {"move"},   order : Orders, seller : Sellers,
          target : Status, by : {"seller", "courier"}]
    \cup [op : {"deliver"}, order : Orders, seller : Sellers, all : BOOLEAN]
    \cup {t \in Adjustment : t.reserved =< t.to}

Init ==
  /\ onHand = Opening
  /\ available = Opening
  /\ reserved = Nothing
  /\ moves = [r \in Rows |-> [order |-> 0, cancel |-> 0, ship |-> 0, adjust |-> 0]]
  /\ stale = [r \in Rows |-> FALSE]
  /\ moved = [o \in Orders |-> Nothing]
  /\ released = [o \in Orders |-> [s \in Sellers |-> 0]]
  /\ shipped = [o \in Orders |-> [s \in Sellers |-> 0]]
  /\ parent = [o \in Orders |-> "NONE"]
  /\ pay = [o \in Orders |-> "NONE"]
  /\ captured = [o \in Orders |-> FALSE]
  /\ sub = [o \in Orders |-> [s \in Sellers |-> "NONE"]]
  /\ task = [w \in Workers |-> Idle]
  /\ adjusts = 0

(***************************************************************************)
(* The stock lifecycle.  q says how many units of each row take part.  The *)
(* database's CHECK keeps available and reserved at zero or more: a write  *)
(* that would go below aborts its transaction (see Refused).               *)
(***************************************************************************)
\* Slip: the decrement is not conditional, and no CHECK backs it up.
ReserveUnchecked(q) ==
  /\ available' = [r \in Rows |-> available[r] - q[r]]
  /\ reserved' = [r \in Rows |-> reserved[r] + q[r]]
  /\ moves' = [r \in Rows |-> [moves[r] EXCEPT !.order = @ + q[r]]]
  /\ UNCHANGED <<onHand, stale>>

Reserve(q) ==
  /\ \A r \in Rows : available[r] >= q[r]
  /\ available' = [r \in Rows |-> available[r] - q[r]]
  /\ reserved' = [r \in Rows |-> reserved[r] + q[r]]
  /\ moves' = [r \in Rows |-> [moves[r] EXCEPT !.order = @ + q[r]]]
  /\ UNCHANGED <<onHand, stale>>

CanRelease(q) == \A r \in Rows : reserved[r] >= q[r]

Release(q) ==
  /\ CanRelease(q)
  /\ available' = [r \in Rows |-> available[r] + q[r]]
  /\ reserved' = [r \in Rows |-> reserved[r] - q[r]]
  /\ moves' = [r \in Rows |-> [moves[r] EXCEPT !.cancel = @ + q[r]]]
  /\ UNCHANGED <<onHand, stale>>

\* Slip: a shipment leaves the on-hand figure alone.
CommitShipmentOnly(q) ==
  /\ CanRelease(q)
  /\ reserved' = [r \in Rows |-> reserved[r] - q[r]]
  /\ moves' = [r \in Rows |-> [moves[r] EXCEPT !.ship = @ + q[r]]]
  /\ UNCHANGED <<onHand, available, stale>>

CommitShipment(q) ==
  /\ CanRelease(q)
  /\ onHand' = [r \in Rows |-> onHand[r] - q[r]]
  /\ reserved' = [r \in Rows |-> reserved[r] - q[r]]
  /\ moves' = [r \in Rows |-> [moves[r] EXCEPT !.ship = @ + q[r]]]
  /\ UNCHANGED <<available, stale>>

\* Slip: the movements of the whole order, not of the sellers' warehouses.
WholeStock(o, S) == moved[o]

\* What order o's placement took from the warehouses of the sellers S.
SliceStock(o, S) == [r \in Rows |-> IF StoreOf[r] \in S THEN moved[o][r] ELSE 0]

SellersOf(o) == {s \in Sellers : Demand[o][s] > 0}

(***************************************************************************)
(* Tasks.                                                                  *)
(***************************************************************************)
Start(w, t)  == task[w] = Idle /\ task' = [task EXCEPT ![w] = t]
Doing(w, op) == task[w].op = op
Finish(w)    == task' = [task EXCEPT ![w] = Idle]

\* A delivery has updated its SellerOrder row and holds its lock until commit.
RowLocked(w, o, S) ==
  \E v \in Workers \ {w} :
     Doing(v, "deliver") /\ task[v].order = o /\ task[v].seller \in S

(***************************************************************************)
(* Placement.  The plan fills each seller's demand from the rows with the  *)
(* most available stock first; with too little stock there is no plan and  *)
(* the request fails.                                                      *)
(***************************************************************************)
Greedy(p, s) ==
  LET own == {r \in Rows : StoreOf[r] = s}
  IN  \A r, t \in own :
        (r # t /\ p[t] > 0 /\ p[r] < available[r]) =>
           /\ available[t] >= available[r]
           /\ p[r] > 0 => p[t] = available[t]

\* Slip: a shortage is not noticed.
ShortPlans(o) ==
  {p \in [Rows -> UNION {0 .. available[r] : r \in Rows}] :
     /\ \A r \in Rows : p[r] <= available[r]
     /\ \A s \in Sellers :
          /\ SumFunctionOnSet(p, {r \in Rows : StoreOf[r] = s}) <= Demand[o][s]
          /\ Greedy(p, s)}

Plans(o) ==
  {p \in [Rows -> UNION {0 .. available[r] : r \in Rows}] :
     /\ \A r \in Rows : p[r] <= available[r]
     /\ \A s \in Sellers :
          /\ SumFunctionOnSet(p, {r \in Rows : StoreOf[r] = s}) = Demand[o][s]
          /\ Greedy(p, s)}

PlaceRead(w, o) ==
  /\ parent[o] = "NONE"
  /\ \E p \in Plans(o) : Start(w, [op |-> "place", order |-> o, plan |-> p])
  /\ UNCHANGED <<stock, orders, adjusts>>

\* Slip: no unique (customerId, idempotencyKey).
PlaceAgain(w) ==
  LET o == task[w].order
      p == task[w].plan
  IN  /\ Doing(w, "place")
      /\ Reserve(p)
      /\ moved' = [moved EXCEPT ![o] = p]
      /\ parent' = [parent EXCEPT ![o] = "PENDING"]
      /\ pay' = [pay EXCEPT ![o] =
                   IF o \in Prepaid THEN "AWAITING_PAYMENT" ELSE "PENDING"]
      /\ sub' = [sub EXCEPT ![o] =
                   [s \in Sellers |-> IF s \in SellersOf(o) THEN "PENDING" ELSE "NONE"]]
      /\ Finish(w)
      /\ UNCHANGED <<released, shipped, captured, adjusts>>

PlaceCommit(w) ==
  LET o == task[w].order
      p == task[w].plan
  IN  /\ Doing(w, "place")
      /\ parent[o] = "NONE"
      /\ Reserve(p)
      /\ moved' = [moved EXCEPT ![o] = p]
      /\ parent' = [parent EXCEPT ![o] = "PENDING"]
      /\ pay' = [pay EXCEPT ![o] =
                   IF o \in Prepaid THEN "AWAITING_PAYMENT" ELSE "PENDING"]
      /\ sub' = [sub EXCEPT ![o] =
                   [s \in Sellers |-> IF s \in SellersOf(o) THEN "PENDING" ELSE "NONE"]]
      /\ Finish(w)
      /\ UNCHANGED <<released, shipped, captured, adjusts>>

\* The order's unique (customerId, idempotencyKey) is already there: the
\* transaction aborts and the caller is answered with the existing order.
PlaceReplay(w) ==
  /\ Doing(w, "place")
  /\ parent[task[w].order] # "NONE"
  /\ Finish(w)
  /\ UNCHANGED <<stock, orders, adjusts>>

\* A conditional decrement touched no row: "sold out", the transaction aborts.
PlaceConflict(w) ==
  /\ Doing(w, "place")
  /\ parent[task[w].order] = "NONE"
  /\ \E r \in Rows : available[r] < task[w].plan[r]
  /\ Finish(w)
  /\ UNCHANGED <<stock, orders, adjusts>>

(***************************************************************************)
(* Cancelling a whole order.  The three entry points differ in what they   *)
(* read; each then cancels the slices that were open at the read, sets the *)
(* parent, and releases every placement movement of the order.             *)
(***************************************************************************)
OpenSlices(o) == {s \in SellersOf(o) : sub[o][s] # "CANCELLED"}

CancelRead(w, o) ==
  /\ parent[o] = "PENDING"
  /\ \A s \in SellersOf(o) : sub[o][s] \in {"PENDING", "CANCELLED"}
  /\ Start(w, [op |-> "cancel", order |-> o, open |-> OpenSlices(o)])
  /\ UNCHANGED <<stock, orders, adjusts>>

\* cancelForPaymentFailure does nothing for a cancelled or a paid order.
Failable(o) == parent[o] \notin {"NONE", "CANCELLED"} /\ pay[o] # "PAID"

\* From the payment.failed webhook and from cancelCheckout: orders with a
\* gateway payment, and those with no Payment row at all.
FailRead(w, o) ==
  /\ o \in Prepaid \cup DirectCod
  /\ Failable(o)
  /\ Start(w, [op |-> "fail", order |-> o, open |-> OpenSlices(o)])
  /\ UNCHANGED <<stock, orders, adjusts>>

AdminRead(w, o) ==
  /\ parent[o] = "PENDING"
  /\ pay[o] # "PAID"
  /\ \A s \in SellersOf(o) : sub[o][s] \notin {"PACKED", "SHIPPED", "DELIVERED"}
  /\ Start(w, [op |-> "admin", order |-> o])
  /\ UNCHANGED <<stock, orders, adjusts>>

\* The admin's guard passed; cancelForPaymentFailure reads the order again.
AdminFailRead(w) ==
  LET o == task[w].order
  IN  /\ Doing(w, "admin")
      /\ task' = [task EXCEPT ![w] =
           IF Failable(o) THEN [op |-> "fail", order |-> o, open |-> OpenSlices(o)]
                          ELSE Idle]
      /\ UNCHANGED <<stock, orders, adjusts>>

CancelWhole(w) ==
  LET o == task[w].order
  IN  /\ ~RowLocked(w, o, task[w].open)
      /\ Release(SliceStock(o, Sellers))
      /\ released' = [released EXCEPT ![o] =
                        [s \in Sellers |-> IF s \in SellersOf(o) THEN @[s] + 1 ELSE @[s]]]
      /\ parent' = [parent EXCEPT ![o] = "CANCELLED"]
      /\ sub' = [sub EXCEPT ![o] =
                   [s \in Sellers |-> IF s \in task[w].open THEN "CANCELLED" ELSE @[s]]]
      /\ Finish(w)
      /\ UNCHANGED <<moved, shipped, captured, adjusts>>

CancelCommit(w) == Doing(w, "cancel") /\ CancelWhole(w) /\ UNCHANGED pay

FailCommit(w) ==
  /\ Doing(w, "fail")
  /\ CancelWhole(w)
  /\ pay' = [pay EXCEPT ![task[w].order] = "FAILED"]

(***************************************************************************)
(* One slice: updateStatus by its seller, applyCourierStatus by the        *)
(* courier's webhook or poll.  Both check the transition against the row   *)
(* they read and then write the status whatever the row holds by then.     *)
(* Only the seller's path moves stock.                                     *)
(***************************************************************************)
\* Slip: a seller may fulfil a prepaid order that is not paid.
SellerReadUnpaid(w, o, s, t) ==
  /\ ValidTransition(sub[o][s], t)
  /\ Start(w, [op |-> "move", order |-> o, seller |-> s, target |-> t, by |-> "seller"])
  /\ UNCHANGED <<stock, orders, adjusts>>

SellerRead(w, o, s, t) ==
  /\ ValidTransition(sub[o][s], t)
  /\ t # "CANCELLED" /\ o \in Prepaid => pay[o] = "PAID"
  /\ Start(w, [op |-> "move", order |-> o, seller |-> s, target |-> t, by |-> "seller"])
  /\ UNCHANGED <<stock, orders, adjusts>>

\* Slip: what the courier reports is written as it comes.
CourierReadAny(w, o, s, t) ==
  /\ sub[o][s] \notin {"NONE", "PENDING"}
  /\ t \in {"SHIPPED", "DELIVERED", "CANCELLED"}
  /\ Start(w, [op |-> "move", order |-> o, seller |-> s, target |-> t, by |-> "courier"])
  /\ UNCHANGED <<stock, orders, adjusts>>

\* The courier knows a slice once its seller has confirmed it.
CourierRead(w, o, s, t) ==
  /\ sub[o][s] # "PENDING"
  /\ t \in {"SHIPPED", "DELIVERED", "CANCELLED"}
  /\ ValidTransition(sub[o][s], t)
  /\ Start(w, [op |-> "move", order |-> o, seller |-> s, target |-> t, by |-> "courier"])
  /\ UNCHANGED <<stock, orders, adjusts>>

Moving(w) ==
  Doing(w, "move") /\ ~RowLocked(w, task[w].order, {task[w].seller})

SetSlice(w) ==
  /\ sub' = [sub EXCEPT ![task[w].order][task[w].seller] = task[w].target]
  /\ Finish(w)
  /\ UNCHANGED <<moved, parent, pay, captured, adjusts>>

MovesStock(t) == t.by = "seller" /\ t.target \in {"SHIPPED", "CANCELLED"}

MoveForward(w) ==
  /\ Moving(w)
  /\ task[w].target # "DELIVERED"
  /\ ~MovesStock(task[w])
  /\ SetSlice(w)
  /\ UNCHANGED <<stock, released, shipped>>

MoveShip(w) ==
  LET o == task[w].order
      s == task[w].seller
  IN  /\ Moving(w)
      /\ MovesStock(task[w]) /\ task[w].target = "SHIPPED"
      /\ CommitShipment(SliceStock(o, {s}))
      /\ shipped' = [shipped EXCEPT ![o][s] = @ + 1]
      /\ SetSlice(w)
      /\ UNCHANGED released

MoveCancel(w) ==
  LET o == task[w].order
      s == task[w].seller
  IN  /\ Moving(w)
      /\ MovesStock(task[w]) /\ task[w].target = "CANCELLED"
      /\ Release(SliceStock(o, {s}))
      /\ released' = [released EXCEPT ![o][s] = @ + 1]
      /\ SetSlice(w)
      /\ UNCHANGED shipped

\* Slip: the siblings are read before the delivery's own write.
DeliverReadFirst(w) ==
  LET o == task[w].order
      s == task[w].seller
  IN  /\ Moving(w)
      /\ task[w].target = "DELIVERED"
      /\ task' = [task EXCEPT ![w] =
           [op |-> "deliver", order |-> o, seller |-> s,
            all |-> \A z \in SellersOf(o) : sub[o][z] = "DELIVERED"]]
      /\ UNCHANGED <<stock, orders, adjusts>>

\* A delivery updates its row and then, still in the transaction, reads its
\* siblings: it sees its own write and what the others have committed.
DeliverRead(w) ==
  LET o == task[w].order
      s == task[w].seller
  IN  /\ Moving(w)
      /\ task[w].target = "DELIVERED"
      /\ task' = [task EXCEPT ![w] =
           [op |-> "deliver", order |-> o, seller |-> s,
            all |-> \A z \in SellersOf(o) \ {s} : sub[o][z] = "DELIVERED"]]
      /\ UNCHANGED <<stock, orders, adjusts>>

DeliverCommit(w) ==
  LET o == task[w].order
  IN  /\ Doing(w, "deliver")
      /\ sub' = [sub EXCEPT ![o][task[w].seller] = "DELIVERED"]
      /\ parent' = [parent EXCEPT ![o] = IF task[w].all THEN "DELIVERED" ELSE @]
      /\ Finish(w)
      /\ UNCHANGED <<stock, moved, released, shipped, pay, captured, adjusts>>

\* A release or shipment the CHECK constraints refuse: nothing is written.
Refused(w) ==
  /\ \/ /\ task[w].op \in {"cancel", "fail"}
        /\ ~CanRelease(SliceStock(task[w].order, Sellers))
     \/ /\ Doing(w, "move") /\ MovesStock(task[w])
        /\ ~CanRelease(SliceStock(task[w].order, {task[w].seller}))
  /\ Finish(w)
  /\ UNCHANGED <<stock, orders, adjusts>>

(***************************************************************************)
(* The gateway's capture, as PaymentService.finalizeCapturedPayment writes *)
(* it: one transaction, whatever the order's status is.                    *)
(***************************************************************************)
CapturePayment(o) ==
  /\ o \in Prepaid /\ parent[o] # "NONE" /\ ~captured[o]
  /\ captured' = [captured EXCEPT ![o] = TRUE]
  /\ pay' = [pay EXCEPT ![o] = "PAID"]
  /\ UNCHANGED <<stock, moved, released, shipped, parent, sub, task, adjusts>>

(***************************************************************************)
(* A seller's adjustment, by a delta or to a counted figure: the row is    *)
(* read in the transaction but not locked, and on-hand and available are   *)
(* written as absolute values computed from what was read.                 *)
(***************************************************************************)
AdjustRead(w, r, n) ==
  /\ adjusts < MaxAdjusts
  /\ n >= reserved[r]
  /\ Start(w, [op |-> "adjust", row |-> r, onHand |-> onHand[r],
               reserved |-> reserved[r], to |-> n])
  /\ adjusts' = adjusts + 1
  /\ UNCHANGED <<stock, orders>>

Changed(t) == onHand[t.row] # t.onHand \/ reserved[t.row] # t.reserved

Overwrite(t) ==
  /\ onHand' = [onHand EXCEPT ![t.row] = t.to]
  /\ available' = [available EXCEPT ![t.row] = t.to - t.reserved]
  /\ moves' = [moves EXCEPT ![t.row].adjust = @ + (t.to - t.onHand)]
  /\ stale' = [stale EXCEPT ![t.row] = @ \/ Changed(t)]
  /\ UNCHANGED reserved

AdjustCommit(w) ==
  /\ Doing(w, "adjust")
  /\ Overwrite(task[w])
  /\ Finish(w)
  /\ UNCHANGED <<orders, adjusts>>

\* The process dies, or the connection does, before the commit.
Crash(w) ==
  /\ task[w] # Idle
  /\ Finish(w)
  /\ UNCHANGED <<stock, orders, adjusts>>

-----------------------------------------------------------------------------
Placing(w) ==
  \/ \E o \in Orders : PlaceRead(w, o)
  \/ PlaceCommit(w) \/ PlaceReplay(w) \/ PlaceConflict(w)

Cancelling(w) ==
  \/ \E o \in Orders : CancelRead(w, o) \/ FailRead(w, o) \/ AdminRead(w, o)
  \/ AdminFailRead(w) \/ CancelCommit(w) \/ FailCommit(w)

Fulfilling(w) ==
  \/ \E o \in Orders, s \in Sellers, t \in Targets :
        SellerRead(w, o, s, t) \/ CourierRead(w, o, s, t)
  \/ MoveForward(w) \/ MoveShip(w) \/ MoveCancel(w)
  \/ DeliverRead(w) \/ DeliverCommit(w)

Adjusting(w) ==
  \/ \E r \in Rows, n \in Counts : AdjustRead(w, r, n)
  \/ AdjustCommit(w)

Next ==
  \/ \E w \in Workers :
        \/ Placing(w) \/ Cancelling(w) \/ Fulfilling(w) \/ Adjusting(w)
        \/ Refused(w) \/ Crash(w)
  \/ \E o \in Orders : CapturePayment(o)

Spec == Init /\ [][Next]_vars

-----------------------------------------------------------------------------
(***************************************************************************)
(* What holds however requests interleave.                                 *)
(***************************************************************************)
Movement == [order : Nat, cancel : Nat, ship : Nat, adjust : Int]

StockTypeOK ==
  /\ onHand \in [Rows -> Int]
  /\ available \in [Rows -> Nat]
  /\ reserved \in [Rows -> Nat]
  /\ moves \in [Rows -> Movement]
  /\ stale \in [Rows -> BOOLEAN]

OrdersTypeOK ==
  /\ moved \in [Orders -> Quantities]
  /\ released \in [Orders -> [Sellers -> Nat]]
  /\ shipped \in [Orders -> [Sellers -> Nat]]
  /\ parent \in [Orders -> {"NONE", "PENDING", "DELIVERED", "CANCELLED"}]
  /\ pay \in [Orders -> {"NONE", "PENDING", "AWAITING_PAYMENT", "PAID", "FAILED"}]
  /\ captured \in [Orders -> BOOLEAN]
  /\ sub \in [Orders -> [Sellers -> Status \cup {"NONE"}]]

\* The tables hold what their columns allow; above all the available and the
\* reserved figure of a row stay at zero or more: no unit is sold twice.
TypeOK ==
  /\ StockTypeOK
  /\ OrdersTypeOK
  /\ task \in [Workers -> Task]
  /\ adjusts \in Nat

LedgerOf(r) ==
  LET m == moves[r]
  IN  /\ reserved[r] = m.order - m.cancel - m.ship
      /\ ~stale[r] =>
           /\ available[r] = Opening[r] + m.adjust - m.order + m.cancel
           /\ onHand[r] = Opening[r] + m.adjust - m.ship

\* The counters of an inventory row can be recomputed from its audit trail of
\* movements, unless an adjustment overwrote a change it had not read.
LedgerReplays == \A r \in Rows : LedgerOf(r)

\* What is left of each placement in row r, each release and shipment counted off.
Held(r) == [o \in Orders |-> moved[o][r] * (1 - released[o][StoreOf[r]] - shipped[o][StoreOf[r]])]

\* What a row has reserved is what placements took from it, each counted off
\* once for every release and every shipment of the slice: no path releases
\* or ships stock that belongs to another seller's slice or another order.
ReservationsBySlice == \A r \in Rows : reserved[r] = SumFunctionOnSet(Held(r), Orders)

\* An order is placed entirely or not at all: each of its sellers' warehouses
\* gave exactly what the cart asked of that seller, and there is no stock
\* taken and no status set for an attempt that did not commit.
PlacedEntirely ==
  \A o \in Orders, s \in Sellers :
    /\ (sub[o][s] # "NONE") <=> (parent[o] # "NONE" /\ Demand[o][s] > 0)
    /\ SumFunctionOnSet(moved[o], {r \in Rows : StoreOf[r] = s}) =
         IF parent[o] = "NONE" THEN 0 ELSE Demand[o][s]

\* No slice of a prepaid order is confirmed, packed, shipped or delivered
\* before the gateway captured its payment, even when the seller's decision
\* is committed long after it was taken.
PaidBeforeFulfil ==
  \A o \in Prepaid, s \in Sellers :
    sub[o][s] \in {"CONFIRMED", "PACKED", "SHIPPED", "DELIVERED", "REFUNDED"}
      => captured[o]

(***************************************************************************)
(* What each handler gets right on its own: these hold when one request    *)
(* runs at a time (Workers a singleton).                                   *)
(***************************************************************************)
\* A slice only moves along TRANSITIONS, except that failing a payment may
\* cancel it from any status.
ForwardOnly ==
  [][\A o \in Orders, s \in Sellers :
       sub'[o][s] # sub[o][s] /\ sub[o][s] # "NONE" =>
         \/ ValidTransition(sub[o][s], sub'[o][s])
         \/ sub'[o][s] = "CANCELLED" /\ parent'[o] = "CANCELLED"]_vars

\* A slice that its seller can still pack or ship holds its stock: nothing
\* released it and nothing shipped it before.
OpenSlicesHoldStock ==
  \A o \in Orders, s \in Sellers :
    sub[o][s] \in {"PENDING", "CONFIRMED", "PACKED"} =>
      released[o][s] = 0 /\ shipped[o][s] = 0

\* An order whose sellers have all delivered is DELIVERED, and only then.
DeliveredTogether ==
  \A o \in Orders :
    /\ parent[o] = "DELIVERED" =>
         \A s \in SellersOf(o) : sub[o][s] \in {"DELIVERED", "REFUNDED"}
    /\ (parent[o] = "PENDING" /\ SellersOf(o) # {}) =>
         \E s \in SellersOf(o) : sub[o][s] # "DELIVERED"

(***************************************************************************)
(* What the code's comments say and its steps do not keep.                 *)
(***************************************************************************)
\* "Cancel each SellerOrder (idempotent - skip already-cancelled)": the stock
\* of a slice is released once, whoever cancels it and however often.
SliceReleasedOnce ==
  \A o \in Orders, s \in Sellers : released[o][s] =< 1

=============================================================================
