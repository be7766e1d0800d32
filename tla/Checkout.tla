------------------------------ MODULE Checkout ------------------------------
(***************************************************************************)
(* Paying for an order: PaymentService with its webhook controller and its *)
(* reconciliation cron, the gateway it talks to, and the cancellation a    *)
(* failed payment leads to (OrderService.cancelForPaymentFailure).         *)
(*                                                                         *)
(* A checkout opens a session at the gateway (a gateway order) and records *)
(* it as a Payment row; the row is named by its session.  The gateway      *)
(* knows whether the buyer paid, the rows are what the application knows.  *)
(* Verify calls, webhooks, dismissals and the cron carry the news from one *)
(* to the other, each with reads that nothing locks.  A handler is the     *)
(* task of a worker and moves one statement, transaction or gateway call   *)
(* at a time.  A webhook may be delivered at any time, repeatedly, or not  *)
(* at all.                                                                 *)
(***************************************************************************)
EXTENDS Integers, FiniteSets

CONSTANTS
  Orders,        \* checkout attempts (customerId, clientRequestId)
  Cod,           \* the ones paid on delivery
  MaxSessions,   \* bound: gateway sessions opened
  MaxRepricings, \* bound: changes of the gateway's processing fee
  Workers,       \* requests handled at the same time
  MaxCheckouts,  \* bound: initiateCheckout calls in flight at the same time
  SweepSize,     \* payments one reconciliation takes
  MaxFaults      \* bound: handlers that crash or throw half way

ASSUME CheckoutConstantsOK ==
  /\ Orders # {} /\ Cod \subseteq Orders /\ IsFiniteSet(Workers)
  /\ MaxSessions \in Nat /\ MaxRepricings \in Nat
  /\ SweepSize \in Nat \ {0} /\ MaxCheckouts \in Nat /\ MaxFaults \in Nat

Sessions == 1 .. MaxSessions

VARIABLES
  charge,    \* at the gateway: unpaid, paid short, paid in full, paid back
  declined,  \* at the gateway: a payment attempt of the session failed
  opened,    \* at the gateway: sessions opened so far
  orderOf,   \* the order a session was opened for
  amount,    \* the price the session was opened at
  row,       \* Payment.status, "none" when there is no row
  rank,      \* the place of the row by createdAt
  aged,      \* the row is older than PAYMENT_RECONCILE_GRACE_MS
  pay,       \* Order.paymentStatus, "NONE" before placement
  cancelled, \* Order.status = CANCELLED
  enqueued,  \* orders whose invoice and cart-clear events are in the outbox
  fee,       \* the price an order comes to, its processing fee included
  task,      \* what each worker has read and is about to do
  sweep,     \* what the reconciliation has read and is about to do
  faults

gateway == <<charge, declined, opened, orderOf, amount>>
rows    == <<row, rank, aged>>
orders  == <<pay, cancelled, enqueued>>
vars    == <<gateway, rows, orders, fee, task, sweep, faults>>

Settled == {"PAID", "PARTIALLY_REFUNDED", "REFUNDED"}
PaymentStatus == {"NONE", "PENDING", "AWAITING_PAYMENT", "FAILED"} \cup Settled
RowStatus == {"none", "CREATED", "CAPTURED", "FAILED", "PARTIALLY_REFUNDED", "REFUNDED"}

Idle == [do |-> "idle"]
Task ==
  {Idle}
    \cup [do : {"reuse", "dismiss", "giveUp", "void"}, order : Orders]
    \cup [do : {"open"}, order : Orders, amount : Nat]
    \cup [do : {"record"}, session : Sessions]
    \cup [do : {"check", "finalize", "failRow"}, session : Sessions]

NotSweeping == [do |-> "idle", todo |-> {}]
Sweep ==
  [do : {"idle", "next"}, todo : SUBSET Sessions]
    \cup [do : {"recheck", "finalize"}, todo : SUBSET Sessions, session : Sessions]

Init ==
  /\ charge = [s \in Sessions |-> "unpaid"]
  /\ declined = [s \in Sessions |-> FALSE]
  /\ opened = 0
  /\ orderOf = [s \in Sessions |-> CHOOSE o \in Orders : TRUE]
  /\ amount = [s \in Sessions |-> 0]
  /\ row = [s \in Sessions |-> "none"]
  /\ rank = [s \in Sessions |-> 0]
  /\ aged = [s \in Sessions |-> FALSE]
  /\ pay = [o \in Orders |-> "NONE"]
  /\ cancelled = [o \in Orders |-> FALSE]
  /\ enqueued = {}
  /\ fee = 0
  /\ task = [w \in Workers |-> Idle]
  /\ sweep = NotSweeping
  /\ faults = 0

Fault == faults < MaxFaults /\ faults' = faults + 1

Start(w, t) == task[w] = Idle /\ task' = [task EXCEPT ![w] = t]
Doing(w, do) == task[w].do = do
Then(w, t)  == task' = [task EXCEPT ![w] = t]

RowsOf(o) == {s \in Sessions : row[s] # "none" /\ orderOf[s] = o}
IsLatest(s, S) == s \in S /\ \A t \in S : rank[t] =< rank[s]

(***************************************************************************)
(* initiateCheckout.  placeOrder finds the order of the same attempt       *)
(* whatever became of it, or creates it.  A live session of the same price *)
(* is used again; otherwise the gateway opens one and then the row is      *)
(* written, outside the order's transaction.                               *)
(***************************************************************************)
InitiateCheckout(w, o) ==
  /\ Cardinality({v \in Workers : task[v].do \in {"reuse", "open", "record"}}) < MaxCheckouts
  /\ Start(w, [do |-> "reuse", order |-> o])
  /\ pay' = [pay EXCEPT ![o] = IF @ # "NONE" THEN @
                                  ELSE IF o \in Cod THEN "PENDING" ELSE "AWAITING_PAYMENT"]
  /\ UNCHANGED <<gateway, rows, cancelled, enqueued, fee, sweep, faults>>

\* Slip: every checkout opens its own session.
NeverReusable(o) == FALSE

\* The latest CREATED row of the order, unless the price has changed since.
Reusable(o) ==
  LET live == {s \in RowsOf(o) : row[s] = "CREATED"}
  IN  o \notin Cod /\ \E s \in live : IsLatest(s, live) /\ amount[s] = fee

FindSession(w) ==
  LET o == task[w].order
  IN  /\ Doing(w, "reuse")
      /\ Then(w, IF Reusable(o) THEN Idle
                 ELSE [do |-> "open", order |-> o, amount |-> fee])
      /\ UNCHANGED <<gateway, rows, orders, fee, sweep, faults>>

CreateSession(w) ==
  LET s == opened + 1
  IN  /\ Doing(w, "open") /\ opened < MaxSessions
      /\ opened' = s
      /\ orderOf' = [orderOf EXCEPT ![s] = task[w].order]
      /\ amount' = [amount EXCEPT ![s] = task[w].amount]
      /\ Then(w, [do |-> "record", session |-> s])
      /\ UNCHANGED <<charge, declined, rows, orders, fee, sweep, faults>>

CreatePayment(w) ==
  LET s == task[w].session
  IN  /\ Doing(w, "record")
      /\ row' = [row EXCEPT ![s] = IF orderOf[s] \in Cod THEN "CAPTURED" ELSE "CREATED"]
      /\ rank' = [rank EXCEPT ![s] = 1 + Cardinality({t \in Sessions : row[t] # "none"})]
      /\ Then(w, Idle)
      /\ UNCHANGED <<gateway, aged, orders, fee, sweep, faults>>

(***************************************************************************)
(* The gateway.  A buyer who was given the session may pay it as long as   *)
(* it is unpaid, after any number of declined attempts; nothing tells the  *)
(* gateway that the order was given up.                                    *)
(***************************************************************************)
Pay(s) ==
  /\ row[s] # "none" /\ orderOf[s] \notin Cod /\ charge[s] = "unpaid"
  /\ \E paid \in {"full", "short"} : charge' = [charge EXCEPT ![s] = paid]
  /\ UNCHANGED <<declined, opened, orderOf, amount, rows, orders, fee, task, sweep, faults>>

Decline(s) ==
  /\ row[s] # "none" /\ orderOf[s] \notin Cod /\ charge[s] = "unpaid" /\ ~declined[s]
  /\ declined' = [declined EXCEPT ![s] = TRUE]
  /\ UNCHANGED <<charge, opened, orderOf, amount, rows, orders, fee, task, sweep, faults>>

\* The gateway reports a captured payment, whatever its amount; one paid back
\* in full is no longer reported as captured.
Captured(s) == charge[s] \in {"full", "short"}

AmountMatches(g, s) == charge[g] # "short" /\ amount[g] = amount[s]

(***************************************************************************)
(* finalizeCapturedPayment: one transaction, whatever the row and the      *)
(* order have become since the caller read them.                           *)
(***************************************************************************)
\* Slip: the events of a cancelled order are left out.
FinalizeLive(s) ==
  /\ row' = [row EXCEPT ![s] = "CAPTURED"]
  /\ pay' = [pay EXCEPT ![orderOf[s]] = "PAID"]
  /\ enqueued' = enqueued \cup {o \in {orderOf[s]} : ~cancelled[o]}
  /\ UNCHANGED <<rank, aged, cancelled>>

\* Slip: the row is given the order's word for it.
FinalizeAsPaid(s) ==
  /\ row' = [row EXCEPT ![s] = "PAID"]
  /\ pay' = [pay EXCEPT ![orderOf[s]] = "PAID"]
  /\ enqueued' = enqueued \cup {orderOf[s]}
  /\ UNCHANGED <<rank, aged, cancelled>>

Finalize(s) ==
  /\ row' = [row EXCEPT ![s] = "CAPTURED"]
  /\ pay' = [pay EXCEPT ![orderOf[s]] = "PAID"]
  /\ enqueued' = enqueued \cup {orderOf[s]}
  /\ UNCHANGED <<rank, aged, cancelled>>

FinalizeCapturedPayment(w) ==
  /\ Doing(w, "finalize")
  /\ Finalize(task[w].session)
  /\ Then(w, Idle)
  /\ UNCHANGED <<gateway, fee, sweep, faults>>

(***************************************************************************)
(* verifyPayment: the order's latest row; then the payment the client      *)
(* names, as the gateway knows it.                                         *)
(***************************************************************************)
VerifyPayment(w, o) ==
  /\ \E s \in Sessions :
       /\ IsLatest(s, RowsOf(o)) /\ row[s] # "CAPTURED"
       /\ Start(w, [do |-> "check", session |-> s])
  /\ UNCHANGED <<gateway, rows, orders, fee, sweep, faults>>

\* Slip: any captured payment of the right amount will do.
FetchedAny(g, s) == Captured(g) /\ AmountMatches(g, s)

\* The payment named, its session being g, is captured, belongs to the row's
\* session and has its amount.
FetchedOK(g, s) == Captured(g) /\ g = s /\ AmountMatches(g, s)

CheckPayment(w) ==
  LET s == task[w].session
  IN  /\ Doing(w, "check")
      /\ \E g \in Sessions :
           Then(w, IF FetchedOK(g, s) THEN [do |-> "finalize", session |-> s] ELSE Idle)
      /\ UNCHANGED <<gateway, rows, orders, fee, sweep, faults>>

(***************************************************************************)
(* handleWebhook: payment.captured and payment.failed for a session.       *)
(***************************************************************************)
Unsettled(s) == row[s] \notin {"none", "CAPTURED", "FAILED"}

WebhookCaptured(w, s) ==
  /\ charge[s] # "unpaid"
  /\ Unsettled(s) /\ AmountMatches(s, s)
  /\ Start(w, [do |-> "finalize", session |-> s])
  /\ UNCHANGED <<gateway, rows, orders, fee, sweep, faults>>

WebhookFailed(w, s) ==
  /\ declined[s]
  /\ Unsettled(s)
  /\ Start(w, [do |-> "failRow", session |-> s])
  /\ UNCHANGED <<gateway, rows, orders, fee, sweep, faults>>

\* Slip: the order is not given up with its payment.
FailPaymentOnly(w) ==
  /\ Doing(w, "failRow")
  /\ row' = [row EXCEPT ![task[w].session] = "FAILED"]
  /\ Then(w, Idle)
  /\ UNCHANGED <<gateway, rank, aged, orders, fee, sweep, faults>>

\* The row is FAILED whatever it is by now; then the order is given up.
FailPayment(w) ==
  LET s == task[w].session
  IN  /\ Doing(w, "failRow")
      /\ row' = [row EXCEPT ![s] = "FAILED"]
      /\ Then(w, [do |-> "giveUp", order |-> orderOf[s]])
      /\ UNCHANGED <<gateway, rank, aged, orders, fee, sweep, faults>>

(***************************************************************************)
(* cancelCheckout: the buyer closed the payment window.                    *)
(***************************************************************************)
CancelCheckout(w, o) ==
  /\ pay[o] \notin {"NONE", "PAID"}
  /\ Start(w, [do |-> "dismiss", order |-> o])
  /\ UNCHANGED <<gateway, rows, orders, fee, sweep, faults>>

DismissPayment(w) ==
  LET o == task[w].order
      giveUp == [do |-> "giveUp", order |-> o]
  IN  /\ Doing(w, "dismiss")
      /\ \/ RowsOf(o) = {} /\ Then(w, giveUp)
         \/ \E s \in Sessions :
              /\ IsLatest(s, RowsOf(o))
              /\ Then(w, CASE row[s] = "CAPTURED" -> Idle
                           [] row[s] = "CREATED"  -> [do |-> "failRow", session |-> s]
                           [] OTHER               -> giveUp)
      /\ UNCHANGED <<gateway, rows, orders, fee, sweep, faults>>

(***************************************************************************)
(* cancelForPaymentFailure: its guard reads the order, its transaction     *)
(* does not read it again.                                                 *)
(***************************************************************************)
MayGiveUp(o) == ~cancelled[o] /\ pay[o] # "PAID"

GiveUp(w) ==
  LET o == task[w].order
  IN  /\ Doing(w, "giveUp")
      /\ Then(w, IF MayGiveUp(o) THEN [do |-> "void", order |-> o] ELSE Idle)
      /\ UNCHANGED <<gateway, rows, orders, fee, sweep, faults>>

VoidOrder(w) ==
  LET o == task[w].order
  IN  /\ Doing(w, "void")
      /\ cancelled' = [cancelled EXCEPT ![o] = TRUE]
      /\ pay' = [pay EXCEPT ![o] = "FAILED"]
      /\ Then(w, Idle)
      /\ UNCHANGED <<gateway, rows, enqueued, fee, sweep, faults>>

\* A handler crashes or throws between two of its steps.
Abandon(w) ==
  /\ task[w] # Idle
  /\ Then(w, Idle)
  /\ Fault
  /\ UNCHANGED <<gateway, rows, orders, fee, sweep>>

(***************************************************************************)
(* reconcilePendingPayments, by a cron that never overlaps itself.         *)
(***************************************************************************)
\* Slip: the orders looked for are PENDING ones.
PendingOrders ==
  {s \in Sessions : /\ row[s] = "CREATED" /\ aged[s]
                    /\ orderOf[s] \notin Cod /\ pay[orderOf[s]] = "PENDING"}

Pending ==
  {s \in Sessions : /\ row[s] = "CREATED" /\ aged[s]
                    /\ orderOf[s] \notin Cod /\ pay[orderOf[s]] = "AWAITING_PAYMENT"}

\* findMany with `take` and no order: which rows come is the database's choice.
Taken(S) ==
  IF Cardinality(S) =< SweepSize THEN {S}
  ELSE {T \in SUBSET S : Cardinality(T) = SweepSize}

Onward(todo) == IF todo = {} THEN NotSweeping ELSE [do |-> "next", todo |-> todo]

StartSweep ==
  /\ sweep = NotSweeping /\ Pending # {}
  /\ \E todo \in Taken(Pending) : sweep' = Onward(todo)
  /\ UNCHANGED <<gateway, rows, orders, fee, task, faults>>

\* The gateway is asked about the next payment.
AskGateway(s) ==
  /\ sweep.do = "next" /\ s \in sweep.todo
  /\ sweep' = IF Captured(s) /\ AmountMatches(s, s)
                THEN [do |-> "recheck", todo |-> sweep.todo \ {s}, session |-> s]
                ELSE Onward(sweep.todo \ {s})
  /\ UNCHANGED <<gateway, rows, orders, fee, task, faults>>

\* "Re-check status inside the loop in case a webhook or verify won the race."
Recheck ==
  /\ sweep.do = "recheck"
  /\ sweep' = IF row[sweep.session] = "CAPTURED" THEN Onward(sweep.todo)
              ELSE [sweep EXCEPT !.do = "finalize"]
  /\ UNCHANGED <<gateway, rows, orders, fee, task, faults>>

SweepFinalize ==
  /\ sweep.do = "finalize"
  /\ Finalize(sweep.session)
  /\ sweep' = Onward(sweep.todo)
  /\ UNCHANGED <<gateway, fee, task, faults>>

\* The error of one payment is logged and the next one is taken; a crash ends
\* the sweep.
SweepFails ==
  /\ sweep # NotSweeping
  /\ \/ sweep' = NotSweeping
     \/ sweep.do # "next" /\ sweep' = Onward(sweep.todo)
     \/ \E s \in sweep.todo : sweep.do = "next" /\ sweep' = Onward(sweep.todo \ {s})
  /\ Fault
  /\ UNCHANGED <<gateway, rows, orders, fee, task>>

(***************************************************************************)
(* What the rest of the system does to orders and payments in between.     *)
(***************************************************************************)
GrowOld(s) ==
  /\ row[s] = "CREATED" /\ ~aged[s]
  /\ aged' = [aged EXCEPT ![s] = TRUE]
  /\ UNCHANGED <<gateway, row, rank, orders, fee, task, sweep, faults>>

\* An administrator changes the processing fee; no price comes back.
Reprice ==
  /\ fee < MaxRepricings
  /\ fee' = fee + 1
  /\ UNCHANGED <<gateway, rows, orders, task, sweep, faults>>

\* cancelMyOrder or adminCancelOrder: Order.paymentStatus stays.
CancelOrder(o) ==
  /\ pay[o] # "NONE" /\ ~cancelled[o]
  /\ cancelled' = [cancelled EXCEPT ![o] = TRUE]
  /\ UNCHANGED <<gateway, rows, pay, enqueued, fee, task, sweep, faults>>

\* finalizeRefund, for all of a payment or for a part of it.  Where it also rolls
\* the order up to CANCELLED, CancelOrder stands for that.
Refund(s) ==
  /\ row[s] \in {"CAPTURED", "PARTIALLY_REFUNDED"} /\ orderOf[s] \notin Cod /\ charge[s] = "full"
  /\ \E whole \in BOOLEAN :
       /\ charge' = [charge EXCEPT ![s] = IF whole THEN "returned" ELSE @]
       /\ row' = [row EXCEPT ![s] = IF whole THEN "REFUNDED" ELSE "PARTIALLY_REFUNDED"]
       /\ pay' = [pay EXCEPT ![orderOf[s]] =
                    IF whole THEN "REFUNDED" ELSE "PARTIALLY_REFUNDED"]
  /\ UNCHANGED <<declined, opened, orderOf, amount, rank, aged, cancelled, enqueued,
                 fee, task, sweep, faults>>

-----------------------------------------------------------------------------
Handle(w) ==
  \/ FindSession(w) \/ CreateSession(w) \/ CreatePayment(w)
  \/ FinalizeCapturedPayment(w) \/ CheckPayment(w)
  \/ FailPayment(w) \/ DismissPayment(w) \/ GiveUp(w) \/ VoidOrder(w)

Call(w) ==
  \/ \E o \in Orders : InitiateCheckout(w, o) \/ VerifyPayment(w, o) \/ CancelCheckout(w, o)
  \/ \E s \in Sessions : WebhookCaptured(w, s) \/ WebhookFailed(w, s)

Reconcile == StartSweep \/ Recheck \/ SweepFinalize \/ \E s \in Sessions : AskGateway(s)

Environment ==
  \/ \E s \in Sessions : Pay(s) \/ Decline(s) \/ GrowOld(s) \/ Refund(s)
  \/ \E o \in Orders : CancelOrder(o)
  \/ Reprice

Next ==
  \/ \E w \in Workers : Call(w) \/ Handle(w) \/ Abandon(w)
  \/ Reconcile \/ SweepFails
  \/ Environment

Spec == Init /\ [][Next]_vars

\* Ten minutes pass, and the cron fires every thirty.
FairSpec ==
  Spec /\ WF_vars(Reconcile) /\ \A s \in Sessions : WF_vars(GrowOld(s))

-----------------------------------------------------------------------------
TypeOK ==
  /\ charge \in [Sessions -> {"unpaid", "short", "full", "returned"}]
  /\ declined \in [Sessions -> BOOLEAN]
  /\ opened \in 0 .. MaxSessions
  /\ orderOf \in [Sessions -> Orders]
  /\ amount \in [Sessions -> Nat]
  /\ row \in [Sessions -> RowStatus]
  /\ rank \in [Sessions -> Nat]
  /\ aged \in [Sessions -> BOOLEAN]
  /\ pay \in [Orders -> PaymentStatus]
  /\ cancelled \in [Orders -> BOOLEAN]
  /\ enqueued \subseteq Orders
  /\ fee \in Nat
  /\ task \in [Workers -> Task]
  /\ sweep \in Sweep
  /\ faults \in Nat

\* Whichever of the verify call, the webhook and the cron comes first or late,
\* and whatever they read before: an order becomes PAID, and a gateway payment
\* CAPTURED, only if the buyer paid that very session in full.
PaidInFull(s) == charge[s] \in {"full", "returned"}

PaidIsBacked ==
  /\ \A s \in Sessions :
       row[s] = "CAPTURED" /\ orderOf[s] \notin Cod => PaidInFull(s)
  /\ \A o \in Orders :
       pay[o] \in Settled => \E s \in Sessions : orderOf[s] = o /\ PaidInFull(s)

\* Money the application knows of is always invoiced: a row that was captured
\* through the gateway, refunded since or not, has its order's events in the
\* outbox, on cancelled orders too.
CapturesAreInvoiced ==
  \A s \in Sessions :
    row[s] \in Settled \cup {"CAPTURED"} /\ orderOf[s] \notin Cod => orderOf[s] \in enqueued

\* "Reuse that session instead of opening a second one": an order never has two
\* live sessions of the same price.
OneLiveSession ==
  \A s, t \in Sessions :
    row[s] = "CREATED" /\ row[t] = "CREATED" /\ orderOf[s] = orderOf[t]
      /\ amount[s] = amount[t] => s = t

\* A prepaid order whose payment failed does not linger: once every handler is
\* done, and unless one crashed, it was cancelled or paid after all.
FailureCancels ==
  faults = 0 /\ (\A w \in Workers : task[w] = Idle)
    => \A s \in Sessions :
         row[s] = "FAILED" => cancelled[orderOf[s]] \/ pay[orderOf[s]] \in Settled

\* A capture whose webhook and verify call were lost is found: the order does
\* not stay unpaid while the gateway holds the full amount of a live session.
CapturesAreFound ==
  \A s \in Sessions :
    row[s] = "CREATED" /\ charge[s] = "full" /\ pay[orderOf[s]] = "AWAITING_PAYMENT"
      ~> row[s] # "CREATED" \/ pay[orderOf[s]] # "AWAITING_PAYMENT"

=============================================================================
