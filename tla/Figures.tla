------------------------------ MODULE Figures ------------------------------
(***************************************************************************)
(* The reports about sales: DashboardService.getStats and getAnalytics for *)
(* the administrator, SellerOrderService.getMyStats for a seller, and      *)
(* TcsService.buildSellerGstr1 for the seller's tax return.                *)
(*                                                                         *)
(* The statements of a report go out together on connections of their own, *)
(* with no snapshot between them, and are answered in any order while      *)
(* orders are placed, delivered, cancelled, refunded, invoiced and settled *)
(* (OrderStock, Refunds, Invoices, Payouts).                               *)
(*                                                                         *)
(* A figure is the set of orders whose amounts it adds up or counts; two   *)
(* figures agree when they are about the same orders.  Time is counted in  *)
(* months of one year.  An order has one seller order, and PACKED and      *)
(* SHIPPED are CONFIRMED here.  Users, products, sellers, averages,        *)
(* percentages, the best sellers and the rates of a tax return are left    *)
(* out.                                                                    *)
(***************************************************************************)
EXTENDS Integers, FiniteSets

CONSTANTS
  Sales,       \* orders, of one seller
  Year,        \* bound: months
  UsualRange,  \* the range of an analysis when none is asked for
  MaxRange,    \* MAX_RANGE_MS
  MaxUnrest    \* bound: changes while one report is being read

ASSUME FigureConstantsOK ==
  /\ Year \in Nat \ {0} /\ MaxUnrest \in Nat
  /\ UsualRange \in Nat \ {0} /\ MaxRange \in Nat /\ MaxRange >= UsualRange

YearMonths      == 1 .. Year
RevenueStatuses == {"CONFIRMED", "DELIVERED"}   \* REVENUE_STATUSES
OrderStatuses   == RevenueStatuses \union {"PENDING", "CANCELLED", "REFUNDED"}

VARIABLES
  thisMonth,
  sale,      \* by order: the month it was placed in, its status and its slice's, the months of
             \* its refund and its invoice, 0 without, and the slice's payoutStatus
  view,      \* the report that is being read: statements to be answered, and what the others say
  shown,     \* history: by month, the revenue that some report of the dashboard has shown
  lateMonths \* history: months with an invoice that committed after their end

figureVars == <<thisMonth, sale, view, shown, lateMonths>>

NoSale == [placed |-> 0, is |-> "PENDING", slice |-> "PENDING", refund |-> 0, invoice |-> 0,
           payout |-> "PENDING"]
NoView == [kind |-> "none", now |-> 0, over |-> {}, left |-> {}, got |-> <<>>, unrest |-> 0]

FigureInit ==
  /\ thisMonth = 1 /\ sale = [o \in Sales |-> NoSale] /\ view = NoView
  /\ shown = [m \in YearMonths |-> {}] /\ lateMonths = {}

-----------------------------------------------------------------------------
\* What happens to the orders meanwhile.
Becomes(o, row) ==
  /\ sale' = [sale EXCEPT ![o] = row]
  /\ IF view = NoView THEN UNCHANGED view
     ELSE view.unrest < MaxUnrest /\ view' = [view EXCEPT !.unrest = @ + 1]
  /\ UNCHANGED <<thisMonth, shown>>

Settled(o) == UNCHANGED lateMonths /\ sale[o].placed # 0

PlaceSale(o) ==
  /\ sale[o].placed = 0
  /\ Becomes(o, [NoSale EXCEPT !.placed = thisMonth]) /\ UNCHANGED lateMonths

\* A seller order that is confirmed leaves the order PENDING; the last that is delivered
\* delivers it.
ConfirmSale(o) ==
  /\ Settled(o) /\ sale[o].slice = "PENDING"
  /\ Becomes(o, [sale[o] EXCEPT !.slice = "CONFIRMED"])

DeliverSale(o) ==
  /\ Settled(o) /\ sale[o].slice = "CONFIRMED"
  /\ Becomes(o, [sale[o] EXCEPT !.slice = "DELIVERED", !.is = "DELIVERED"])

CancelSale(o) ==
  /\ Settled(o) /\ sale[o].slice \in {"PENDING", "CONFIRMED"}
  /\ Becomes(o, [sale[o] EXCEPT !.slice = "CANCELLED", !.is = "CANCELLED"])

\* finalizeRefund: only a full refund changes the slice; the order's status is rolled up from
\* the slice in any case.
RefundSale(o, full) ==
  LET slice == IF full /\ sale[o].slice # "CANCELLED" THEN "REFUNDED" ELSE sale[o].slice IN
  /\ Settled(o) /\ sale[o].refund = 0
  /\ Becomes(o, [sale[o] EXCEPT !.refund = thisMonth, !.slice = slice, !.is = slice])

\* An invoice is dated when its number is reserved; the month may end before that commits.
InvoiceSale(o, m) ==
  /\ sale[o].placed # 0 /\ sale[o].invoice = 0
  /\ m \in {thisMonth, thisMonth - 1} /\ m >= sale[o].placed
  /\ lateMonths' = IF m < thisMonth THEN lateMonths \union {m} ELSE lateMonths
  /\ Becomes(o, [sale[o] EXCEPT !.invoice = m])

\* createPayout, markPayoutPaid, markPayoutFailed.
PayoutSale(o, from, to) ==
  /\ Settled(o) /\ sale[o].payout = from
  /\ from = "PENDING" => sale[o].slice = "DELIVERED"
  /\ Becomes(o, [sale[o] EXCEPT !.payout = to])

NextMonth ==
  /\ thisMonth < Year /\ thisMonth' = thisMonth + 1
  /\ UNCHANGED <<sale, view, shown, lateMonths>>

-----------------------------------------------------------------------------
(***************************************************************************)
(* What each statement would answer now.                                   *)
(***************************************************************************)
Placed(months)   == {o \in Sales : sale[o].placed \in months \intersect YearMonths}
Earning          == {o \in Placed(YearMonths) : sale[o].is \in RevenueStatuses}
SliceEarning     == {o \in Placed(YearMonths) : sale[o].slice \in RevenueStatuses}
ByMonth(orders)  == [m \in YearMonths |-> orders \intersect Placed({m})]

\* getStats.
Stats(now) ==
  [current |-> Earning \intersect Placed({now}), previous |-> Earning \intersect Placed({now - 1}),
   monthly |-> ByMonth(Earning), all |-> Earning]

\* getAnalytics: an empty range becomes the usual one before its end, a wide one is cut.
Window(from, to) ==
  LET start == IF from >= to THEN to - UsualRange ELSE from
  IN  (IF to - start > MaxRange THEN to - MaxRange ELSE start) .. (to - 1)

Analysis(over) ==
  [gross |-> Earning \intersect Placed(over),
   refunds |-> {o \in Sales : sale[o].refund \in over \intersect YearMonths},
   series |-> [m \in over |-> Earning \intersect Placed({m})],
   statuses |-> [s \in OrderStatuses |-> {o \in Placed(over) : sale[o].is = s}]]

\* getMyStats.
MyStats(now) ==
  [net |-> SliceEarning \intersect Placed({now}), lifetime |-> SliceEarning,
   pending |-> {o \in SliceEarning : sale[o].payout = "PENDING"},
   paid |-> {o \in Sales : sale[o].payout = "PAID"},
   monthly |-> ByMonth(SliceEarning)]

\* buildSellerGstr1: the invoices dated in the period, whatever became of the orders.
Gstr1(over) == [invoices |-> {o \in Sales : sale[o].invoice \in over}]

Answers(v) ==
  CASE v.kind = "stats"    -> Stats(v.now)
    [] v.kind = "analysis" -> Analysis(v.over)
    [] v.kind = "mine"     -> MyStats(v.now)
    [] v.kind = "gstr1"    -> Gstr1(v.over)

AskFigures(kind, over) ==
  LET asked == [NoView EXCEPT !.kind = kind, !.now = thisMonth, !.over = over] IN
  /\ view = NoView
  /\ view' = [asked EXCEPT !.left = DOMAIN Answers(asked)]
  /\ UNCHANGED <<thisMonth, sale, shown, lateMonths>>

AnswerFigure(s) ==
  LET read == DOMAIN view.got \union {s} IN
  /\ s \in view.left
  /\ view' = [view EXCEPT !.left = @ \ {s}, !.got =
                [t \in read |-> IF t = s THEN Answers(view)[s] ELSE view.got[t]]]
  /\ UNCHANGED <<thisMonth, sale, shown, lateMonths>>

Complete(kind) == view.kind = kind /\ view.left = {}

ShowFigures ==
  /\ view # NoView /\ view.left = {}
  /\ shown' = IF view.kind = "stats" THEN [m \in YearMonths |-> shown[m] \union view.got.monthly[m]]
              ELSE shown
  /\ view' = NoView
  /\ UNCHANGED <<thisMonth, sale, lateMonths>>

-----------------------------------------------------------------------------
FigureNext ==
  \/ NextMonth \/ ShowFigures
  \/ \E o \in Sales :
       \/ PlaceSale(o) \/ ConfirmSale(o) \/ DeliverSale(o) \/ CancelSale(o)
       \/ \E full \in BOOLEAN : RefundSale(o, full)
       \/ \E m \in YearMonths : InvoiceSale(o, m)
       \/ PayoutSale(o, "PENDING", "PROCESSING") \/ PayoutSale(o, "PROCESSING", "PAID")
       \/ PayoutSale(o, "PROCESSING", "PENDING")
  \/ \E kind \in {"stats", "mine"} : AskFigures(kind, {})
  \/ \E from \in YearMonths, to \in YearMonths \union {thisMonth + 1} :
       AskFigures("analysis", Window(from, to))
  \/ \E m \in YearMonths : AskFigures("gstr1", {m})
  \/ \E s \in view.left : AnswerFigure(s)

FigureSpec == FigureInit /\ [][FigureNext]_figureVars

-----------------------------------------------------------------------------
\* Every variable has its type.
FigureTypeOK ==
  /\ thisMonth \in YearMonths
  /\ sale \in [Sales -> [placed : 0 .. Year, is : OrderStatuses, slice : OrderStatuses,
                         refund : 0 .. Year, invoice : 0 .. Year,
                         payout : {"PENDING", "PROCESSING", "PAID"}]]
  /\ view.kind \in {"none", "stats", "analysis", "mine", "gstr1"}
  /\ view # NoView => view.left \union DOMAIN view.got = DOMAIN Answers(view)
  /\ view.unrest \in 0 .. MaxUnrest
  /\ shown \in [YearMonths -> SUBSET Sales] /\ lateMonths \subseteq YearMonths

\* In a report nothing disturbed, the parts are the whole: the months add up to the total and
\* the present month is among them, the statuses account for every order of the range, and what
\* a seller has earned is pending, on its way or paid, once.
PartsAddUp ==
  view.unrest = 0 =>
    /\ Complete("stats") =>
         /\ view.got.monthly[view.now] = view.got.current
         /\ view.now > 1 => view.got.monthly[view.now - 1] = view.got.previous
         /\ UNION {view.got.monthly[m] : m \in YearMonths} = view.got.all
    /\ Complete("analysis") =>
         /\ UNION {view.got.series[m] : m \in view.over} = view.got.gross
         /\ UNION {view.got.statuses[s] : s \in RevenueStatuses} = view.got.gross
         /\ UNION {view.got.statuses[s] : s \in OrderStatuses} = Placed(view.over)
    /\ Complete("mine") =>
         /\ view.got.monthly[view.now] = view.got.net
         /\ UNION {view.got.monthly[m] : m \in YearMonths} = view.got.lifetime
         /\ view.got.pending \intersect view.got.paid = {}
         /\ view.got.lifetime \ (view.got.pending \union view.got.paid) =
              {o \in SliceEarning : sale[o].payout = "PROCESSING"}

\* Reports agree with each other over time, however they are interleaved with the orders:
\* revenue once shown is missing later only where the order was refunded or cancelled, a range
\* is neither empty nor wider than allowed, and a tax return for a month that was over is what
\* it would be now, unless an invoice of that month committed late.
ReportsAgree ==
  /\ PartsAddUp
  /\ Complete("stats") => \A m \in YearMonths :
       \A o \in shown[m] \ view.got.monthly[m] : sale[o].is \in {"REFUNDED", "CANCELLED"}
  /\ Complete("analysis") => Cardinality(view.over) \in 1 .. MaxRange
  /\ Complete("gstr1") /\ (\A m \in view.over : m < view.now) /\ view.over \intersect lateMonths = {} =>
       view.got = Gstr1(view.over)
=============================================================================
