------------------------------ MODULE Refunds ------------------------------
(***************************************************************************)
(* Paying a buyer back: RefundService, the gateway's refunds, the stock a  *)
(* refund puts back, and the tax ledger (TcsService) each finished refund  *)
(* is reversed in.                                                         *)
(*                                                                         *)
(* One payment covers an order of several sellers' slices.  A refund is    *)
(* requested by the customer, by the seller of a cancelled slice, or for a *)
(* return; it is approved, sent to the gateway, which may take its time,   *)
(* and finalized by the approval or by a webhook.  Between its statements  *)
(* nothing is locked, so approvals, rejections and webhooks of the same    *)
(* refund overlap.  A handler is the task of a worker.                     *)
(*                                                                         *)
(* A slice's goods are units of one variant in one warehouse of its seller *)
(* and cost one each.                                                      *)
(***************************************************************************)
EXTENDS Integers, FiniteSets, FiniteSetsExt

CONSTANTS
  Slices,      \* the order's SellerOrders
  Total,       \* what each of them comes to
  Delivered,   \* those already delivered
  Cancelled,   \* those their seller cancelled
  Untaxed,     \* slices nothing was accrued for
  Others,      \* units other orders have reserved where a slice's goods lie
  Asks,        \* what customers ask for: scopes, amounts, restock flags
  Parts,       \* amounts sellers give back and returns come to
  MaxRefunds,  \* bound: refunds of the payment
  MaxSent,     \* bound: refunds opened at the gateway
  Workers,     \* requests handled at the same time
  MaxFaults    \* bound: crashes and lost gateway answers

\* The scope of a refund of the whole order.
Whole == "whole order"

ASSUME RefundsConstantsOK ==
  /\ Total \in [Slices -> Nat \ {0}] /\ Others \in [Slices -> Nat]
  /\ IsFiniteSet(Slices) /\ Untaxed \subseteq Slices
  /\ Delivered \cup Cancelled \subseteq Slices /\ Delivered \cap Cancelled = {}
  /\ Asks \subseteq [scope : Slices \cup {Whole}, amount : Nat, restock : BOOLEAN,
                     goods : {0}, for : {"customer"}]
  /\ Parts \subseteq Nat
  /\ MaxRefunds \in Nat /\ MaxSent \in Nat /\ MaxFaults \in Nat

Refunds == 1 .. MaxRefunds
Sent    == 1 .. MaxSent

Captured == SumFunctionOnSet(Total, Slices)

VARIABLES
  manual,      \* the payment is COD: no gateway refund is possible
  payStatus,   \* Payment.status
  sliceStatus, \* SellerOrder.status, as far as refunds tell them apart
  slicePay,    \* SellerOrder.paymentStatus
  inPayout,    \* slices whose payoutStatus is PROCESSING or PAID
  refStatus,   \* Refund.status, "none" when there is no row
  refund,      \* the row's scope, amount, restock flag, origin, and the goods of its return
  gid,         \* Refund.gatewayRefundId, 0 when it is not stored
  gateway,     \* the gateway's refunds: whose, and what became of them
  restocked,   \* units of the order_refund movements, for each refund and slice
  reversed,    \* slices with a REVERSAL row, for each refund
  tcsLeft,     \* accrued TCS not yet reversed
  finalized,   \* history: refunds whose finalization has committed
  disturbed,   \* history: refunds approved or rejected twice, or interrupted
  overlapped,  \* history: two refunds were being approved at the same time
  rtask,       \* what each worker has read and is about to do
  rfaults

ledger     == <<payStatus, slicePay, restocked, reversed, tcsLeft, finalized>>
history    == <<disturbed, overlapped>>
refundVars == <<manual, ledger, sliceStatus, inPayout, refStatus, refund, gid,
                gateway, history, rtask, rfaults>>

Unsent  == [of |-> 0, status |-> "none"]
NoRow   == [scope |-> Whole, amount |-> 0, restock |-> FALSE, goods |-> 0,
            for |-> "nobody"]
Resting == [do |-> "idle", refund |-> 0]

Row ==
  [scope : Slices \cup {Whole}, amount : Nat, restock : BOOLEAN, goods : Nat,
   for : {"nobody", "customer", "seller", "return"}]
GatewayRefund ==
  [of : 0 .. MaxRefunds, status : {"none", "pending", "processed", "failed"}]
RefundTask ==
  {Resting}
    \cup [do : {"create"}, refund : {0}, row : Row]
    \cup [do : {"approve", "mark", "send", "finalize", "reject", "fail", "disburse"},
          refund : Refunds]
    \cup [do : {"store"}, refund : Refunds, sent : 0 .. MaxSent]
    \cup [do : {"flip"}, refund : Refunds, open : SUBSET Slices]
    \cup [do : {"commit"}, refund : Refunds, open : SUBSET Slices, full : BOOLEAN]

Nothing == [s \in Slices |-> 0]

\* TCS in units that divide evenly: a slice's total, times the order's.
Accrued(s) == IF s \in Untaxed THEN 0 ELSE Total[s] * Captured

RefundsInit ==
  /\ manual \in BOOLEAN
  /\ payStatus = "CAPTURED"
  /\ sliceStatus = [s \in Slices |-> CASE s \in Delivered -> "DELIVERED"
                                         [] s \in Cancelled -> "CANCELLED"
                                         [] OTHER           -> "OPEN"]
  /\ slicePay = [s \in Slices |-> "PAID"]
  /\ inPayout \in SUBSET Delivered
  /\ refStatus = [r \in Refunds |-> "none"]
  /\ refund = [r \in Refunds |-> NoRow]
  /\ gid = [r \in Refunds |-> 0]
  /\ gateway = [g \in Sent |-> Unsent]
  /\ restocked = [r \in Refunds |-> Nothing]
  /\ reversed = [r \in Refunds |-> {}]
  /\ tcsLeft = [s \in Slices |-> Accrued(s)]
  /\ finalized = {} /\ disturbed = {} /\ overlapped = FALSE
  /\ rtask = [w \in Workers |-> Resting]
  /\ rfaults = 0

RefundFault == rfaults < MaxFaults /\ rfaults' = rfaults + 1

Begin(w, t)   == rtask[w] = Resting /\ rtask' = [rtask EXCEPT ![w] = t]
Turn(w, t)    == rtask' = [rtask EXCEPT ![w] = t]
At(w, do)     == rtask[w].do = do
On(do, r)     == [do |-> do, refund |-> r]
Scope(r)      == IF refund[r].scope = Whole THEN Slices ELSE {refund[r].scope}
\* A disbursement counts for other refunds only once it is finalized.
Approving ==
  IF manual THEN {"disburse", "finalize", "flip", "commit"}
            ELSE {"approve", "mark", "send", "store"}
InApproval(r) == \E w \in Workers : rtask[w].do \in Approving /\ rtask[w].refund = r

Amounts       == [r \in Refunds |-> refund[r].amount]
SumOf(R)      == SumFunctionOnSet(Amounts, R)
WithStatus(S) == {r \in Refunds : refStatus[r] \in S}
OnSlice(s)    == {r \in Refunds : refund[r].scope = s}

\* sumRefunds of what is on its way to the buyer or with him.
Underway == {"PROCESSING", "PROCESSED"}

\* Slip: only finished refunds count.
SumFinished(exclude) == SumOf(WithStatus({"PROCESSED"}) \ exclude)

SumRefunds(exclude) == SumOf(WithStatus(Underway) \ exclude)
MaxRefundable       == Captured - SumRefunds({})

(***************************************************************************)
(* requestRefund: what may be refunded is read, then the row is written.   *)
(***************************************************************************)
Unused == {r \in Refunds : refStatus[r] = "none"}

NewRow(row) ==
  \E r \in Unused :
    /\ \A q \in Unused : r =< q
    /\ refStatus' = [refStatus EXCEPT ![r] = "REQUESTED"]
    /\ refund' = [refund EXCEPT ![r] = row]

RequestRefund(w, ask) ==
  /\ ~manual /\ payStatus = "CAPTURED"
  /\ inPayout \cap (IF ask.scope = Whole THEN Slices ELSE {ask.scope}) = {}
  /\ 0 < ask.amount /\ ask.amount =< MaxRefundable
  /\ Begin(w, [do |-> "create", refund |-> 0, row |-> ask])
  /\ UNCHANGED <<manual, ledger, sliceStatus, inPayout, refStatus, refund, gid,
                 gateway, history, rfaults>>

CreateRefund(w) ==
  /\ At(w, "create")
  /\ NewRow(rtask[w].row)
  /\ Turn(w, Resting)
  /\ UNCHANGED <<manual, ledger, sliceStatus, inPayout, gid, gateway, history, rfaults>>

(***************************************************************************)
(* createSellerRefund: under a lock on the slice, so reading and writing   *)
(* are one step; then it is approved like any other.                       *)
(***************************************************************************)
SliceLeft(s) == Total[s] - SumOf(WithStatus(Underway) \cap OnSlice(s))

CreateSellerRefund(w, s, amount) ==
  /\ sliceStatus[s] = "CANCELLED" /\ payStatus = "CAPTURED" /\ ~manual
  /\ s \notin inPayout
  /\ 0 < amount /\ amount =< MaxRefundable /\ amount =< SliceLeft(s)
  /\ NewRow([scope |-> s, amount |-> amount, restock |-> FALSE, goods |-> 0,
             for |-> "seller"])
  /\ \E r \in Unused : refStatus'[r] # "none" /\ Begin(w, On("approve", r))
  /\ overlapped' = (overlapped \/ \E r \in Refunds : InApproval(r))
  /\ UNCHANGED <<manual, ledger, sliceStatus, inPayout, gid, gateway, disturbed, rfaults>>

\* refundForReturn, for a return whose refund is not yet there: never more than
\* may be refunded, and left for finance when the payment is COD.
RefundForReturn(w, s, amount) ==
  LET paid == IF amount =< MaxRefundable THEN amount ELSE MaxRefundable
  IN  /\ sliceStatus[s] = "DELIVERED" /\ payStatus = "CAPTURED"
      /\ amount =< Total[s] /\ paid > 0
      /\ NewRow([scope |-> s, amount |-> paid, restock |-> TRUE, goods |-> amount,
                 for |-> "return"])
      /\ \E r \in Unused :
           /\ refStatus'[r] # "none"
           /\ IF manual THEN rtask[w] = Resting /\ UNCHANGED rtask
                        ELSE Begin(w, On("approve", r))
      /\ overlapped' = (overlapped \/ (~manual /\ \E r \in Refunds : InApproval(r)))
      /\ UNCHANGED <<manual, ledger, sliceStatus, inPayout, gid, gateway, disturbed, rfaults>>

(***************************************************************************)
(* approveRefund.  REQUESTED and PROCESSING refunds alike; the ceiling is  *)
(* read, PROCESSING is written whatever the row is by then, and the        *)
(* gateway is called.                                                      *)
(***************************************************************************)
\* What a call that begins for r does to the histories.
Disturbs(r) ==
  disturbed' = disturbed \cup (IF InApproval(r) \/ refStatus[r] = "PROCESSING" THEN {r} ELSE {})

ApproveRefund(w, r) ==
  /\ ~manual /\ refStatus[r] \in {"REQUESTED", "PROCESSING"}
  /\ Begin(w, On("approve", r))
  /\ Disturbs(r)
  /\ overlapped' = (overlapped \/ \E q \in Refunds \ {r} : InApproval(q))
  /\ UNCHANGED <<manual, ledger, sliceStatus, inPayout, refStatus, refund, gid,
                 gateway, rfaults>>

\* The ceiling and the payout guard.
CheckCeiling(w) ==
  LET r == rtask[w].refund
  IN  /\ At(w, "approve")
      /\ Turn(w, IF /\ SumRefunds({r}) + refund[r].amount =< Captured
                    /\ refund[r].for = "return" \/ Scope(r) \cap inPayout = {}
                 THEN On("mark", r) ELSE Resting)
      /\ UNCHANGED <<manual, ledger, sliceStatus, inPayout, refStatus, refund, gid,
                     gateway, history, rfaults>>

\* A transaction that has flipped the row holds its lock until it commits.
Locked(r) == \E w \in Workers : rtask[w].do = "commit" /\ rtask[w].refund = r

MarkProcessing(w) ==
  LET r == rtask[w].refund
  IN  /\ At(w, "mark") /\ ~Locked(r)
      /\ refStatus' = [refStatus EXCEPT ![r] = "PROCESSING"]
      /\ Turn(w, On("send", r))
      /\ UNCHANGED <<manual, ledger, sliceStatus, inPayout, refund, gid, gateway,
                     history, rfaults>>

\* gateway.refund carries no idempotency key: every call opens a refund.
OpenAtGateway(r, status) ==
  \E g \in Sent :
    /\ gateway[g] = Unsent /\ \A h \in Sent : h < g => gateway[h] # Unsent
    /\ gateway' = [gateway EXCEPT ![g] = [of |-> r, status |-> status]]

CallGateway(w) ==
  LET r == rtask[w].refund
      answered(g) == [do |-> "store", refund |-> r, sent |-> g]
  IN  /\ At(w, "send")
      /\ \/ \E status \in {"pending", "processed"} :
              /\ OpenAtGateway(r, status)
              /\ \E g \in Sent : gateway[g] # gateway'[g] /\ Turn(w, answered(g))
              /\ UNCHANGED <<disturbed, rfaults>>
         \/ /\ Turn(w, answered(0))
            /\ UNCHANGED <<gateway, disturbed, rfaults>>
         \/ /\ OpenAtGateway(r, "pending")  \* the call timed out, but went through
            /\ Turn(w, answered(0))
            /\ disturbed' = disturbed \cup {r}
            /\ RefundFault
      /\ UNCHANGED <<manual, ledger, sliceStatus, inPayout, refStatus, refund, gid, overlapped>>

\* Slip: whatever the gateway answered, the refund is taken for finished.
FinishedNow(g) == TRUE

\* "pending" waits for the webhook.
Finished(g) == gateway[g].status = "processed"

\* Slip: an answer that is not "processed" is taken for a failure.
StoreStrictly(w) ==
  LET r == rtask[w].refund
      g == rtask[w].sent
      ok == g # 0 /\ gateway[g].status = "processed"
  IN  /\ At(w, "store") /\ ~Locked(r)
      /\ gid' = IF ok THEN [gid EXCEPT ![r] = g] ELSE gid
      /\ refStatus' = IF ok THEN refStatus ELSE [refStatus EXCEPT ![r] = "FAILED"]
      /\ Turn(w, IF ok THEN On("finalize", r) ELSE Resting)
      /\ UNCHANGED <<manual, ledger, sliceStatus, inPayout, refund, gateway, history, rfaults>>

\* The gateway's id is stored over an earlier one; an error fails the refund
\* whatever it is by then.
StoreAnswer(w) ==
  LET r == rtask[w].refund
      g == rtask[w].sent
  IN  /\ At(w, "store") /\ ~Locked(r)
      /\ gid' = IF g # 0 THEN [gid EXCEPT ![r] = g] ELSE gid
      /\ refStatus' = IF g # 0 THEN refStatus ELSE [refStatus EXCEPT ![r] = "FAILED"]
      /\ Turn(w, IF g # 0 /\ Finished(g) THEN On("finalize", r) ELSE Resting)
      /\ UNCHANGED <<manual, ledger, sliceStatus, inPayout, refund, gateway, history, rfaults>>

(***************************************************************************)
(* rejectRefund: REQUESTED is read, REJECTED is written.                   *)
(***************************************************************************)
RejectRefund(w, r) ==
  /\ refStatus[r] = "REQUESTED"
  /\ Begin(w, On("reject", r))
  /\ disturbed' = disturbed \cup (IF InApproval(r) THEN {r} ELSE {})
  /\ UNCHANGED <<manual, ledger, sliceStatus, inPayout, refStatus, refund, gid,
                 gateway, overlapped, rfaults>>

MarkRejected(w) ==
  LET r == rtask[w].refund
  IN  /\ At(w, "reject") /\ ~Locked(r)
      /\ refStatus' = [refStatus EXCEPT ![r] = "REJECTED"]
      /\ disturbed' = disturbed \cup {r}
      /\ Turn(w, Resting)
      /\ UNCHANGED <<manual, ledger, sliceStatus, inPayout, refund, gid, gateway,
                     overlapped, rfaults>>

(***************************************************************************)
(* disburseManualRefund: finance has paid a COD refund by hand.            *)
(***************************************************************************)
DisburseManualRefund(w, r) ==
  /\ manual /\ refStatus[r] \in {"REQUESTED", "PROCESSING"}
  /\ Begin(w, On("disburse", r))
  /\ overlapped' = (overlapped \/ \E q \in Refunds \ {r} : InApproval(q))
  /\ UNCHANGED <<manual, ledger, sliceStatus, inPayout, refStatus, refund, gid,
                 gateway, disturbed, rfaults>>

CheckDisbursement(w) ==
  LET r == rtask[w].refund
  IN  /\ At(w, "disburse")
      /\ Turn(w, IF SumRefunds({r}) + refund[r].amount =< Captured
                 THEN On("finalize", r) ELSE Resting)
      /\ UNCHANGED <<manual, ledger, sliceStatus, inPayout, refStatus, refund, gid,
                     gateway, history, rfaults>>

(***************************************************************************)
(* The gateway settles a pending refund and reports it, as often as it     *)
(* likes; what it never reports does not count as settled.  A report whose *)
(* id no row has is dropped.                                               *)
(***************************************************************************)
HandleRefundWebhook(w, g) ==
  /\ \E status \in {"processed", "failed"}, r \in Refunds :
       /\ gateway[g].status \in {"pending", status}
       /\ gateway' = [gateway EXCEPT ![g].status = status]
       /\ gid[r] = g /\ refStatus[r] \notin {"PROCESSED", "FAILED"}
       /\ Begin(w, On(IF status = "processed" THEN "finalize" ELSE "fail", r))
  /\ UNCHANGED <<manual, ledger, sliceStatus, inPayout, refStatus, refund, gid,
                 history, rfaults>>

MarkFailed(w) ==
  LET r == rtask[w].refund
  IN  /\ At(w, "fail") /\ ~Locked(r)
      /\ refStatus' = [refStatus EXCEPT ![r] = "FAILED"]
      /\ Turn(w, Resting)
      /\ UNCHANGED <<manual, ledger, sliceStatus, inPayout, refund, gid, gateway,
                     history, rfaults>>

(***************************************************************************)
(* finalizeRefund: a look outside, then a transaction that flips the row   *)
(* and adds up what is PROCESSED, waits for the payment's row, and writes  *)
(* the rest.  Two refunds of the payment overlap up to that wait.          *)
(***************************************************************************)
FinalizeRefund(w) ==
  LET r == rtask[w].refund
      open == {s \in Scope(r) : sliceStatus[s] \notin {"REFUNDED", "CANCELLED"}}
  IN  /\ At(w, "finalize")
      /\ Turn(w, IF refStatus[r] = "PROCESSED" THEN Resting
                 ELSE [do |-> "flip", refund |-> r, open |-> open])
      /\ UNCHANGED <<manual, ledger, sliceStatus, inPayout, refStatus, refund, gid,
                     gateway, history, rfaults>>

FlipProcessed(w) ==
  LET r == rtask[w].refund
      processed == WithStatus({"PROCESSED"}) \cup {r}
  IN  /\ At(w, "flip") /\ ~Locked(r)
      /\ Turn(w, IF refStatus[r] = "PROCESSED" THEN Resting
                 ELSE [do |-> "commit", refund |-> r, open |-> rtask[w].open,
                       full |-> SumOf(processed) >= Captured])
      /\ UNCHANGED <<manual, ledger, sliceStatus, inPayout, refStatus, refund, gid,
                     gateway, history, rfaults>>

\* Slip: the gateway's word for it.
SettledAs(full) == IF full THEN "processed" ELSE "PARTIALLY_REFUNDED"

Settled(full) == IF full THEN "REFUNDED" ELSE "PARTIALLY_REFUNDED"

\* The refund's share of a slice's accrual: by its amount when it is the slice's
\* own, pro rata to the totals when it is the order's; never above all of it.
Share(r, s) ==
  IF s \notin Scope(r) \/ s \in Untaxed THEN 0
  ELSE LET whole == IF refund[r].scope = Whole THEN Captured ELSE Total[s]
           part  == IF refund[r].amount < whole THEN refund[r].amount ELSE whole
       IN  part * (Accrued(s) \div whole)

\* A reversal takes no more than is left.
LeftAfter(r, s) == IF Share(r, s) < tcsLeft[s] THEN tcsLeft[s] - Share(r, s) ELSE 0

\* Slip: a second finalization writes a second row.
ReverseAgain(r) ==
  /\ tcsLeft' = [s \in Slices |-> LeftAfter(r, s)]
  /\ reversed' = [reversed EXCEPT ![r] = @ \cup {s \in Scope(r) : Share(r, s) > 0 /\ tcsLeft[s] > 0}]

\* TcsService.reverse: one row for each refund and slice, never beyond what is
\* left of the slice's accrual.
Reverse(r) ==
  LET rows == {s \in Scope(r) \ reversed[r] : Share(r, s) > 0 /\ tcsLeft[s] > 0}
  IN  /\ tcsLeft' = [s \in Slices |-> IF s \in rows THEN LeftAfter(r, s) ELSE tcsLeft[s]]
      /\ reversed' = [reversed EXCEPT ![r] = @ \cup rows]

(***************************************************************************)
(* restock: what was sold goes back, once for each refund; of a return's   *)
(* goods no more than came back.  Goods not yet shipped are still reserved *)
(* for the order, or were until it was cancelled; and no row's reserved    *)
(* figure may fall below zero.                                             *)
(***************************************************************************)
Units(r, s) == IF refund[r].goods \in 1 .. Total[s] THEN refund[r].goods ELSE Total[s]

GoesBack(r) ==
  [s \in Slices |->
     IF refund[r].restock /\ s \in Scope(r) /\ restocked[r] = Nothing THEN Units(r, s) ELSE 0]

Reserved(s) ==
  Others[s] + (IF s \in Cancelled THEN 0 ELSE Total[s])
            - SumFunction([r \in Refunds |-> restocked[r][s]])

CanRestock(r) == \A s \in Slices \ Delivered : GoesBack(r)[s] =< Reserved(s)

Restock(r) ==
  /\ CanRestock(r)
  /\ restocked' = [restocked EXCEPT ![r] = [s \in Slices |-> @[s] + GoesBack(r)[s]]]

CommitRefund(w) ==
  LET r == rtask[w].refund
      full == rtask[w].full
      processed == WithStatus({"PROCESSED"}) \cup {r}
      sliceFull(s) == full \/ SumOf(processed \cap OnSlice(s)) >= Total[s]
  IN  /\ At(w, "commit")
      /\ refStatus' = [refStatus EXCEPT ![r] = "PROCESSED"]
      /\ payStatus' = Settled(full)
      /\ slicePay' = [s \in Slices |->
           IF s \in Scope(r) THEN Settled(sliceFull(s)) ELSE slicePay[s]]
      /\ sliceStatus' = [s \in Slices |->
           IF s \in rtask[w].open /\ sliceFull(s) THEN "REFUNDED" ELSE sliceStatus[s]]
      /\ Restock(r)
      /\ Reverse(r)
      /\ finalized' = finalized \cup {r}
      /\ Turn(w, Resting)
      /\ UNCHANGED <<manual, inPayout, refund, gid, gateway, history, rfaults>>

\* The database refuses the stock: the transaction is undone and the handler throws.
RefuseRefund(w) ==
  /\ At(w, "commit") /\ ~CanRestock(rtask[w].refund)
  /\ Turn(w, Resting)
  /\ UNCHANGED <<manual, ledger, sliceStatus, inPayout, refStatus, refund, gid,
                 gateway, history, rfaults>>

\* A handler crashes or throws after it wrote PROCESSING; before, it leaves nothing,
\* and neither does a transaction not yet committed.
AbandonRefund(w) ==
  /\ rtask[w].do \in {"send", "store", "finalize", "flip", "commit"}
  /\ disturbed' = disturbed \cup {rtask[w].refund}
  /\ Turn(w, Resting)
  /\ RefundFault
  /\ UNCHANGED <<manual, ledger, sliceStatus, inPayout, refStatus, refund, gid,
                 gateway, overlapped>>

-----------------------------------------------------------------------------
RefundCall(w) ==
  \/ \E ask \in Asks : RequestRefund(w, ask)
  \/ \E s \in Slices, a \in Parts : CreateSellerRefund(w, s, a) \/ RefundForReturn(w, s, a)
  \/ \E r \in Refunds : ApproveRefund(w, r) \/ RejectRefund(w, r) \/ DisburseManualRefund(w, r)
  \/ \E g \in Sent : HandleRefundWebhook(w, g)

RefundStep(w) ==
  \/ CreateRefund(w) \/ CheckCeiling(w) \/ MarkProcessing(w) \/ CallGateway(w)
  \/ StoreAnswer(w) \/ MarkRejected(w) \/ CheckDisbursement(w) \/ MarkFailed(w)
  \/ FinalizeRefund(w) \/ FlipProcessed(w) \/ CommitRefund(w) \/ RefuseRefund(w)

RefundsNext ==
  \E w \in Workers : RefundCall(w) \/ RefundStep(w) \/ AbandonRefund(w)

RefundsSpec == RefundsInit /\ [][RefundsNext]_refundVars

-----------------------------------------------------------------------------
RefundsTypeOK ==
  /\ manual \in BOOLEAN
  /\ payStatus \in {"CAPTURED", "PARTIALLY_REFUNDED", "REFUNDED"}
  /\ sliceStatus \in [Slices -> {"OPEN", "DELIVERED", "CANCELLED", "REFUNDED"}]
  /\ slicePay \in [Slices -> {"PAID", "PARTIALLY_REFUNDED", "REFUNDED"}]
  /\ inPayout \subseteq Slices
  /\ refStatus \in [Refunds ->
       {"none", "REQUESTED", "PROCESSING", "PROCESSED", "FAILED", "REJECTED"}]
  /\ refund \in [Refunds -> Row]
  /\ gid \in [Refunds -> 0 .. MaxSent]
  /\ gateway \in [Sent -> GatewayRefund]
  /\ restocked \in [Refunds -> [Slices -> Nat]]
  /\ reversed \in [Refunds -> SUBSET Slices]
  /\ tcsLeft \in [Slices -> Int]
  /\ finalized \subseteq Refunds /\ disturbed \subseteq Refunds
  /\ overlapped \in BOOLEAN
  /\ rtask \in [Workers -> RefundTask]
  /\ rfaults \in Nat

\* The gateway has paid the refund out.
PaidOut(r)   == \E g \in Sent : gateway[g] = [of |-> r, status |-> "processed"]
\* The gateway's refunds of r that have not failed.
OpenedFor(r) == {g \in Sent : gateway[g].of = r /\ gateway[g].status # "failed"}

\* However approvals, webhooks and retries of a refund overlap, its effects are
\* applied only when the gateway has really paid it out, and a payment is REFUNDED
\* only when the refunds paid out come to the whole of it.
EffectsAreBacked ==
  ~manual =>
    /\ \A r \in Refunds :
         refStatus[r] = "PROCESSED" \/ r \in finalized => PaidOut(r)
    /\ payStatus = "REFUNDED" => SumOf({r \in Refunds : PaidOut(r)}) >= Captured

\* A refund that was approved once, and not interrupted, is paid out at most once
\* and its row knows: it is never FAILED, REJECTED or REQUESTED while the gateway
\* pays it, whatever the webhooks do in the meantime.
UndisturbedOnce ==
  \A r \in Refunds \ disturbed :
    /\ Cardinality(OpenedFor(r)) =< 1
    /\ OpenedFor(r) # {} => refStatus[r] \in Underway

\* "Two pending requests each approved in turn" cannot exceed the payment: as long
\* as no two approvals overlap and none is repeated or interrupted, the buyer never
\* gets back more than he paid, although the gateway would let him.
CeilingInTurn ==
  ~overlapped /\ disturbed = {} =>
    SumOf({r \in Refunds : IF manual THEN r \in finalized ELSE OpenedFor(r) # {}}) =< Captured

\* A refund finalized twice (a second approval can put a PROCESSED row back to
\* PROCESSING) has its effects once: the tax still withheld of a slice is its
\* accrual less one share of every finalized refund, never below zero, and its goods
\* go back once for every refund that asks for it, those of a return as many as came back.
EffectsOnce ==
  /\ \A r \in Refunds, s \in Slices :
       restocked[r][s] = IF r \in finalized /\ refund[r].restock /\ s \in Scope(r)
                         THEN Units(r, s) ELSE 0
  /\ \A s \in Slices :
       LET due == Accrued(s) - SumFunctionOnSet([r \in Refunds |-> Share(r, s)], finalized)
       IN  tcsLeft[s] = IF due > 0 THEN due ELSE 0
=============================================================================
