------------------------------ MODULE Returns ------------------------------
(***************************************************************************)
(* Returns of delivered goods: ReturnsService, its reconciliation cron,    *)
(* and the part of RefundService.refundForReturn that ties a refund to its *)
(* return.  A return walks a state machine whose every move is a           *)
(* conditional update, so the loser of a race changes nothing and such a   *)
(* move is one step here.  Completing a return that passed inspection is   *)
(* not: it reads, creates a refund, calls the gateway, finalizes and       *)
(* closes, and can stop between any two.                                   *)
(*                                                                         *)
(* Money is counted in units of goods.  The refund itself is abstracted to *)
(* its outcome; Refunds models it in full, and Payouts what is taken back  *)
(* from the seller.                                                        *)
(***************************************************************************)
EXTENDS Integers, FiniteSets, FiniteSetsExt

CONSTANTS
  Slices,       \* delivered SellerOrders of one order and seller
  Bought,       \* the units bought in each
  Resolutions,  \* the resolution types customers may choose
  MaxReturns,   \* bound: return requests
  MaxRefunds,   \* bound: refunds created for them
  Workers,      \* requests handled at the same time, the cron's included
  GatewayFails, \* the gateway may refuse a refund
  MaxFaults     \* bound: completions that crash

ASSUME ReturnsConstantsOK ==
  /\ Bought \in [Slices -> Nat] /\ IsFiniteSet(Slices) /\ Slices # {}
  /\ Resolutions \subseteq {"REFUND", "REPLACEMENT"}
  /\ MaxReturns \in Nat /\ MaxRefunds \in Nat /\ MaxFaults \in Nat
  /\ GatewayFails \in BOOLEAN

Returns == 1 .. MaxReturns
Refunds == 1 .. MaxRefunds

VARIABLES
  cod,      \* the payment is COD: its refunds are paid by hand
  pay,      \* Payment.status
  sliceSt,  \* SellerOrder.status
  settled,  \* slices whose payoutStatus is PROCESSING or PAID
  retSt,    \* ReturnRequest.status, "none" when there is no row
  ret,      \* the row's slice, units and resolution
  link,     \* ReturnRequest.refundId, 0 when there is none
  refSt,    \* Refund.status, "none" when there is no row
  refOf,    \* the return and the amount of a refund
  clawback, \* the PayoutAdjustment of a return: its status and amount
  doubled,  \* history: returns completed by two callers at once
  loose,    \* history: slices a payout and a return raced on
  wtask,    \* what each worker has read and is about to do
  crashes

refundState == <<cod, pay, sliceSt, link, refSt, refOf>>
returnVars  == <<refundState, settled, retSt, ret, clawback, doubled, loose, wtask, crashes>>

ReturnStatus ==
  {"REQUESTED", "APPROVED", "REJECTED", "PICKUP_SCHEDULED", "IN_TRANSIT", "RECEIVED",
   "QC_PASSED", "QC_FAILED", "REFUNDED", "REPLACEMENT_APPROVED", "REPLACEMENT_SHIPPED"}

NoReturn   == [slice |-> CHOOSE s \in Slices : TRUE, units |-> 0, kind |-> "REFUND"]
NoClawback == [status |-> "none", amount |-> 0]
Waiting    == [do |-> "idle", ret |-> 0]

\* "seen" is the slice's payoutStatus as the completion read it.
ReturnTask ==
  {Waiting}
    \cup [do : {"refund"}, ret : Returns, seen : BOOLEAN]
    \cup [do : {"create"}, ret : Returns, seen : BOOLEAN, amount : Nat]
    \cup [do : {"pay", "finalize", "close"}, ret : Returns, seen : BOOLEAN, refund : Refunds]

ReturnsInit ==
  /\ cod \in BOOLEAN
  /\ pay = "CAPTURED"
  /\ sliceSt = [s \in Slices |-> "DELIVERED"]
  /\ settled = {}
  /\ retSt = [q \in Returns |-> "none"]
  /\ ret = [q \in Returns |-> NoReturn]
  /\ link = [q \in Returns |-> 0]
  /\ refSt = [r \in Refunds |-> "none"]
  /\ refOf = [r \in Refunds |-> [ret |-> 0, amount |-> 0]]
  /\ clawback = [q \in Returns |-> NoClawback]
  /\ doubled = {} /\ loose = {}
  /\ wtask = [w \in Workers |-> Waiting]
  /\ crashes = 0

Take(w, t) == wtask[w] = Waiting /\ wtask' = [wtask EXCEPT ![w] = t]
Go(w, t)   == wtask' = [wtask EXCEPT ![w] = t]

Amounts == [r \in Refunds |-> refOf[r].amount]
SumOver(R) == SumFunctionOnSet(Amounts, R)
RefundsIn(S) == {r \in Refunds : refSt[r] \in S}
RefundsOn(s) == {r \in Refunds : refSt[r] # "none" /\ ret[refOf[r].ret].slice = s}
Captured == SumFunctionOnSet(Bought, Slices)

(***************************************************************************)
(* requestReturn: the units still returnable are counted under a lock.     *)
(***************************************************************************)
\* returnedQtyByOrderItem.
Returned(s) ==
  SumFunctionOnSet([q \in Returns |-> ret[q].units],
                   {q \in Returns : /\ retSt[q] \notin {"none", "REJECTED", "QC_FAILED"}
                                    /\ ret[q].slice = s})

RequestReturn(q, s, units, kind) ==
  /\ retSt[q] = "none" /\ \A p \in Returns : p < q => retSt[p] # "none"
  /\ sliceSt[s] = "DELIVERED"
  /\ units =< Bought[s] - Returned(s)
  /\ retSt' = [retSt EXCEPT ![q] = "REQUESTED"]
  /\ ret' = [ret EXCEPT ![q] = [slice |-> s, units |-> units, kind |-> kind]]
  /\ UNCHANGED <<refundState, settled, clawback, doubled, loose, wtask, crashes>>

(***************************************************************************)
(* The moves of the machine up to the inspection.  RETURN_TRANSITIONS and  *)
(* the condition of each update.                                           *)
(***************************************************************************)
Move(q, from, to) ==
  /\ retSt[q] \in from
  /\ retSt' = [retSt EXCEPT ![q] = to]
  /\ UNCHANGED <<refundState, settled, ret, clawback, doubled, loose, crashes>>

ApproveReturn(q)  == Move(q, {"REQUESTED"}, "APPROVED") /\ UNCHANGED wtask
RejectReturn(q)   == Move(q, {"REQUESTED", "APPROVED", "QC_FAILED"}, "REJECTED") /\ UNCHANGED wtask
SchedulePickup(q) == Move(q, {"APPROVED"}, "PICKUP_SCHEDULED") /\ UNCHANGED wtask
ReverseScan(q)    == Move(q, {"PICKUP_SCHEDULED"}, "IN_TRANSIT") /\ UNCHANGED wtask
ReceiveReturn(q)  == Move(q, {"PICKUP_SCHEDULED", "IN_TRANSIT"}, "RECEIVED") /\ UNCHANGED wtask
QcFail(q)         == Move(q, {"RECEIVED"}, "QC_FAILED") /\ UNCHANGED wtask
ShipReplacement(q) ==
  Move(q, {"REPLACEMENT_APPROVED"}, "REPLACEMENT_SHIPPED") /\ UNCHANGED wtask

(***************************************************************************)
(* qcReturn passes a return; it, or the cron, then completes it.  What is  *)
(* read here of the slice's payout is not read again.                      *)
(***************************************************************************)
Settled(q) == ret[q].slice \in settled

QcPass(q) == Move(q, {"RECEIVED"}, "QC_PASSED") /\ UNCHANGED wtask

\* completeQcPassed and completeQcPassedReplacement.
ApproveReplacement(q) ==
  /\ ret[q].kind = "REPLACEMENT"
  /\ Move(q, {"QC_PASSED"}, "REPLACEMENT_APPROVED")
  /\ UNCHANGED wtask

Completing(q) == \E w \in Workers : wtask[w].ret = q

\* completeQcPassedRefund begins, called by qcReturn or by reconcileStuckReturns.
CompleteReturn(w, q) ==
  /\ retSt[q] = "QC_PASSED" /\ ret[q].kind = "REFUND"
  /\ Take(w, [do |-> "refund", ret |-> q, seen |-> Settled(q)])
  /\ doubled' = IF Completing(q) THEN doubled \cup {q} ELSE doubled
  /\ loose' = IF Completing(q) THEN loose \cup {ret[q].slice} ELSE loose
  /\ UNCHANGED <<refundState, settled, retSt, ret, clawback, crashes>>

\* refundForReturn: the payment must be CAPTURED; a refund already linked is used
\* again, otherwise as much as is left of the payment will be refunded.
Left == Captured - SumOver(RefundsIn({"PROCESSING", "PROCESSED"}))
Least(a, b) == IF a < b THEN a ELSE b

\* Slip: the refund reserved for the return is not looked for.
ForgetLinkedRefund(w) ==
  LET t == wtask[w]
  IN  /\ t.do = "refund"
      /\ Go(w, IF pay # "CAPTURED" \/ Left = 0 THEN Waiting
               ELSE [do |-> "create", ret |-> t.ret, seen |-> t.seen,
                     amount |-> Least(ret[t.ret].units, Left)])
      /\ UNCHANGED <<refundState, settled, retSt, ret, clawback, doubled, loose, crashes>>

FindLinkedRefund(w) ==
  LET t == wtask[w]
      pays(r) == IF cod THEN "close" ELSE "pay"
  IN  /\ t.do = "refund"
      /\ Go(w, IF pay = "CAPTURED" /\ link[t.ret] # 0
               THEN [do |-> pays(link[t.ret]), ret |-> t.ret, seen |-> t.seen, refund |-> link[t.ret]]
               ELSE IF pay = "CAPTURED" /\ Left # 0
               THEN [do |-> "create", ret |-> t.ret, seen |-> t.seen,
                     amount |-> Least(ret[t.ret].units, Left)]
               ELSE Waiting)
      /\ UNCHANGED <<refundState, settled, retSt, ret, clawback, doubled, loose, crashes>>

\* The refund is created and linked in one transaction.
ReserveRefund(w) ==
  LET t == wtask[w]
  IN  /\ t.do = "create"
      /\ \E r \in Refunds :
           /\ refSt[r] = "none" /\ \A p \in Refunds : p < r => refSt[p] # "none"
           /\ refSt' = [refSt EXCEPT ![r] = "REQUESTED"]
           /\ refOf' = [refOf EXCEPT ![r] = [ret |-> t.ret, amount |-> t.amount]]
           /\ link' = [link EXCEPT ![t.ret] = r]
           /\ Go(w, [do |-> IF cod THEN "close" ELSE "pay", ret |-> t.ret, seen |-> t.seen,
                     refund |-> r])
      /\ UNCHANGED <<cod, pay, sliceSt, settled, retSt, ret, clawback, doubled, loose, crashes>>

\* approveRefund, in one step with the gateway: refused, paid, or to be paid.
PayRefund(w) ==
  LET t == wtask[w]
      r == t.refund
      exceeds == SumOver(RefundsIn({"PROCESSING", "PROCESSED"}) \ {r}) + refOf[r].amount > Captured
      Becomes(status, do) ==
        /\ refSt' = [refSt EXCEPT ![r] = status]
        /\ Go(w, IF do = "idle" THEN Waiting ELSE [t EXCEPT !.do = do])
  IN  /\ t.do = "pay"
      /\ \/ refSt[r] = "PROCESSED" /\ Becomes("PROCESSED", "close")
         \/ refSt[r] \notin {"PROCESSED", "REQUESTED", "PROCESSING"} /\ Becomes(refSt[r], "idle")
         \/ refSt[r] \in {"REQUESTED", "PROCESSING"} /\ exceeds /\ Becomes(refSt[r], "idle")
         \/ /\ refSt[r] \in {"REQUESTED", "PROCESSING"} /\ ~exceeds
            /\ \/ Becomes("PROCESSING", "finalize")
               \/ GatewayFails /\ Becomes("PROCESSING", "close")
               \/ GatewayFails /\ Becomes("FAILED", "idle")
      /\ UNCHANGED <<cod, pay, sliceSt, link, refOf, settled, retSt, ret, clawback, doubled,
                     loose, crashes>>

\* finalizeRefund, as Refunds models it.
Finalize(r) ==
  LET s == ret[refOf[r].ret].slice
      done == RefundsIn({"PROCESSED"}) \cup {r}
      full == SumOver(done) >= Captured
  IN  /\ refSt' = [refSt EXCEPT ![r] = "PROCESSED"]
      /\ pay' = IF full THEN "REFUNDED" ELSE "PARTIALLY_REFUNDED"
      /\ sliceSt' = IF full \/ SumOver(done \cap RefundsOn(s)) >= Bought[s]
                      THEN [sliceSt EXCEPT ![s] = "REFUNDED"] ELSE sliceSt
      /\ UNCHANGED <<cod, link, refOf>>

FinalizeReturnRefund(w) ==
  LET t == wtask[w]
  IN  /\ t.do = "finalize"
      /\ IF refSt[t.refund] = "PROCESSED" THEN UNCHANGED refundState ELSE Finalize(t.refund)
      /\ Go(w, [t EXCEPT !.do = "close"])
      /\ UNCHANGED <<settled, retSt, ret, clawback, doubled, loose, crashes>>

\* Slip: what the seller gets is taken back whether or not a payout had it.
ClawbackAlways(q, seen) == retSt[q] = "QC_PASSED"

\* A clawback is due where the payout had been read as under way or made.
ClawbackDue(q, seen) == retSt[q] = "QC_PASSED" /\ seen

\* QC_PASSED -> REFUNDED elects one caller, which books the clawback.
CloseReturn(w) ==
  LET t == wtask[w]
      q == t.ret
      won == retSt[q] = "QC_PASSED"
  IN  /\ t.do = "close"
      /\ retSt' = IF won THEN [retSt EXCEPT ![q] = "REFUNDED"] ELSE retSt
      /\ link' = IF won THEN [link EXCEPT ![q] = t.refund] ELSE link
      /\ clawback' = IF ClawbackDue(q, t.seen) /\ clawback[q] = NoClawback
                       THEN [clawback EXCEPT ![q] = [status |-> "PENDING",
                                                     amount |-> refOf[t.refund].amount]]
                       ELSE clawback
      /\ loose' = IF t.seen # Settled(q) \/ refSt[t.refund] # "PROCESSED"
                    THEN loose \cup {ret[q].slice} ELSE loose
      /\ Go(w, Waiting)
      /\ UNCHANGED <<cod, pay, sliceSt, refSt, refOf, settled, ret, doubled, crashes>>

\* The completion crashes or throws.
AbandonReturn(w) ==
  /\ wtask[w].ret # 0 /\ crashes < MaxFaults
  /\ crashes' = crashes + 1
  /\ loose' = IF wtask[w].do = "close" THEN loose \cup {ret[wtask[w].ret].slice} ELSE loose
  /\ Go(w, Waiting)
  /\ UNCHANGED <<refundState, settled, retSt, ret, clawback, doubled>>

\* Later: the webhook of a refund that was pending, or finance pays one by hand.
RefundConfirmed(r) ==
  /\ refSt[r] = IF cod THEN "REQUESTED" ELSE "PROCESSING"
  /\ \A w \in Workers : ~(wtask[w].do \in {"pay", "finalize"} /\ wtask[w].refund = r)
  /\ \/ Finalize(r)
     \/ /\ ~cod /\ GatewayFails
        /\ refSt' = [refSt EXCEPT ![r] = "FAILED"]
        /\ UNCHANGED <<cod, pay, sliceSt, link, refOf>>
  /\ UNCHANGED <<settled, retSt, ret, clawback, doubled, loose, wtask, crashes>>

-----------------------------------------------------------------------------
Customer == \E q \in Returns, s \in Slices, kind \in Resolutions :
              \E units \in 1 .. Bought[s] : RequestReturn(q, s, units, kind)
Handling(q) ==
  \/ ApproveReturn(q) \/ RejectReturn(q) \/ SchedulePickup(q) \/ ReverseScan(q)
  \/ ReceiveReturn(q) \/ QcFail(q) \/ QcPass(q) \/ ShipReplacement(q)
Resume(w)   == \E q \in Returns : CompleteReturn(w, q)
Complete(w) ==
  \/ FindLinkedRefund(w) \/ ReserveRefund(w) \/ PayRefund(w) \/ FinalizeReturnRefund(w)
  \/ CloseReturn(w)

ReturnsNext ==
  \/ Customer
  \/ \E q \in Returns : Handling(q) \/ ApproveReplacement(q)
  \/ \E w \in Workers : Resume(w) \/ Complete(w) \/ AbandonReturn(w)
  \/ \E r \in Refunds : RefundConfirmed(r)

ReturnsSpec == ReturnsInit /\ [][ReturnsNext]_returnVars

\* The cron fires every thirty minutes and takes every return that is QC_PASSED; a
\* completion that does not crash goes on.
ReturnsFairness ==
  /\ \A q \in Returns : WF_returnVars(ApproveReplacement(q))
  /\ \A q \in Returns : WF_returnVars(\E w \in Workers : CompleteReturn(w, q))
  /\ \A w \in Workers : WF_returnVars(Complete(w))

-----------------------------------------------------------------------------
ReturnsTypeOK ==
  /\ cod \in BOOLEAN
  /\ pay \in {"CAPTURED", "PARTIALLY_REFUNDED", "REFUNDED"}
  /\ sliceSt \in [Slices -> {"DELIVERED", "REFUNDED"}]
  /\ settled \subseteq Slices
  /\ retSt \in [Returns -> {"none"} \cup ReturnStatus]
  /\ ret \in [Returns -> [slice : Slices, units : Nat, kind : {"REFUND", "REPLACEMENT"}]]
  /\ link \in [Returns -> 0 .. MaxRefunds]
  /\ refSt \in [Refunds -> {"none", "REQUESTED", "PROCESSING", "PROCESSED", "FAILED"}]
  /\ refOf \in [Refunds -> [ret : 0 .. MaxReturns, amount : Int]]
  /\ clawback \in [Returns -> [status : {"none", "PENDING", "APPLIED"}, amount : Int]]
  /\ doubled \subseteq Returns /\ loose \subseteq Slices
  /\ wtask \in [Workers -> ReturnTask]
  /\ crashes \in Nat

\* "Idempotent per return": however often a completion crashes and is resumed, one
\* refund is reserved for the return, and a replacement never gets one.  Only two
\* completions at the same time can reserve two.
OneRefundPerReturn ==
  \A q \in Returns :
    LET mine == {r \in Refunds : refSt[r] # "none" /\ refOf[r].ret = q}
    IN  /\ q \notin doubled => Cardinality(mine) =< 1
        /\ ret[q].kind = "REPLACEMENT" => mine = {}

\* "The idempotent completion is re-driven here so money is never lost": a return
\* that passed inspection does not stay there.
NeverStuck ==
  \A q \in Returns : retSt[q] = "QC_PASSED" ~> retSt[q] # "QC_PASSED"
=============================================================================
