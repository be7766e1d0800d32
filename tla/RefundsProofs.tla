--------------------------- MODULE RefundsProofs ---------------------------
(***************************************************************************)
(* Proofs about Refunds, for any slices, amounts, number of refunds and    *)
(* handlers.  Each invariant stands on the one before it:                  *)
(*                                                                         *)
(*   RefundsTypeOK                                                         *)
(*   Links      what a task, the gateway or a finalization names exists    *)
(*   BackedInv  a handler finalizes what the gateway has paid out          *)
(*   OnceInv    what is known of a refund nobody disturbed                 *)
(*   CeilingInv what is underway, and what is committed to, fits           *)
(*   EffectsInv what a finalization finds done already (from Links)        *)
(*                                                                         *)
(* Sums over refunds come from SumTheorems.                                *)
(***************************************************************************)
EXTENDS Refunds, SumTheorems

-----------------------------------------------------------------------------
\* What was captured is an amount.
LEMMA CapturedNat == Captured \in Nat
<1>1. IsFiniteSet(Slices) /\ \A s \in Slices : Total[s] \in Nat
  BY RefundsConstantsOK
<1> QED BY <1>1, SumNat DEF Captured

\* Refunds are finitely many, and 0 stands for none of them.
LEMMA RefundsFinite ==
  /\ IsFiniteSet(Refunds) /\ Refunds \subseteq Nat /\ 0 \notin Refunds
  /\ \A S \in SUBSET Refunds : IsFiniteSet(S)
<1>1. MaxRefunds \in Nat
  BY RefundsConstantsOK
<1>2. IsFiniteSet(1 .. MaxRefunds)
  BY <1>1, FS_Interval
<1>3. IsFiniteSet(Refunds)
  BY <1>2 DEF Refunds
<1>4. \A S \in SUBSET Refunds : IsFiniteSet(S)
  BY <1>3, FS_Subset
<1> QED BY <1>1, <1>3, <1>4 DEF Refunds

\* What a task of each kind holds.
LEMMA TaskFacts ==
  ASSUME NEW t \in RefundTask
  PROVE  /\ t.do \in {"idle", "create", "approve", "mark", "send", "finalize", "reject", "fail",
                      "disburse", "store", "flip", "commit"}
         /\ t.refund \in Refunds \cup {0}
         /\ t.do \notin {"idle", "create"} <=> t.refund \in Refunds
         /\ t.do = "create" => t.row \in Row
         /\ t.do = "store" => t.sent \in 0 .. MaxSent
         /\ t.do \in {"flip", "commit"} => t.open \in SUBSET Slices
         /\ t.do = "commit" => t.full \in BOOLEAN
         /\ t.do = "idle" => t = Resting
BY RefundsFinite DEF RefundTask, Resting

\* The tasks the handlers set are tasks.
LEMMA TaskKinds ==
  /\ Resting \in RefundTask
  /\ \A row \in Row : [do |-> "create", refund |-> 0, row |-> row] \in RefundTask
  /\ \A r \in Refunds :
       \A do \in {"approve", "mark", "send", "finalize", "reject", "fail", "disburse"} :
         On(do, r) \in RefundTask
  /\ \A r \in Refunds, g \in 0 .. MaxSent :
       [do |-> "store", refund |-> r, sent |-> g] \in RefundTask
  /\ \A r \in Refunds, S \in SUBSET Slices :
       /\ [do |-> "flip", refund |-> r, open |-> S] \in RefundTask
       /\ \A b \in BOOLEAN : [do |-> "commit", refund |-> r, open |-> S, full |-> b] \in RefundTask
BY DEF RefundTask, Resting, On

\* Refunds come to an amount.
LEMMA SumsOfRefunds ==
  ASSUME refund \in [Refunds -> Row]
  PROVE  \A S \in SUBSET Refunds : SumOf(S) \in Nat
<1> SUFFICES ASSUME NEW S \in SUBSET Refunds PROVE SumOf(S) \in Nat
  OBVIOUS
<1>1. IsFiniteSet(S) /\ \A r \in S : Amounts[r] \in Nat
  BY RefundsFinite DEF Amounts, Row
<1> QED BY <1>1, SumNat DEF SumOf

\* A new row keeps the rows' types.
LEMMA NewRowTyped ==
  ASSUME RefundsTypeOK, NEW row \in Row, NewRow(row)
  PROVE  /\ refStatus' \in [Refunds -> {"none", "REQUESTED", "PROCESSING", "PROCESSED", "FAILED",
                                        "REJECTED"}]
         /\ refund' \in [Refunds -> Row]
BY DEF RefundsTypeOK, NewRow, Unused

\* So does a refund opened at the gateway.
LEMMA GatewayTyped ==
  ASSUME RefundsTypeOK, NEW r \in Refunds, NEW status \in {"pending", "processed"},
         OpenAtGateway(r, status)
  PROVE  gateway' \in [Sent -> GatewayRefund]
BY RefundsFinite DEF RefundsTypeOK, OpenAtGateway, GatewayRefund, Refunds

\* A refund's share of an accrual is an amount: no slice is free of charge.
LEMMA ShareNat ==
  ASSUME RefundsTypeOK, NEW r \in Refunds, NEW s \in Slices
  PROVE  Share(r, s) \in Nat
<1>1. refund[r].amount \in Nat /\ Total[s] \in Nat \ {0}
  BY RefundsConstantsOK DEF RefundsTypeOK, Row
<1>2. Captured \in Nat \ {0}
  <2>1. IsFiniteSet(Slices) /\ \A x \in Slices : Total[x] \in Nat
    BY RefundsConstantsOK
  <2>2. SumFunctionOnSet(Total, {s}) =< Captured
    BY <2>1, SumSubset DEF Captured
  <2>3. SumFunctionOnSet(Total, {s}) = Total[s]
    <3>1. SumFunctionOnSet(Total, {s}) = Total[s] + SumFunctionOnSet(Total, {s} \ {s})
      <4>1. IsFiniteSet({s}) /\ \A x \in {s} : Total[x] \in Int
        <5>1. IsFiniteSet({s})
          BY FS_Singleton
        <5> QED BY <5>1, <1>1
      <4> QED BY <4>1, SumRemove
    <3>2. {s} \ {s} = {}
      OBVIOUS
    <3> QED BY <3>1, <3>2, <1>1, SumEmpty
  <2> QED BY <2>2, <2>3, <1>1, CapturedNat
<1>3. Accrued(s) \in Nat
  BY <1>1, <1>2 DEF Accrued
<1> DEFINE whole == IF refund[r].scope = Whole THEN Captured ELSE Total[s]
           part  == IF refund[r].amount < whole THEN refund[r].amount ELSE whole
<1>4. whole \in Nat \ {0} /\ part \in Nat
  BY <1>1, <1>2
<1>5. part * (Accrued(s) \div whole) \in Nat
  <2>1. \A a \in Nat, b \in Nat \ {0} : a \div b \in Nat
    OBVIOUS
  <2>2. Accrued(s) \div whole \in Nat
    BY <1>3, <1>4, <2>1
  <2>3. \A a, b \in Nat : a * b \in Nat
    OBVIOUS
  <2> QED BY <1>4, <2>2, <2>3
<1> QED BY <1>5 DEF Share

\* The types hold at first.
LEMMA InitType == RefundsInit => RefundsTypeOK
<1>1. SUFFICES ASSUME RefundsInit PROVE RefundsTypeOK
  OBVIOUS
<1>2. NoRow \in Row /\ Unsent \in GatewayRefund /\ Resting \in RefundTask
  BY RefundsConstantsOK, TaskKinds DEF NoRow, Row, Unsent, GatewayRefund
<1>3. \A s \in Slices : Accrued(s) \in Int
  BY RefundsConstantsOK, CapturedNat DEF Accrued
<1>4. inPayout \subseteq Slices
  BY <1>1, RefundsConstantsOK DEF RefundsInit
<1>5. gid \in [Refunds -> 0 .. MaxSent]
  BY <1>1, RefundsConstantsOK DEF RefundsInit
<1>6. rfaults \in Nat /\ restocked \in [Refunds -> [Slices -> Nat]]
  BY <1>1 DEF RefundsInit, Nothing
<1> QED BY <1>1, <1>2, <1>3, <1>4, <1>5, <1>6 DEF RefundsInit, RefundsTypeOK

\* A handler that goes on keeps every other task as it was.
LEMMA TurnTyped ==
  ASSUME RefundsTypeOK, NEW w \in Workers, NEW t \in RefundTask, Begin(w, t) \/ Turn(w, t)
  PROVE  rtask' \in [Workers -> RefundTask]
BY DEF RefundsTypeOK, Begin, Turn

\* A handler's next task, and everybody else's.
LEMMA Turned ==
  ASSUME RefundsTypeOK, NEW w \in Workers, NEW t, Begin(w, t) \/ Turn(w, t)
  PROVE  \A v \in Workers : rtask'[v] = IF v = w THEN t ELSE rtask[v]
BY DEF RefundsTypeOK, Begin, Turn

\* Every call keeps the types.
LEMMA CallType ==
  ASSUME RefundsTypeOK, NEW w \in Workers, RefundCall(w)
  PROVE  RefundsTypeOK'
<1>1. ASSUME NEW ask \in Asks, RequestRefund(w, ask) PROVE RefundsTypeOK'
  <2>1. ask \in Row
    BY RefundsConstantsOK DEF Row
  <2>2. rtask' \in [Workers -> RefundTask]
    BY <1>1, <2>1, TaskKinds, TurnTyped DEF RequestRefund
  <2> QED BY <1>1, <2>2 DEF RequestRefund, RefundsTypeOK, ledger, history
<1>2. ASSUME NEW s \in Slices, NEW a \in Parts, CreateSellerRefund(w, s, a) PROVE RefundsTypeOK'
  <2>1. [scope |-> s, amount |-> a, restock |-> FALSE, goods |-> 0, for |-> "seller"] \in Row
    BY RefundsConstantsOK DEF Row
  <2>2. /\ refStatus' \in [Refunds -> {"none", "REQUESTED", "PROCESSING", "PROCESSED", "FAILED",
                                       "REJECTED"}]
        /\ refund' \in [Refunds -> Row]
    BY <1>2, <2>1, NewRowTyped DEF CreateSellerRefund
  <2>3. PICK r \in Unused : Begin(w, On("approve", r))
    BY <1>2 DEF CreateSellerRefund
  <2>4. rtask' \in [Workers -> RefundTask]
    <3>1. On("approve", r) \in RefundTask
      BY TaskKinds DEF Unused
    <3> QED BY <2>3, <3>1, TurnTyped
  <2>5. overlapped' \in BOOLEAN
    BY <1>2 DEF CreateSellerRefund
  <2> QED BY <1>2, <2>2, <2>4, <2>5 DEF CreateSellerRefund, RefundsTypeOK, ledger
<1>3. ASSUME NEW s \in Slices, NEW a \in Parts, RefundForReturn(w, s, a) PROVE RefundsTypeOK'
  <2> DEFINE paid == IF a =< MaxRefundable THEN a ELSE MaxRefundable
  <2>1. a \in Nat /\ paid \in Nat
    <3>1. WithStatus(Underway) \ {} \in SUBSET Refunds
      BY DEF WithStatus
    <3>2. SumRefunds({}) \in Nat
      BY <3>1, SumsOfRefunds DEF SumRefunds, RefundsTypeOK
    <3>3. MaxRefundable \in Int /\ a \in Nat
      BY <3>2, CapturedNat, RefundsConstantsOK DEF MaxRefundable
    <3> QED BY <1>3, <3>3 DEF RefundForReturn
  <2>2. [scope |-> s, amount |-> paid, restock |-> TRUE, goods |-> a, for |-> "return"] \in Row
    BY <2>1 DEF Row
  <2>3. /\ refStatus' \in [Refunds -> {"none", "REQUESTED", "PROCESSING", "PROCESSED", "FAILED",
                                       "REJECTED"}]
        /\ refund' \in [Refunds -> Row]
    BY <1>3, <2>2, NewRowTyped DEF RefundForReturn
  <2>4. rtask' \in [Workers -> RefundTask]
    <3>1. PICK r \in Unused : rtask' = rtask \/ Begin(w, On("approve", r))
      BY <1>3 DEF RefundForReturn
    <3>2. On("approve", r) \in RefundTask
      BY TaskKinds DEF Unused
    <3> QED BY <3>1, <3>2, TurnTyped DEF RefundsTypeOK
  <2>5. overlapped' \in BOOLEAN
    BY <1>3 DEF RefundForReturn
  <2> QED BY <1>3, <2>3, <2>4, <2>5 DEF RefundForReturn, RefundsTypeOK, ledger
<1>4. ASSUME NEW r \in Refunds, ApproveRefund(w, r) PROVE RefundsTypeOK'
  <2>1. rtask' \in [Workers -> RefundTask]
    BY <1>4, TaskKinds, TurnTyped DEF ApproveRefund
  <2>2. overlapped' \in BOOLEAN /\ disturbed' \subseteq Refunds
    BY <1>4 DEF ApproveRefund, Disturbs, RefundsTypeOK
  <2> QED BY <1>4, <2>1, <2>2 DEF ApproveRefund, RefundsTypeOK, ledger
<1>5. ASSUME NEW r \in Refunds, RejectRefund(w, r) PROVE RefundsTypeOK'
  <2>1. rtask' \in [Workers -> RefundTask]
    BY <1>5, TaskKinds, TurnTyped DEF RejectRefund
  <2> QED BY <1>5, <2>1 DEF RejectRefund, RefundsTypeOK, ledger
<1>6. ASSUME NEW r \in Refunds, DisburseManualRefund(w, r) PROVE RefundsTypeOK'
  <2>1. rtask' \in [Workers -> RefundTask]
    BY <1>6, TaskKinds, TurnTyped DEF DisburseManualRefund
  <2>2. overlapped' \in BOOLEAN
    BY <1>6 DEF DisburseManualRefund
  <2> QED BY <1>6, <2>1, <2>2 DEF DisburseManualRefund, RefundsTypeOK, ledger
<1>7. ASSUME NEW g \in Sent, HandleRefundWebhook(w, g) PROVE RefundsTypeOK'
  <2>1. PICK status \in {"processed", "failed"}, r \in Refunds :
          /\ gateway' = [gateway EXCEPT ![g].status = status]
          /\ Begin(w, On(IF status = "processed" THEN "finalize" ELSE "fail", r))
    BY <1>7 DEF HandleRefundWebhook
  <2>2. rtask' \in [Workers -> RefundTask]
    BY <2>1, TaskKinds, TurnTyped
  <2>3. gateway' \in [Sent -> GatewayRefund]
    BY <2>1 DEF RefundsTypeOK, GatewayRefund
  <2> QED BY <1>7, <2>2, <2>3 DEF HandleRefundWebhook, RefundsTypeOK, ledger, history
<1> QED BY <1>1, <1>2, <1>3, <1>4, <1>5, <1>6, <1>7 DEF RefundCall

\* The refund a handler is at.
LEMMA TaskOf ==
  ASSUME RefundsTypeOK, NEW w \in Workers, rtask[w].do \notin {"idle", "create"}
  PROVE  rtask[w].refund \in Refunds
BY TaskFacts DEF RefundsTypeOK

\* Every later step of a handler keeps the types.
LEMMA StepType ==
  ASSUME RefundsTypeOK, NEW w \in Workers, RefundStep(w) \/ AbandonRefund(w)
  PROVE  RefundsTypeOK'
<1> DEFINE r == rtask[w].refund
<1>0. /\ rtask[w] \in RefundTask
      /\ ~ At(w, "create") /\ rtask[w] # Resting => r \in Refunds
  BY TaskFacts DEF RefundsTypeOK, At
<1>1. CASE CreateRefund(w)
  <2>1. rtask[w].row \in Row
    BY <1>0, <1>1, TaskFacts DEF CreateRefund, At
  <2>2. /\ refStatus' \in [Refunds -> {"none", "REQUESTED", "PROCESSING", "PROCESSED", "FAILED",
                                       "REJECTED"}]
        /\ refund' \in [Refunds -> Row]
    BY <1>1, <2>1, NewRowTyped DEF CreateRefund
  <2>3. rtask' \in [Workers -> RefundTask]
    BY <1>1, TaskKinds, TurnTyped DEF CreateRefund
  <2> QED BY <1>1, <2>2, <2>3 DEF CreateRefund, RefundsTypeOK, ledger, history
<1>2. CASE CheckCeiling(w)
  <2>1. r \in Refunds
    BY <1>2, TaskOf DEF CheckCeiling, At
  <2>2. rtask' \in [Workers -> RefundTask]
    BY <1>2, <2>1, TaskKinds, TurnTyped DEF CheckCeiling
  <2> QED BY <1>2, <2>2 DEF CheckCeiling, RefundsTypeOK, ledger, history
<1>3. CASE MarkProcessing(w)
  <2>1. r \in Refunds
    BY <1>3, TaskOf DEF MarkProcessing, At
  <2>2. rtask' \in [Workers -> RefundTask]
    BY <1>3, <2>1, TaskKinds, TurnTyped DEF MarkProcessing
  <2> QED BY <1>3, <2>2 DEF MarkProcessing, RefundsTypeOK, ledger, history
<1>4. CASE CallGateway(w)
  <2>1. r \in Refunds
    BY <1>4, TaskOf DEF CallGateway, At
  <2>2. gateway' \in [Sent -> GatewayRefund]
    BY <1>4, <2>1, GatewayTyped DEF CallGateway, RefundsTypeOK
  <2>3. rtask' \in [Workers -> RefundTask]
    <3>1. PICK g \in Sent \cup {0} : Turn(w, [do |-> "store", refund |-> r, sent |-> g])
      BY <1>4 DEF CallGateway
    <3>2. g \in 0 .. MaxSent
      BY RefundsConstantsOK DEF Sent
    <3> QED BY <2>1, <3>1, <3>2, TaskKinds, TurnTyped
  <2>4. disturbed' \subseteq Refunds /\ rfaults' \in Nat
    BY <1>4, <2>1 DEF CallGateway, RefundFault, RefundsTypeOK
  <2> QED BY <1>4, <2>2, <2>3, <2>4 DEF CallGateway, RefundsTypeOK, ledger
<1>5. CASE StoreAnswer(w)
  <2>1. r \in Refunds /\ rtask[w].sent \in 0 .. MaxSent
    BY <1>0, <1>5, TaskOf, TaskFacts DEF StoreAnswer, At
  <2>2. rtask' \in [Workers -> RefundTask]
    BY <1>5, <2>1, TaskKinds, TurnTyped DEF StoreAnswer
  <2> QED BY <1>5, <2>1, <2>2 DEF StoreAnswer, RefundsTypeOK, ledger, history
<1>6. CASE MarkRejected(w)
  <2>1. r \in Refunds
    BY <1>6, TaskOf DEF MarkRejected, At
  <2>2. rtask' \in [Workers -> RefundTask]
    BY <1>6, TaskKinds, TurnTyped DEF MarkRejected
  <2> QED BY <1>6, <2>1, <2>2 DEF MarkRejected, RefundsTypeOK, ledger
<1>7. CASE CheckDisbursement(w)
  <2>1. r \in Refunds
    BY <1>7, TaskOf DEF CheckDisbursement, At
  <2>2. rtask' \in [Workers -> RefundTask]
    BY <1>7, <2>1, TaskKinds, TurnTyped DEF CheckDisbursement
  <2> QED BY <1>7, <2>2 DEF CheckDisbursement, RefundsTypeOK, ledger, history
<1>8. CASE MarkFailed(w)
  <2>1. rtask' \in [Workers -> RefundTask]
    BY <1>8, TaskKinds, TurnTyped DEF MarkFailed
  <2> QED BY <1>8, <2>1 DEF MarkFailed, RefundsTypeOK, ledger, history
<1>9. CASE FinalizeRefund(w)
  <2>1. r \in Refunds
    BY <1>9, TaskOf DEF FinalizeRefund, At
  <2>2. {s \in Scope(r) : sliceStatus[s] \notin {"REFUNDED", "CANCELLED"}} \in SUBSET Slices
    BY <2>1 DEF Scope, RefundsTypeOK, Row
  <2>3. rtask' \in [Workers -> RefundTask]
    BY <1>9, <2>1, <2>2, TaskKinds, TurnTyped DEF FinalizeRefund
  <2> QED BY <1>9, <2>3 DEF FinalizeRefund, RefundsTypeOK, ledger, history
<1>10. CASE FlipProcessed(w)
  <2>1. r \in Refunds /\ rtask[w].open \in SUBSET Slices
    BY <1>0, <1>10, TaskOf, TaskFacts DEF FlipProcessed, At
  <2>2. \A b \in BOOLEAN :
          [do |-> "commit", refund |-> r, open |-> rtask[w].open, full |-> b] \in RefundTask
    BY <2>1, TaskKinds
  <2>3. rtask' \in [Workers -> RefundTask]
    <3> DEFINE b == SumOf(WithStatus({"PROCESSED"}) \cup {r}) >= Captured
               t == [do |-> "commit", refund |-> r, open |-> rtask[w].open, full |-> b]
    <3>1. Turn(w, IF refStatus[r] = "PROCESSED" THEN Resting ELSE t)
      BY <1>10 DEF FlipProcessed
    <3>2. b \in BOOLEAN
      OBVIOUS
    <3>3. t \in RefundTask
      BY <2>2, <3>2
    <3> HIDE DEF t
    <3> QED BY <3>1, <3>3, TaskKinds, TurnTyped
  <2> QED BY <1>10, <2>3 DEF FlipProcessed, RefundsTypeOK, ledger, history
<1>11. CASE CommitRefund(w)
  <2>1. r \in Refunds
    BY <1>11, TaskOf DEF CommitRefund, At
  <2>2. rtask' \in [Workers -> RefundTask]
    BY <1>11, TaskKinds, TurnTyped DEF CommitRefund
  <2>3. \A b : Settled(b) \in {"PARTIALLY_REFUNDED", "REFUNDED"}
    BY DEF Settled
  <2>4. /\ payStatus' \in {"CAPTURED", "PARTIALLY_REFUNDED", "REFUNDED"}
        /\ slicePay' \in [Slices -> {"PAID", "PARTIALLY_REFUNDED", "REFUNDED"}]
        /\ sliceStatus' \in [Slices -> {"OPEN", "DELIVERED", "CANCELLED", "REFUNDED"}]
    BY <1>11, <2>3 DEF CommitRefund, RefundsTypeOK
  <2>5. GoesBack(r) \in [Slices -> Nat]
    BY <2>1, RefundsConstantsOK DEF GoesBack, Units, RefundsTypeOK, Row
  <2>6. restocked' \in [Refunds -> [Slices -> Nat]]
    <3>1. restocked' = [restocked EXCEPT ![r] = [s \in Slices |-> @[s] + GoesBack(r)[s]]]
      BY <1>11 DEF CommitRefund, Restock
    <3> HIDE DEF r
    <3> QED BY <2>1, <2>5, <3>1 DEF RefundsTypeOK
  <2>7. tcsLeft' \in [Slices -> Int]
    <3>1. \A s \in Slices : Share(r, s) \in Nat
      BY <2>1, ShareNat
    <3> QED BY <1>11, <3>1 DEF CommitRefund, Reverse, LeftAfter, RefundsTypeOK
  <2>8. reversed' \in [Refunds -> SUBSET Slices]
    <3>1. Scope(r) \in SUBSET Slices
      BY <2>1 DEF Scope, RefundsTypeOK, Row
    <3> QED BY <1>11, <3>1 DEF CommitRefund, Reverse, RefundsTypeOK
  <2>9. refStatus' \in [Refunds ->
          {"none", "REQUESTED", "PROCESSING", "PROCESSED", "FAILED", "REJECTED"}]
    BY <1>11 DEF CommitRefund, RefundsTypeOK
  <2>10. finalized' \subseteq Refunds
    BY <1>11, <2>1 DEF CommitRefund, RefundsTypeOK
  <2> QED BY <1>11, <2>2, <2>4, <2>6, <2>7, <2>8, <2>9, <2>10
          DEF CommitRefund, RefundsTypeOK, history
<1>12. CASE RefuseRefund(w)
  <2>1. rtask' \in [Workers -> RefundTask]
    BY <1>12, TaskKinds, TurnTyped DEF RefuseRefund
  <2> QED BY <1>12, <2>1 DEF RefuseRefund, RefundsTypeOK, ledger, history
<1>13. CASE AbandonRefund(w)
  <2>1. r \in Refunds
    BY <1>13, TaskOf DEF AbandonRefund
  <2>2. rtask' \in [Workers -> RefundTask]
    BY <1>13, TaskKinds, TurnTyped DEF AbandonRefund
  <2> QED BY <1>13, <2>1, <2>2 DEF AbandonRefund, RefundFault, RefundsTypeOK, ledger
<1> QED BY <1>1, <1>2, <1>3, <1>4, <1>5, <1>6, <1>7, <1>8, <1>9, <1>10, <1>11, <1>12, <1>13
        DEF RefundStep

\* Nothing changes, so neither do the types.
LEMMA StutterType == RefundsTypeOK /\ UNCHANGED refundVars => RefundsTypeOK'
BY DEF RefundsTypeOK, refundVars, ledger, history

\* Every variable of a refund, of the gateway and of the tax ledger keeps its type
\* however RefundService's handlers interleave.
THEOREM RefundsType == RefundsSpec => []RefundsTypeOK
<1>1. RefundsTypeOK /\ [RefundsNext]_refundVars => RefundsTypeOK'
  BY CallType, StepType, StutterType DEF RefundsNext
<1> QED BY <1>1, InitType, PTL DEF RefundsSpec

-----------------------------------------------------------------------------
(***************************************************************************)
(* Rows and links: what a task, a finalization or the gateway names exists.*)
(***************************************************************************)
Finishing == {"finalize", "flip", "commit"}
AtGateway == {"approve", "mark", "send", "store"}
SentFor(r) == {g \in Sent : gateway[g].of = r}

RowsExist ==
  /\ \A w \in Workers : rtask[w].refund # 0 => refStatus[rtask[w].refund] # "none"
  /\ \A r \in finalized : refStatus[r] # "none"
  /\ \A g \in Sent : gateway[g].of # 0 => refStatus[gateway[g].of] # "none"

GatewayLinked ==
  /\ \A g \in Sent : gateway[g].of = 0 <=> gateway[g].status = "none"
  /\ \A r \in Refunds : gid[r] # 0 => gateway[gid[r]].of = r
  /\ \A w \in Workers : rtask[w].do = "store" /\ rtask[w].sent # 0 =>
       gateway[rtask[w].sent].of = rtask[w].refund
  /\ \A w \in Workers : IF manual THEN rtask[w].do \notin AtGateway \cup {"fail"}
                                   ELSE rtask[w].do # "disburse"
  /\ manual => \A g \in Sent : gateway[g].of = 0

Links == RefundsTypeOK /\ RowsExist /\ GatewayLinked

\* At first there is nothing to link.
LEMMA InitLinks == RefundsInit => Links
<1> SUFFICES ASSUME RefundsInit PROVE Links
  OBVIOUS
<1> QED BY InitType DEF RefundsInit, Links, RowsExist, GatewayLinked, Unsent, Resting, AtGateway

\* A step adds a row, moves the status of one, or leaves the rows alone.
RowAdded ==
  \E r \in Unused :
    /\ refStatus' = [refStatus EXCEPT ![r] = "REQUESTED"]
    /\ \E row : refund' = [refund EXCEPT ![r] = row]
StatusMoved ==
  /\ \E r \in Refunds, st \in {"PROCESSING", "PROCESSED", "FAILED", "REJECTED"} :
       refStatus' = [refStatus EXCEPT ![r] = st]
  /\ UNCHANGED refund

\* Every step is one of the three.
LEMMA RowMoves ==
  ASSUME RefundsTypeOK, NEW w \in Workers, RefundCall(w) \/ RefundStep(w) \/ AbandonRefund(w)
  PROVE  UNCHANGED <<refStatus, refund>> \/ RowAdded \/ StatusMoved
<1>1. ASSUME NEW ask \in Asks, RequestRefund(w, ask)
      PROVE  UNCHANGED <<refStatus, refund>> \/ RowAdded
  BY <1>1 DEF RequestRefund
<1>2. ASSUME NEW s \in Slices, NEW a \in Parts, CreateSellerRefund(w, s, a)
      PROVE  UNCHANGED <<refStatus, refund>> \/ RowAdded
  BY <1>2 DEF CreateSellerRefund, NewRow, RowAdded
<1>3. ASSUME NEW s \in Slices, NEW a \in Parts, RefundForReturn(w, s, a)
      PROVE  UNCHANGED <<refStatus, refund>> \/ RowAdded
  BY <1>3 DEF RefundForReturn, NewRow, RowAdded
<1>4. ASSUME NEW r \in Refunds, ApproveRefund(w, r)
      PROVE  UNCHANGED <<refStatus, refund>> \/ RowAdded
  BY <1>4 DEF ApproveRefund
<1>5. ASSUME NEW r \in Refunds, RejectRefund(w, r)
      PROVE  UNCHANGED <<refStatus, refund>> \/ RowAdded
  BY <1>5 DEF RejectRefund
<1>6. ASSUME NEW r \in Refunds, DisburseManualRefund(w, r)
      PROVE  UNCHANGED <<refStatus, refund>> \/ RowAdded
  BY <1>6 DEF DisburseManualRefund
<1>7. ASSUME NEW g \in Sent, HandleRefundWebhook(w, g)
      PROVE  UNCHANGED <<refStatus, refund>> \/ RowAdded
  BY <1>7 DEF HandleRefundWebhook
<1>8. CASE CreateRefund(w)
  BY <1>8 DEF CreateRefund, NewRow, RowAdded
<1>9. CASE CheckCeiling(w)
  BY <1>9 DEF CheckCeiling
<1>10. CASE MarkProcessing(w)
  <2>1. rtask[w].refund \in Refunds
    BY <1>10, TaskOf DEF MarkProcessing, At
  <2> QED BY <1>10, <2>1 DEF MarkProcessing, StatusMoved
<1>11. CASE CallGateway(w)
  BY <1>11 DEF CallGateway
<1>12. CASE StoreAnswer(w)
  <2>1. rtask[w].refund \in Refunds
    BY <1>12, TaskOf DEF StoreAnswer, At
  <2> QED BY <1>12, <2>1 DEF StoreAnswer, StatusMoved
<1>13. CASE MarkRejected(w)
  <2>1. rtask[w].refund \in Refunds
    BY <1>13, TaskOf DEF MarkRejected, At
  <2> QED BY <1>13, <2>1 DEF MarkRejected, StatusMoved
<1>14. CASE CheckDisbursement(w)
  BY <1>14 DEF CheckDisbursement
<1>15. CASE MarkFailed(w)
  <2>1. rtask[w].refund \in Refunds
    BY <1>15, TaskOf DEF MarkFailed, At
  <2> QED BY <1>15, <2>1 DEF MarkFailed, StatusMoved
<1>16. CASE FinalizeRefund(w)
  BY <1>16 DEF FinalizeRefund
<1>17. CASE FlipProcessed(w)
  BY <1>17 DEF FlipProcessed
<1>18. CASE CommitRefund(w)
  <2>1. rtask[w].refund \in Refunds
    BY <1>18, TaskOf DEF CommitRefund, At
  <2> QED BY <1>18, <2>1 DEF CommitRefund, StatusMoved
<1>19. CASE RefuseRefund(w)
  BY <1>19 DEF RefuseRefund
<1>20. CASE AbandonRefund(w)
  BY <1>20 DEF AbandonRefund
<1> QED BY <1>1, <1>2, <1>3, <1>4, <1>5, <1>6, <1>7, <1>8, <1>9, <1>10, <1>11, <1>12, <1>13,
           <1>14, <1>15, <1>16, <1>17, <1>18, <1>19, <1>20
        DEF RefundCall, RefundStep

\* A row is never deleted, and its scope and amount never change.
LEMMA RowsStay ==
  ASSUME RefundsTypeOK, NEW w \in Workers, RefundCall(w) \/ RefundStep(w) \/ AbandonRefund(w),
         NEW r \in Refunds, refStatus[r] # "none"
  PROVE  refStatus'[r] # "none" /\ refund'[r] = refund[r]
<1>1. CASE UNCHANGED <<refStatus, refund>>
  BY <1>1
<1>2. CASE RowAdded
  BY <1>2 DEF RowAdded, RefundsTypeOK, Unused
<1>3. CASE StatusMoved
  BY <1>3 DEF StatusMoved, RefundsTypeOK
<1> QED BY <1>1, <1>2, <1>3, RowMoves

\* What is named keeps existing.
LEMMA RowsKept ==
  ASSUME Links, NEW w \in Workers, RefundCall(w) \/ RefundStep(w) \/ AbandonRefund(w)
  PROVE  RowsExist'
<1> DEFINE r0 == rtask[w].refund
<1>a. /\ RefundsTypeOK /\ RowsExist /\ GatewayLinked
      /\ \A r \in Refunds : refStatus[r] # "none" => refStatus'[r] # "none"
  BY RowsStay DEF Links
<1>b. r0 \in Refunds \cup {0} /\ (rtask[w].do \notin {"idle", "create"} <=> r0 \in Refunds)
  BY <1>a, TaskFacts DEF RefundsTypeOK
<1>c. \A v \in Workers : rtask[v].refund \in Refunds \cup {0}
  BY <1>a, TaskFacts DEF RefundsTypeOK
<1>d. \A g \in Sent : gateway[g].of \in Refunds \cup {0}
  BY <1>a, RefundsConstantsOK DEF RefundsTypeOK, GatewayRefund, Refunds
<1>1. ASSUME NEW ask \in Asks, RequestRefund(w, ask) PROVE RowsExist'
  BY <1>1, <1>a, <1>b, <1>c, <1>d DEF RequestRefund, Begin, Turn, At, On, Resting, RowsExist,
     RefundsTypeOK, ledger
<1>2. ASSUME NEW s \in Slices, NEW a \in Parts, CreateSellerRefund(w, s, a) PROVE RowsExist'
  BY <1>2, <1>a, <1>b, <1>c, <1>d DEF CreateSellerRefund, Begin, Turn, At, On, Resting,
     RowsExist, RefundsTypeOK, ledger, NewRow, Unused
<1>3. ASSUME NEW s \in Slices, NEW a \in Parts, RefundForReturn(w, s, a) PROVE RowsExist'
  <2>1. PICK r \in Unused : refStatus'[r] # "none" /\ (rtask' = rtask \/ Begin(w, On("approve", r)))
    BY <1>3 DEF RefundForReturn
  <2>2. UNCHANGED <<finalized, gateway>>
    BY <1>3 DEF RefundForReturn, ledger
  <2>3. \A v \in Workers : rtask'[v].refund \in {rtask[v].refund, r}
    BY <2>1, <1>a, Turned DEF On
  <2> QED BY <2>1, <2>2, <2>3, <1>a, <1>c, <1>d DEF RowsExist, Unused, RefundsTypeOK
<1>4. ASSUME NEW r \in Refunds, ApproveRefund(w, r) PROVE RowsExist'
  BY <1>4, <1>a, <1>b, <1>c, <1>d DEF ApproveRefund, Begin, Turn, At, On, Resting, RowsExist,
     RefundsTypeOK, ledger
<1>5. ASSUME NEW r \in Refunds, RejectRefund(w, r) PROVE RowsExist'
  BY <1>5, <1>a, <1>b, <1>c, <1>d DEF RejectRefund, Begin, Turn, At, On, Resting, RowsExist,
     RefundsTypeOK, ledger
<1>6. ASSUME NEW r \in Refunds, DisburseManualRefund(w, r) PROVE RowsExist'
  BY <1>6, <1>a, <1>b, <1>c, <1>d DEF DisburseManualRefund, Begin, Turn, At, On, Resting,
     RowsExist, RefundsTypeOK, ledger
<1>7. ASSUME NEW g \in Sent, HandleRefundWebhook(w, g) PROVE RowsExist'
  <2>1. PICK status \in {"processed", "failed"}, r \in Refunds :
          /\ gateway' = [gateway EXCEPT ![g].status = status]
          /\ gid[r] = g
          /\ Begin(w, On(IF status = "processed" THEN "finalize" ELSE "fail", r))
    BY <1>7 DEF HandleRefundWebhook
  <2>2. g # 0
    BY RefundsConstantsOK DEF Sent
  <2>3. gateway[g].of = r /\ r # 0
    BY <2>1, <2>2, <1>a, RefundsFinite DEF GatewayLinked
  <2>4. refStatus[r] # "none"
    BY <2>3, <1>a DEF RowsExist
  <2>5. \A v \in Workers : rtask'[v] = rtask[v] \/ rtask'[v].refund = r
    BY <2>1, <1>a, Turned DEF On
  <2>6. \A h \in Sent : gateway'[h].of = gateway[h].of
    BY <2>1, <1>a DEF RefundsTypeOK, GatewayRefund
  <2>7. UNCHANGED <<finalized, refStatus>>
    BY <1>7 DEF HandleRefundWebhook, ledger
  <2> QED BY <2>4, <2>5, <2>6, <2>7, <1>a, <1>c DEF RowsExist
<1>8. CASE CreateRefund(w)
  BY <1>8, <1>a, <1>b, <1>c, <1>d DEF CreateRefund, Begin, Turn, At, On, Resting, RowsExist,
     RefundsTypeOK, ledger, NewRow, Unused
<1>9. CASE CheckCeiling(w)
  BY <1>9, <1>a, <1>b, <1>c, <1>d DEF CheckCeiling, Begin, Turn, At, On, Resting, RowsExist,
     RefundsTypeOK, ledger
<1>10. CASE MarkProcessing(w)
  BY <1>10, <1>a, <1>b, <1>c, <1>d DEF MarkProcessing, Begin, Turn, At, On, Resting, RowsExist,
     RefundsTypeOK, ledger
<1>11. CASE CallGateway(w)
  <2>1. r0 \in Refunds /\ r0 # 0 /\ refStatus[r0] # "none"
    BY <1>11, <1>a, <1>b, RefundsFinite DEF CallGateway, At, RowsExist
  <2>2. \A h \in Sent : gateway'[h].of \in {gateway[h].of, r0}
    BY <1>11, <1>a DEF CallGateway, OpenAtGateway, RefundsTypeOK, GatewayRefund
  <2>3. \A v \in Workers : rtask'[v].refund \in {rtask[v].refund, r0}
    <3>1. PICK g \in Sent \cup {0} : Turn(w, [do |-> "store", refund |-> r0, sent |-> g])
      BY <1>11 DEF CallGateway
    <3> QED BY <3>1, <1>a DEF Turn, RefundsTypeOK
  <2>4. UNCHANGED <<finalized, refStatus>>
    BY <1>11 DEF CallGateway, ledger
  <2> QED BY <2>1, <2>2, <2>3, <2>4, <1>a DEF RowsExist
<1>12. CASE StoreAnswer(w)
  BY <1>12, <1>a, <1>b, <1>c, <1>d DEF StoreAnswer, Begin, Turn, At, On, Resting, RowsExist,
     RefundsTypeOK, ledger
<1>13. CASE MarkRejected(w)
  BY <1>13, <1>a, <1>b, <1>c, <1>d DEF MarkRejected, Begin, Turn, At, On, Resting, RowsExist,
     RefundsTypeOK, ledger
<1>14. CASE CheckDisbursement(w)
  BY <1>14, <1>a, <1>b, <1>c, <1>d DEF CheckDisbursement, Begin, Turn, At, On, Resting,
     RowsExist, RefundsTypeOK, ledger
<1>15. CASE MarkFailed(w)
  BY <1>15, <1>a, <1>b, <1>c, <1>d DEF MarkFailed, Begin, Turn, At, On, Resting, RowsExist,
     RefundsTypeOK, ledger
<1>16. CASE FinalizeRefund(w)
  BY <1>16, <1>a, <1>b, <1>c, <1>d DEF FinalizeRefund, Begin, Turn, At, On, Resting, RowsExist,
     RefundsTypeOK, ledger
<1>17. CASE FlipProcessed(w)
  BY <1>17, <1>a, <1>b, <1>c, <1>d DEF FlipProcessed, Begin, Turn, At, On, Resting, RowsExist,
     RefundsTypeOK, ledger
<1>18. CASE CommitRefund(w)
  BY <1>18, <1>a, <1>b, <1>c, <1>d DEF CommitRefund, Begin, Turn, At, On, Resting, RowsExist,
     RefundsTypeOK, ledger
<1>19. CASE RefuseRefund(w)
  BY <1>19, <1>a, <1>b, <1>c, <1>d DEF RefuseRefund, Begin, Turn, At, On, Resting, RowsExist,
     RefundsTypeOK, ledger
<1>20. CASE AbandonRefund(w)
  BY <1>20, <1>a, <1>b, <1>c, <1>d DEF AbandonRefund, Begin, Turn, At, On, Resting, RowsExist,
     RefundsTypeOK, ledger
<1> QED BY <1>1, <1>2, <1>3, <1>4, <1>5, <1>6, <1>7, <1>8, <1>9, <1>10, <1>11, <1>12, <1>13,
           <1>14, <1>15, <1>16, <1>17, <1>18, <1>19, <1>20
        DEF RefundCall, RefundStep

\* A stored or remembered gateway id keeps naming a refund of the row's own.
LEMMA LinksKept ==
  ASSUME Links, NEW w \in Workers, RefundCall(w) \/ RefundStep(w) \/ AbandonRefund(w)
  PROVE  GatewayLinked'
<1> DEFINE r0 == rtask[w].refund
<1>a. /\ RefundsTypeOK /\ RowsExist /\ GatewayLinked
  BY DEF Links
<1>b. /\ rtask[w] \in RefundTask
      /\ r0 \in Refunds \cup {0} /\ (rtask[w].do \notin {"idle", "create"} <=> r0 \in Refunds)
      /\ 0 \notin Refunds
  BY <1>a, TaskFacts, RefundsFinite DEF RefundsTypeOK
<1>1. ASSUME NEW ask \in Asks, RequestRefund(w, ask) PROVE GatewayLinked'
  BY <1>1, <1>a, <1>b DEF RequestRefund, Begin, Turn, At, On, Resting, GatewayLinked, AtGateway,
     RefundsTypeOK, ledger
<1>2. ASSUME NEW s \in Slices, NEW a \in Parts, CreateSellerRefund(w, s, a) PROVE GatewayLinked'
  BY <1>2, <1>a, <1>b DEF CreateSellerRefund, Begin, Turn, At, On, Resting, GatewayLinked,
     AtGateway, RefundsTypeOK, ledger
<1>3. ASSUME NEW s \in Slices, NEW a \in Parts, RefundForReturn(w, s, a) PROVE GatewayLinked'
  <2>1. PICK r \in Unused : IF manual THEN UNCHANGED rtask ELSE Begin(w, On("approve", r))
    BY <1>3 DEF RefundForReturn
  <2>2. UNCHANGED <<gid, gateway, manual>>
    BY <1>3 DEF RefundForReturn
  <2>3. \A v \in Workers : rtask'[v] = rtask[v] \/ (~manual /\ rtask'[v].do = "approve")
    BY <2>1, <1>a, Turned DEF On
  <2> QED BY <2>2, <2>3, <1>a DEF GatewayLinked, AtGateway
<1>4. ASSUME NEW r \in Refunds, ApproveRefund(w, r) PROVE GatewayLinked'
  BY <1>4, <1>a, <1>b DEF ApproveRefund, Begin, Turn, At, On, Resting, GatewayLinked, AtGateway,
     RefundsTypeOK, ledger
<1>5. ASSUME NEW r \in Refunds, RejectRefund(w, r) PROVE GatewayLinked'
  BY <1>5, <1>a, <1>b DEF RejectRefund, Begin, Turn, At, On, Resting, GatewayLinked, AtGateway,
     RefundsTypeOK, ledger
<1>6. ASSUME NEW r \in Refunds, DisburseManualRefund(w, r) PROVE GatewayLinked'
  BY <1>6, <1>a, <1>b DEF DisburseManualRefund, Begin, Turn, At, On, Resting, GatewayLinked,
     AtGateway, RefundsTypeOK, ledger
<1>7. ASSUME NEW g \in Sent, HandleRefundWebhook(w, g) PROVE GatewayLinked'
  <2>1. PICK status \in {"processed", "failed"}, r \in Refunds :
          /\ gateway[g].status \in {"pending", status}
          /\ gateway' = [gateway EXCEPT ![g].status = status]
          /\ gid[r] = g
          /\ Begin(w, On(IF status = "processed" THEN "finalize" ELSE "fail", r))
    BY <1>7 DEF HandleRefundWebhook
  <2>2. gateway[g].of = r /\ r # 0 /\ ~manual
    <3>1. g # 0
      BY RefundsConstantsOK DEF Sent
    <3> QED BY <2>1, <3>1, <1>a, <1>b DEF GatewayLinked
  <2>3. \A v \in Workers : rtask'[v] = rtask[v] \/ rtask'[v].do \in {"finalize", "fail"}
    BY <2>1, <1>a, Turned DEF On
  <2>4. /\ gateway'[g].status # "none" /\ gateway'[g].of = gateway[g].of
        /\ \A h \in Sent \ {g} : gateway'[h] = gateway[h]
    BY <2>1, <1>a DEF RefundsTypeOK, GatewayRefund
  <2>5. UNCHANGED <<gid, manual>>
    BY <1>7 DEF HandleRefundWebhook
  <2>6. \A h \in Sent : gateway'[h].of = gateway[h].of
    BY <2>4
  <2>7. \A v \in Workers : rtask[v].do = "store" => rtask[v].sent \in 0 .. MaxSent
    BY <1>a, TaskFacts DEF RefundsTypeOK
  <2>8. \A q \in Refunds : gid[q] \in 0 .. MaxSent
    BY <1>a DEF RefundsTypeOK
  <2>9. \A h \in 0 .. MaxSent : h # 0 => h \in Sent
    BY RefundsConstantsOK DEF Sent
  <2> QED BY <2>2, <2>3, <2>4, <2>5, <2>6, <2>7, <2>8, <2>9, <1>a DEF GatewayLinked, AtGateway
<1>8. CASE CreateRefund(w)
  BY <1>8, <1>a, <1>b DEF CreateRefund, Begin, Turn, At, On, Resting, GatewayLinked, AtGateway,
     RefundsTypeOK, ledger
<1>9. CASE CheckCeiling(w)
  BY <1>9, <1>a, <1>b DEF CheckCeiling, Begin, Turn, At, On, Resting, GatewayLinked, AtGateway,
     RefundsTypeOK, ledger
<1>10. CASE MarkProcessing(w)
  BY <1>10, <1>a, <1>b DEF MarkProcessing, Begin, Turn, At, On, Resting, GatewayLinked,
     AtGateway, RefundsTypeOK, ledger
<1>11. CASE CallGateway(w)
  <2>1. r0 \in Refunds /\ r0 # 0 /\ ~manual
    BY <1>11, <1>a, <1>b DEF CallGateway, At, GatewayLinked, AtGateway
  <2>2. PICK g \in Sent \cup {0} :
          /\ Turn(w, [do |-> "store", refund |-> r0, sent |-> g])
          /\ g # 0 => gateway'[g] # gateway[g]
    BY <1>11 DEF CallGateway
  <2>3. \A h \in Sent : gateway'[h] = gateway[h] \/
          (gateway[h] = Unsent /\ gateway'[h].of = r0 /\ gateway'[h].status # "none")
    BY <1>11, <1>a DEF CallGateway, OpenAtGateway, RefundsTypeOK
  <2>4. UNCHANGED <<gid, manual>>
    BY <1>11 DEF CallGateway
  <2>5. \A v \in Workers :
          rtask'[v] = IF v = w THEN [do |-> "store", refund |-> r0, sent |-> g] ELSE rtask[v]
    BY <2>2, <1>a, Turned
  <2>6. \A h \in Sent : gateway[h].of # 0 => gateway'[h] = gateway[h]
    BY <2>3 DEF Unsent
  <2>7. \A v \in Workers :
          rtask[v].do = "store" => rtask[v].sent \in 0 .. MaxSent /\ rtask[v].refund # 0
    BY <1>a, <1>b, TaskFacts DEF RefundsTypeOK
  <2>8. \A q \in Refunds : gid[q] \in 0 .. MaxSent /\ q # 0
    BY <1>a, <1>b DEF RefundsTypeOK
  <2>9. \A h \in 0 .. MaxSent : h # 0 => h \in Sent
    BY RefundsConstantsOK DEF Sent
  <2>10. \A h \in Sent : gateway'[h].of = 0 <=> gateway'[h].status = "none"
    BY <2>1, <2>3, <1>a DEF GatewayLinked
  <2>11. \A v \in Workers : rtask'[v].do = "store" /\ rtask'[v].sent # 0 =>
          gateway'[rtask'[v].sent].of = rtask'[v].refund
    BY <2>2, <2>3, <2>5, <2>6, <2>7, <2>9, <1>a DEF GatewayLinked
  <2>12. \A q \in Refunds : gid[q] # 0 => gateway'[gid[q]].of = q
    BY <2>6, <2>8, <2>9, <1>a DEF GatewayLinked
  <2> QED BY <2>1, <2>4, <2>5, <2>10, <2>11, <2>12, <1>a DEF GatewayLinked, AtGateway
<1>12. CASE StoreAnswer(w)
  BY <1>12, <1>a, <1>b DEF StoreAnswer, Begin, Turn, At, On, Resting, GatewayLinked, AtGateway,
     RefundsTypeOK, ledger
<1>13. CASE MarkRejected(w)
  BY <1>13, <1>a, <1>b DEF MarkRejected, Begin, Turn, At, On, Resting, GatewayLinked, AtGateway,
     RefundsTypeOK, ledger
<1>14. CASE CheckDisbursement(w)
  BY <1>14, <1>a, <1>b DEF CheckDisbursement, Begin, Turn, At, On, Resting, GatewayLinked,
     AtGateway, RefundsTypeOK, ledger
<1>15. CASE MarkFailed(w)
  BY <1>15, <1>a, <1>b DEF MarkFailed, Begin, Turn, At, On, Resting, GatewayLinked, AtGateway,
     RefundsTypeOK, ledger
<1>16. CASE FinalizeRefund(w)
  BY <1>16, <1>a, <1>b DEF FinalizeRefund, Begin, Turn, At, On, Resting, GatewayLinked,
     AtGateway, RefundsTypeOK, ledger
<1>17. CASE FlipProcessed(w)
  BY <1>17, <1>a, <1>b DEF FlipProcessed, Begin, Turn, At, On, Resting, GatewayLinked, AtGateway,
     RefundsTypeOK, ledger
<1>18. CASE CommitRefund(w)
  BY <1>18, <1>a, <1>b DEF CommitRefund, Begin, Turn, At, On, Resting, GatewayLinked, AtGateway,
     RefundsTypeOK, ledger
<1>19. CASE RefuseRefund(w)
  BY <1>19, <1>a, <1>b DEF RefuseRefund, Begin, Turn, At, On, Resting, GatewayLinked, AtGateway,
     RefundsTypeOK, ledger
<1>20. CASE AbandonRefund(w)
  BY <1>20, <1>a, <1>b DEF AbandonRefund, Begin, Turn, At, On, Resting, GatewayLinked, AtGateway,
     RefundsTypeOK, ledger
<1> QED BY <1>1, <1>2, <1>3, <1>4, <1>5, <1>6, <1>7, <1>8, <1>9, <1>10, <1>11, <1>12, <1>13,
           <1>14, <1>15, <1>16, <1>17, <1>18, <1>19, <1>20
        DEF RefundCall, RefundStep

\* Rows and links survive every step.
LEMMA StepLinks == Links /\ RefundsNext => Links'
BY CallType, StepType, RowsKept, LinksKept DEF RefundsNext, Links

-----------------------------------------------------------------------------
(***************************************************************************)
(* Effects are backed: a handler finalizes what the gateway has paid out.  *)
(***************************************************************************)
PaidRefunds == {r \in Refunds : PaidOut(r)}

FinishingBacked ==
  ~manual => \A w \in Workers :
    /\ rtask[w].do \in Finishing => PaidOut(rtask[w].refund)
    /\ rtask[w].do = "commit" /\ rtask[w].full => SumOf(PaidRefunds) >= Captured

BackedInv == Links /\ FinishingBacked /\ EffectsAreBacked

\* The gateway does not take back a refund it has paid out.
LEMMA PaidStays ==
  ASSUME Links, NEW w \in Workers, RefundCall(w) \/ RefundStep(w) \/ AbandonRefund(w),
         NEW g \in Sent, gateway[g].status = "processed"
  PROVE  gateway'[g] = gateway[g]
<1>a. gateway \in [Sent -> GatewayRefund]
  BY DEF Links, RefundsTypeOK
<1>1. CASE UNCHANGED gateway
  BY <1>1
<1>2. ASSUME NEW h \in Sent, HandleRefundWebhook(w, h) PROVE gateway'[g] = gateway[g]
  BY <1>2, <1>a DEF HandleRefundWebhook, GatewayRefund
<1>3. CASE CallGateway(w)
  BY <1>3, <1>a DEF CallGateway, OpenAtGateway, Unsent
<1> QED BY <1>1, <1>2, <1>3 DEF RefundCall, RequestRefund, CreateSellerRefund, RefundForReturn,
   ApproveRefund, RejectRefund, DisburseManualRefund, RefundStep, CreateRefund, CheckCeiling,
   MarkProcessing, StoreAnswer, MarkRejected, CheckDisbursement, MarkFailed, FinalizeRefund,
   FlipProcessed, CommitRefund, RefuseRefund, AbandonRefund

\* What was paid out stays paid out, so the sum of it never falls.
LEMMA PaidSum ==
  ASSUME Links, NEW w \in Workers, RefundCall(w) \/ RefundStep(w) \/ AbandonRefund(w)
  PROVE  /\ \A r \in Refunds : PaidOut(r) => PaidOut(r)'
         /\ SumOf(PaidRefunds) =< SumOf(PaidRefunds)'
         /\ SumOf(PaidRefunds) \in Nat /\ SumOf(PaidRefunds)' \in Nat
<1>1. RefundsTypeOK /\ RefundsTypeOK' /\ RowsExist
  BY CallType, StepType DEF Links
<1>2. \A r \in Refunds : PaidOut(r) => PaidOut(r)'
  BY PaidStays DEF PaidOut
<1>3. /\ PaidRefunds \in SUBSET Refunds /\ PaidRefunds' \in SUBSET Refunds
      /\ PaidRefunds \subseteq PaidRefunds'
  BY <1>2 DEF PaidRefunds
<1>4. \A r \in PaidRefunds : Amounts[r] = Amounts'[r]
  <2>1. ASSUME NEW r \in PaidRefunds PROVE refund'[r] = refund[r]
    <3>1. r \in Refunds /\ refStatus[r] # "none"
      BY <1>1, RefundsFinite DEF PaidRefunds, PaidOut, RowsExist
    <3> QED BY <3>1, <1>1, RowsStay
  <2> QED BY <2>1, <1>3 DEF Amounts
<1>5. \A r \in Refunds : Amounts'[r] \in Nat
  BY <1>1 DEF Amounts, RefundsTypeOK, Row
<1>6. SumOf(PaidRefunds) = SumFunctionOnSet(Amounts', PaidRefunds)
  BY <1>3, <1>4, RefundsFinite, SumSame DEF SumOf
<1>7. SumFunctionOnSet(Amounts', PaidRefunds) =< SumFunctionOnSet(Amounts', PaidRefunds')
  <2>1. IsFiniteSet(PaidRefunds') /\ \A r \in PaidRefunds' : Amounts'[r] \in Nat
    BY <1>3, <1>5, RefundsFinite
  <2> QED BY <1>3, <2>1, SumSubset
<1>8. SumOf(PaidRefunds) \in Nat
  BY <1>1, <1>3, SumsOfRefunds DEF RefundsTypeOK
<1>9. SumOf(PaidRefunds)' \in Nat
  <2>1. IsFiniteSet(PaidRefunds') /\ \A r \in PaidRefunds' : Amounts'[r] \in Nat
    BY <1>3, <1>5, RefundsFinite
  <2> QED BY <2>1, SumNat DEF SumOf
<1> QED BY <1>2, <1>6, <1>7, <1>8, <1>9 DEF SumOf

\* A step keeps effects backed if what it begins or applies is backed.
LEMMA BackedFrom ==
  ASSUME BackedInv, NEW w \in Workers, RefundCall(w) \/ RefundStep(w) \/ AbandonRefund(w),
         NEW t, Begin(w, t) \/ Turn(w, t) \/ (t = rtask[w] /\ rtask' = rtask), UNCHANGED manual,
         ~manual /\ t.do \in Finishing => t.refund \in Refunds /\ PaidOut(t.refund)',
         ~manual /\ t.do = "commit" /\ t.full => SumOf(PaidRefunds) >= Captured,
         \A r \in Refunds : ~manual /\ refStatus'[r] = "PROCESSED"
            => refStatus[r] = "PROCESSED" \/ PaidOut(r),
         \A r \in finalized' : ~manual => r \in finalized \/ PaidOut(r),
         ~manual /\ payStatus' = "REFUNDED"
            => payStatus = "REFUNDED" \/ SumOf(PaidRefunds) >= Captured
  PROVE  FinishingBacked' /\ EffectsAreBacked'
<1>a. RefundsTypeOK /\ RefundsTypeOK' /\ FinishingBacked /\ EffectsAreBacked
  BY CallType, StepType DEF BackedInv, Links
<1>b. \A r \in Refunds : PaidOut(r) => PaidOut(r)'
  BY PaidSum DEF BackedInv
<1>c. SumOf(PaidRefunds) >= Captured => SumOf(PaidRefunds)' >= Captured
  BY PaidSum, CapturedNat DEF BackedInv
<1>d. \A v \in Workers : rtask'[v] = IF v = w THEN t ELSE rtask[v]
  BY <1>a, Turned
<1>e. \A v \in Workers : rtask[v].do \in Finishing => rtask[v].refund \in Refunds
  BY <1>a, TaskFacts DEF RefundsTypeOK, Finishing
<1>1. FinishingBacked'
  BY <1>a, <1>b, <1>c, <1>d, <1>e DEF FinishingBacked
<1>2. ~manual => \A r \in Refunds : refStatus'[r] = "PROCESSED" \/ r \in finalized' => PaidOut(r)'
  BY <1>a, <1>b DEF EffectsAreBacked, RefundsTypeOK
<1>3. ~manual => (payStatus' = "REFUNDED" => SumOf(PaidRefunds)' >= Captured)
  BY <1>a, <1>c DEF EffectsAreBacked, PaidRefunds
<1>4. EffectsAreBacked'
  BY <1>2, <1>3 DEF EffectsAreBacked, PaidRefunds
<1> QED BY <1>1, <1>4

\* Every action keeps effects backed.
LEMMA BackedKept ==
  ASSUME BackedInv, NEW w \in Workers, RefundCall(w) \/ RefundStep(w) \/ AbandonRefund(w)
  PROVE  FinishingBacked' /\ EffectsAreBacked'
<1>r. PICK r0 : r0 = rtask[w].refund
  OBVIOUS
<1>a. RefundsTypeOK /\ RowsExist /\ GatewayLinked /\ FinishingBacked /\ EffectsAreBacked
  BY DEF BackedInv, Links
<1>b. /\ rtask[w] \in RefundTask /\ r0 = rtask[w].refund
      /\ r0 \in Refunds \cup {0} /\ (rtask[w].do \notin {"idle", "create"} <=> r0 \in Refunds)
  BY <1>a, <1>r, TaskFacts DEF RefundsTypeOK
<1>t. \A v \in Workers : rtask[v].do \in Finishing => rtask[v].refund \in Refunds
  BY <1>a, TaskFacts DEF RefundsTypeOK, Finishing
<1>1. ASSUME NEW ask \in Asks, RequestRefund(w, ask) PROVE FinishingBacked' /\ EffectsAreBacked'
  BY <1>1, <1>a, <1>b, BackedFrom DEF RequestRefund, At, On, Resting, Finishing, RefundsTypeOK,
     ledger
<1>2. ASSUME NEW s \in Slices, NEW a \in Parts, CreateSellerRefund(w, s,
             a) PROVE FinishingBacked' /\ EffectsAreBacked'
  BY <1>2, <1>a, <1>b, BackedFrom DEF CreateSellerRefund, At, On, Resting, Finishing,
     RefundsTypeOK, ledger, NewRow
<1>3. ASSUME NEW s \in Slices, NEW a \in Parts, RefundForReturn(w, s,
             a) PROVE FinishingBacked' /\ EffectsAreBacked'
  BY <1>3, <1>a, <1>b, BackedFrom DEF RefundForReturn, At, On, Resting, Finishing, RefundsTypeOK,
     ledger, NewRow
<1>4. ASSUME NEW r \in Refunds, ApproveRefund(w, r) PROVE FinishingBacked' /\ EffectsAreBacked'
  BY <1>4, <1>a, <1>b, BackedFrom DEF ApproveRefund, At, On, Resting, Finishing, RefundsTypeOK,
     ledger
<1>5. ASSUME NEW r \in Refunds, RejectRefund(w, r) PROVE FinishingBacked' /\ EffectsAreBacked'
  BY <1>5, <1>a, <1>b, BackedFrom DEF RejectRefund, At, On, Resting, Finishing, RefundsTypeOK,
     ledger
<1>6. ASSUME NEW r \in Refunds, DisburseManualRefund(w,
             r) PROVE FinishingBacked' /\ EffectsAreBacked'
  BY <1>6, <1>a, <1>b, BackedFrom DEF DisburseManualRefund, At, On, Resting, Finishing,
     RefundsTypeOK, ledger
<1>7. ASSUME NEW g \in Sent, HandleRefundWebhook(w, g) PROVE FinishingBacked' /\ EffectsAreBacked'
  <2>1. PICK status \in {"processed", "failed"}, r \in Refunds :
          /\ gateway' = [gateway EXCEPT ![g].status = status]
          /\ gid[r] = g
          /\ Begin(w, On(IF status = "processed" THEN "finalize" ELSE "fail", r))
    BY <1>7 DEF HandleRefundWebhook
  <2>2. gateway[g].of = r
    <3>1. g # 0
      BY RefundsConstantsOK DEF Sent
    <3> QED BY <2>1, <3>1, <1>a DEF GatewayLinked
  <2>3. status = "processed" => PaidOut(r)'
    BY <2>1, <2>2, <1>a DEF PaidOut, RefundsTypeOK, GatewayRefund
  <2>4. UNCHANGED <<manual, payStatus, refStatus, finalized>>
    BY <1>7 DEF HandleRefundWebhook, ledger
  <2> QED BY <2>1, <2>3, <2>4, BackedFrom DEF Finishing, On
<1>8. CASE CreateRefund(w)
  BY <1>8, <1>a, <1>b, BackedFrom DEF CreateRefund, At, On, Resting, Finishing, RefundsTypeOK,
     ledger, NewRow
<1>9. CASE CheckCeiling(w)
  BY <1>9, <1>a, <1>b, BackedFrom DEF CheckCeiling, At, On, Resting, Finishing, RefundsTypeOK,
     ledger
<1>10. CASE MarkProcessing(w)
  BY <1>10, <1>a, <1>b, BackedFrom DEF MarkProcessing, At, On, Resting, Finishing, RefundsTypeOK,
     ledger
<1>11. CASE CallGateway(w)
  BY <1>11, <1>a, <1>b, BackedFrom DEF CallGateway, At, On, Resting, Finishing, RefundsTypeOK,
     ledger
<1>12. CASE StoreAnswer(w)
  <2> DEFINE g == rtask[w].sent
             t == IF g # 0 /\ Finished(g) THEN On("finalize", r0) ELSE Resting
  <2>1. Turn(w, t) /\ UNCHANGED <<manual, finalized, payStatus, gateway>>
    BY <1>12, <1>b DEF StoreAnswer, ledger
  <2>2. r0 \in Refunds /\ g \in 0 .. MaxSent
    BY <1>12, <1>b, TaskFacts DEF StoreAnswer, At
  <2>3. g # 0 /\ Finished(g) => PaidOut(r0)
    <3>1. ASSUME g # 0, Finished(g) PROVE PaidOut(r0)
      <4>1. g \in Sent /\ gateway[g].of = r0
        BY <1>12, <1>a, <1>b, <2>2, <3>1, RefundsConstantsOK DEF GatewayLinked, StoreAnswer, At,
           Sent
      <4> QED BY <3>1, <4>1, <1>a DEF Finished, PaidOut, RefundsTypeOK, GatewayRefund
    <3> QED BY <3>1
  <2>4. g # 0 /\ Finished(g) => PaidOut(r0)'
    BY <2>2, <2>3, PaidSum DEF BackedInv
  <2>5. \A r \in Refunds : refStatus'[r] = "PROCESSED" => refStatus[r] = "PROCESSED"
    BY <1>12, <1>a DEF StoreAnswer, RefundsTypeOK
  <2>6. t.do \in Finishing => t.refund = r0 /\ g # 0 /\ Finished(g)
    BY DEF Resting, On, Finishing
  <2>7. t.do # "commit"
    BY DEF Resting, On
  <2> HIDE DEF t
  <2> QED BY <2>1, <2>2, <2>4, <2>5, <2>6, <2>7, BackedFrom
<1>13. CASE MarkRejected(w)
  BY <1>13, <1>a, <1>b, BackedFrom DEF MarkRejected, At, On, Resting, Finishing, RefundsTypeOK,
     ledger
<1>14. CASE CheckDisbursement(w)
  <2>1. manual
    BY <1>14, <1>a DEF CheckDisbursement, At, GatewayLinked
  <2> QED BY <1>14, <2>1, BackedFrom DEF CheckDisbursement, ledger
<1>15. CASE MarkFailed(w)
  BY <1>15, <1>a, <1>b, BackedFrom DEF MarkFailed, At, On, Resting, Finishing, RefundsTypeOK, ledger
<1>16. CASE FinalizeRefund(w)
  <2>1. PICK t : Turn(w, t) /\ t.do \in {"idle", "flip"} /\ t.refund \in {0, r0}
                  /\ (t.do = "flip" => t.refund = r0)
    BY <1>16, <1>b DEF FinalizeRefund, Resting
  <2>2. r0 \in Refunds /\ (~manual => PaidOut(r0))
    BY <1>16, <1>a, <1>b DEF FinalizeRefund, At, FinishingBacked, Finishing
  <2>3. ~manual => PaidOut(r0)'
    BY <2>2, PaidSum DEF BackedInv
  <2>4. UNCHANGED <<manual, finalized, payStatus, refStatus>>
    BY <1>16 DEF FinalizeRefund, ledger
  <2> QED BY <2>1, <2>2, <2>3, <2>4, BackedFrom DEF Finishing
<1>17. CASE FlipProcessed(w)
  <2> DEFINE processed == WithStatus({"PROCESSED"}) \cup {r0}
  <2>1. PICK t : /\ Turn(w, t) /\ t.do \in {"idle", "commit"}
                 /\ t.do = "commit" => t.refund = r0 /\ (t.full => SumOf(processed) >= Captured)
    <3> DEFINE u == [do |-> "commit", refund |-> r0, open |-> rtask[w].open,
                     full |-> SumOf(processed) >= Captured]
    <3>1. Turn(w, IF refStatus[r0] = "PROCESSED" THEN Resting ELSE u)
      BY <1>17, <1>b DEF FlipProcessed
    <3>2. u.do = "commit" /\ u.refund = r0 /\ (u.full => SumOf(processed) >= Captured)
      OBVIOUS
    <3>3. Resting.do = "idle"
      BY DEF Resting
    <3> HIDE DEF u
    <3> QED BY <3>1, <3>2, <3>3
  <2>2. r0 \in Refunds /\ (~manual => PaidOut(r0))
    BY <1>17, <1>a, <1>b DEF FlipProcessed, At, FinishingBacked, Finishing
  <2>3. ~manual => PaidOut(r0)'
    BY <2>2, PaidSum DEF BackedInv
  <2>4. UNCHANGED <<manual, finalized, payStatus, refStatus>>
    BY <1>17 DEF FlipProcessed, ledger
  <2>5. ~manual => SumOf(processed) =< SumOf(PaidRefunds)
    <3>1. ~manual => processed \in SUBSET PaidRefunds
      BY <2>2, <1>a DEF WithStatus, EffectsAreBacked, PaidRefunds
    <3>2. IsFiniteSet(PaidRefunds) /\ \A r \in PaidRefunds : Amounts[r] \in Nat
      BY <1>a, RefundsFinite DEF PaidRefunds, Amounts, RefundsTypeOK, Row
    <3> HIDE DEF processed
    <3> QED BY <3>1, <3>2, SumSubset DEF SumOf
  <2>6. SumOf(processed) \in Nat /\ SumOf(PaidRefunds) \in Nat
    <3>1. processed \in SUBSET Refunds /\ PaidRefunds \in SUBSET Refunds
      BY <2>2 DEF WithStatus, PaidRefunds
    <3> HIDE DEF processed
    <3> QED BY <3>1, <1>a, SumsOfRefunds DEF RefundsTypeOK
  <2>7. ~manual /\ t.do = "commit" /\ t.full => SumOf(PaidRefunds) >= Captured
    <3> HIDE DEF processed
    <3> QED BY <2>1, <2>5, <2>6, CapturedNat
  <2> QED BY <2>1, <2>2, <2>3, <2>4, <2>7, BackedFrom DEF Finishing
<1>18. CASE CommitRefund(w)
  BY <1>18, <1>a, <1>b, BackedFrom DEF CommitRefund, At, On, Resting, Finishing, RefundsTypeOK,
     ledger, Settled, FinishingBacked
<1>19. CASE RefuseRefund(w)
  BY <1>19, <1>a, <1>b, BackedFrom DEF RefuseRefund, At, On, Resting, Finishing, RefundsTypeOK,
     ledger
<1>20. CASE AbandonRefund(w)
  BY <1>20, <1>a, <1>b, BackedFrom DEF AbandonRefund, At, On, Resting, Finishing, RefundsTypeOK,
     ledger
<1> QED BY <1>1, <1>2, <1>3, <1>4, <1>5, <1>6, <1>7, <1>8, <1>9, <1>10, <1>11, <1>12, <1>13,
           <1>14, <1>15, <1>16, <1>17, <1>18, <1>19, <1>20
        DEF RefundCall, RefundStep

\* At first nothing is in effect.
LEMMA InitBacked == RefundsInit => BackedInv
<1> SUFFICES ASSUME RefundsInit PROVE BackedInv
  OBVIOUS
<1>1. Links
  BY InitLinks
<1>2. \A w \in Workers : rtask[w].do = "idle"
  BY DEF RefundsInit, Resting
<1>3. \A r \in Refunds : refStatus[r] = "none" /\ r \notin finalized
  BY DEF RefundsInit
<1>4. payStatus = "CAPTURED"
  BY DEF RefundsInit
<1> QED BY <1>1, <1>2, <1>3, <1>4 DEF BackedInv, FinishingBacked, EffectsAreBacked, Finishing

\* Backed effects are inductive.
LEMMA StepBacked == BackedInv /\ [RefundsNext]_refundVars => BackedInv'
<1>1. BackedInv /\ RefundsNext => BackedInv'
  BY BackedKept, StepLinks DEF BackedInv, RefundsNext
<1>2. BackedInv /\ UNCHANGED refundVars => BackedInv'
  <2> SUFFICES ASSUME BackedInv, UNCHANGED refundVars PROVE BackedInv'
    OBVIOUS
  <2>1. RefundsTypeOK'
    BY StutterType DEF BackedInv, Links
  <2>2. RowsExist' /\ GatewayLinked'
    BY DEF BackedInv, Links, RowsExist, GatewayLinked, refundVars, ledger
  <2>3. SumOf(PaidRefunds)' = SumOf(PaidRefunds)
    BY DEF refundVars, SumOf, Amounts, PaidRefunds, PaidOut
  <2>4. FinishingBacked' /\ EffectsAreBacked'
    BY <2>3 DEF BackedInv, FinishingBacked, EffectsAreBacked, PaidRefunds, PaidOut, refundVars,
       ledger
  <2> QED BY <2>1, <2>2, <2>4 DEF BackedInv, Links
<1> QED BY <1>1, <1>2

\* Whatever approvals, webhooks and retries overlap, a refund is PROCESSED, and a payment
\* REFUNDED, only when the gateway has paid out that much.
THEOREM RefundsAreBacked == RefundsSpec => []EffectsAreBacked
<1>1. BackedInv => EffectsAreBacked
  BY DEF BackedInv
<1> QED BY <1>1, InitBacked, StepBacked, PTL DEF RefundsSpec

-----------------------------------------------------------------------------
(***************************************************************************)
(* A refund approved once: what an undisturbed refund's handlers and the   *)
(* gateway know of each other at every step.                               *)
(***************************************************************************)
Busy(w, r, S) == rtask[w].do \in S /\ rtask[w].refund = r

Once(r) ==
  /\ \A g, h \in SentFor(r) : g = h
  /\ \A g \in SentFor(r) :
       /\ refStatus[r] \in {"PROCESSING", "PROCESSED", "FAILED"}
       /\ refStatus[r] = "FAILED" => gateway[g].status = "failed"
  /\ \A v, w \in Workers : Busy(v, r, AtGateway) /\ Busy(w, r, AtGateway) => v = w
  /\ \A w \in Workers :
       /\ Busy(w, r, {"approve", "mark"}) => refStatus[r] = "REQUESTED" /\ SentFor(r) = {}
       /\ Busy(w, r, {"send"}) => refStatus[r] = "PROCESSING" /\ SentFor(r) = {}
       /\ Busy(w, r, {"store"}) =>
            /\ refStatus[r] = "PROCESSING" /\ gid[r] = 0 /\ SentFor(r) \subseteq {rtask[w].sent}
            /\ \A v \in Workers : ~Busy(v, r, Finishing \cup {"fail"})
       /\ Busy(w, r, {"fail"}) => \E g \in SentFor(r) : gateway[g].status = "failed"

ApprovedOnce == \A r \in Refunds \ disturbed : Once(r)

OnceInv == BackedInv /\ ApprovedOnce

\* Nothing about the refund changes, and nobody joins those who handle it.
Same(r) ==
  /\ refStatus'[r] = refStatus[r] /\ gid'[r] = gid[r]
  /\ \A g \in Sent : gateway'[g] = gateway[g] \/ (gateway[g].of # r /\ gateway'[g].of # r)

\* A step that leaves a refund alone leaves what is known of it.
LEMMA OnceFrame ==
  ASSUME NEW r, Once(r), Same(r),
         \A v \in Workers :
           \/ rtask'[v] = rtask[v]
           \/ rtask'[v].refund # r
           \/ rtask'[v].do \notin AtGateway \cup Finishing \cup {"fail"}
           \/ rtask'[v].do \in Finishing /\ rtask[v].do \in Finishing /\ rtask[v].refund = r
  PROVE  Once(r)'
<1>1. SentFor(r)' = SentFor(r) /\ \A g \in SentFor(r) : gateway'[g] = gateway[g]
  BY DEF Same, SentFor
<1>2. \A v \in Workers : /\ Busy(v, r, AtGateway)' => rtask'[v] = rtask[v]
                         /\ Busy(v, r, {"fail"})' => rtask'[v] = rtask[v]
                         /\ Busy(v, r, Finishing)' => Busy(v, r, Finishing)
  BY DEF Busy, AtGateway, Finishing
<1>3. refStatus'[r] = refStatus[r] /\ gid'[r] = gid[r]
  BY DEF Same
<1> QED BY <1>1, <1>2, <1>3 DEF Once, Busy, AtGateway, Finishing

\* Nobody handles a refund that has no row, and the gateway does not know it.
LEMMA UnusedFacts ==
  ASSUME Links, NEW r \in Unused
  PROVE  /\ SentFor(r) = {} /\ r # 0 /\ r \in Refunds
         /\ \A w \in Workers : rtask[w].refund # r
BY RefundsFinite DEF Links, RowsExist, Unused, SentFor

\* The history of disturbances only grows.
LEMMA DisturbedStays ==
  ASSUME NEW w \in Workers, RefundCall(w) \/ RefundStep(w) \/ AbandonRefund(w)
  PROVE  disturbed \subseteq disturbed'
BY DEF RefundCall, RequestRefund, CreateSellerRefund, RefundForReturn, HandleRefundWebhook,
   ApproveRefund, Disturbs, RejectRefund, DisburseManualRefund, RefundStep, CreateRefund,
   CheckCeiling, MarkProcessing, CallGateway, StoreAnswer, MarkRejected, CheckDisbursement,
   MarkFailed, FinalizeRefund, FlipProcessed, CommitRefund, RefuseRefund, AbandonRefund, history

\* What is known of a refund that is not disturbed survives every action.
LEMMA OnceKept ==
  ASSUME OnceInv, NEW w \in Workers, RefundCall(w) \/ RefundStep(w) \/ AbandonRefund(w),
         ~manual, NEW r \in Refunds \ disturbed'
  PROVE  Once(r)'
<1>r. PICK r0 : r0 = rtask[w].refund
  OBVIOUS
<1>a. RefundsTypeOK /\ RowsExist /\ GatewayLinked /\ FinishingBacked /\ Links /\ ~manual
  BY DEF OnceInv, BackedInv, Links
<1>b. /\ rtask[w] \in RefundTask /\ r0 = rtask[w].refund
      /\ r0 \in Refunds \cup {0} /\ (rtask[w].do \notin {"idle", "create"} <=> r0 \in Refunds)
  BY <1>a, <1>r, TaskFacts DEF RefundsTypeOK
<1>c. Once(r) /\ r # 0 /\ r \in Refunds /\ r \notin disturbed'
  BY DisturbedStays, RefundsFinite DEF OnceInv, ApprovedOnce
<1>1. ASSUME NEW ask \in Asks, RequestRefund(w, ask) PROVE Once(r)'
  <2>1. \A v \in Workers : rtask'[v] = rtask[v] \/ rtask'[v].do \in {"create", "reject"}
    BY <1>1, <1>a, Turned DEF RequestRefund, On
  <2>2. Same(r)
    BY <1>1 DEF RequestRefund, Same
  <2> QED BY <1>c, <2>1, <2>2, OnceFrame DEF AtGateway, Finishing
<1>2. ASSUME NEW s \in Slices, NEW a \in Parts, CreateSellerRefund(w, s, a) PROVE Once(r)'
  <2>1. PICK q \in Unused : refStatus'[q] # "none" /\ Begin(w, On("approve", q))
    BY <1>2, <1>a DEF CreateSellerRefund
  <2>2. /\ refStatus'[q] = "REQUESTED"
        /\ \A p \in Refunds \ {q} : refStatus'[p] = refStatus[p]
    BY <1>2, <1>a, <2>1 DEF CreateSellerRefund, NewRow, RefundsTypeOK, Unused
  <2>3. UNCHANGED <<gid, gateway>>
    BY <1>2 DEF CreateSellerRefund
  <2>4. \A v \in Workers : rtask'[v] = IF v = w THEN On("approve", q) ELSE rtask[v]
    BY <2>1, <1>a, Turned
  <2>5. CASE r = q
    <3>1. SentFor(r)' = {}
      BY <2>3, <2>5, UnusedFacts, <1>a DEF SentFor
    <3>2. \A v \in Workers : rtask'[v].refund = r => v = w
      BY <2>4, <2>5, UnusedFacts, <1>a
    <3> QED BY <2>2, <2>4, <2>5, <3>1, <3>2 DEF Once, Busy, On, Finishing, AtGateway
  <2>6. CASE r # q
    <3>1. Same(r)
      BY <2>2, <2>3, <2>6 DEF Same
    <3> QED BY <1>c, <2>4, <2>6, <3>1, OnceFrame DEF On
  <2> QED BY <2>5, <2>6
<1>3. ASSUME NEW s \in Slices, NEW a \in Parts, RefundForReturn(w, s, a) PROVE Once(r)'
  <2>1. PICK q \in Unused : refStatus'[q] # "none" /\ Begin(w, On("approve", q))
    BY <1>3, <1>a DEF RefundForReturn
  <2>2. /\ refStatus'[q] = "REQUESTED"
        /\ \A p \in Refunds \ {q} : refStatus'[p] = refStatus[p]
    BY <1>3, <1>a, <2>1 DEF RefundForReturn, NewRow, RefundsTypeOK, Unused
  <2>3. UNCHANGED <<gid, gateway>>
    BY <1>3 DEF RefundForReturn
  <2>4. \A v \in Workers : rtask'[v] = IF v = w THEN On("approve", q) ELSE rtask[v]
    BY <2>1, <1>a, Turned
  <2>5. CASE r = q
    <3>1. SentFor(r)' = {}
      BY <2>3, <2>5, UnusedFacts, <1>a DEF SentFor
    <3>2. \A v \in Workers : rtask'[v].refund = r => v = w
      BY <2>4, <2>5, UnusedFacts, <1>a
    <3> QED BY <2>2, <2>4, <2>5, <3>1, <3>2 DEF Once, Busy, On, Finishing, AtGateway
  <2>6. CASE r # q
    <3>1. Same(r)
      BY <2>2, <2>3, <2>6 DEF Same
    <3> QED BY <1>c, <2>4, <2>6, <3>1, OnceFrame DEF On
  <2> QED BY <2>5, <2>6
<1>4. ASSUME NEW x \in Refunds, ApproveRefund(w, x) PROVE Once(r)'
  <2>1. /\ r = x => refStatus[x] = "REQUESTED" /\ \A v \in Workers : ~Busy(v, x, AtGateway)
    <3>1. r = x => ~InApproval(x) /\ refStatus[x] # "PROCESSING"
      BY <1>4 DEF ApproveRefund, Disturbs
    <3> QED BY <1>4, <1>a, <3>1 DEF ApproveRefund, InApproval, Approving, Busy, AtGateway
  <2>2. \A v \in Workers : rtask'[v] = IF v = w THEN On("approve", x) ELSE rtask[v]
    BY <1>4, <1>a, Turned DEF ApproveRefund
  <2>3. Same(r) /\ UNCHANGED <<refStatus, gateway, gid>>
    BY <1>4 DEF ApproveRefund, Same
  <2>4. CASE r = x
    <3>1. SentFor(r) = {} /\ SentFor(r)' = {}
      BY <2>1, <2>3, <2>4, <1>c DEF Once, SentFor
    <3>2. \A v \in Workers : ~Busy(v, r, {"fail"})
      BY <3>1, <1>c DEF Once
    <3>3. \A v \in Workers : /\ ~Busy(v, r, {"fail"})'
                             /\ Busy(v, r, AtGateway)' => v = w /\ rtask'[v].do = "approve"
      BY <2>1, <2>2, <2>4, <3>2 DEF Busy, On
    <3>4. refStatus'[r] = "REQUESTED"
      BY <2>1, <2>3, <2>4
    <3> QED BY <3>1, <3>3, <3>4 DEF Once, Busy, AtGateway
  <2>5. CASE r # x
    BY <1>c, <2>2, <2>3, <2>5, OnceFrame DEF On
  <2> QED BY <2>4, <2>5
<1>5. ASSUME NEW x \in Refunds, RejectRefund(w, x) PROVE Once(r)'
  <2>1. \A v \in Workers : rtask'[v] = rtask[v] \/ rtask'[v].do \in {"create", "reject"}
    BY <1>5, <1>a, Turned DEF RejectRefund, On
  <2>2. Same(r)
    BY <1>5 DEF RejectRefund, Same
  <2> QED BY <1>c, <2>1, <2>2, OnceFrame DEF AtGateway, Finishing
<1>6. ASSUME NEW x \in Refunds, DisburseManualRefund(w, x) PROVE Once(r)'
  BY <1>6, <1>a DEF DisburseManualRefund
<1>7. ASSUME NEW g \in Sent, HandleRefundWebhook(w, g) PROVE Once(r)'
  <2>1. PICK status \in {"processed", "failed"}, x \in Refunds :
          /\ gateway[g].status \in {"pending", status}
          /\ gateway' = [gateway EXCEPT ![g].status = status]
          /\ gid[x] = g /\ refStatus[x] \notin {"PROCESSED", "FAILED"}
          /\ Begin(w, On(IF status = "processed" THEN "finalize" ELSE "fail", x))
    BY <1>7 DEF HandleRefundWebhook
  <2>2. gateway[g].of = x /\ g # 0
    <3>1. g # 0
      BY RefundsConstantsOK DEF Sent
    <3> QED BY <2>1, <3>1, <1>a DEF GatewayLinked
  <2>3. \A v \in Workers : rtask'[v] = IF v = w
          THEN On(IF status = "processed" THEN "finalize" ELSE "fail", x) ELSE rtask[v]
    BY <2>1, <1>a, Turned
  <2>4. UNCHANGED <<refStatus, gid>>
    BY <1>7 DEF HandleRefundWebhook
  <2>5. /\ gateway'[g].of = gateway[g].of /\ gateway'[g].status = status
        /\ \A h \in Sent \ {g} : gateway'[h] = gateway[h]
    BY <2>1, <1>a DEF RefundsTypeOK, GatewayRefund
  <2>6. CASE r = x
    <3>1. SentFor(r)' = SentFor(r) /\ g \in SentFor(r) /\ SentFor(r) \subseteq {g}
      BY <2>2, <2>5, <2>6, <1>c DEF SentFor, Once
    <3>2. refStatus[r] = "PROCESSING"
      BY <2>1, <2>6, <3>1, <1>c DEF Once
    <3>3. \A v \in Workers : ~Busy(v, r, AtGateway)
      BY <2>1, <2>2, <2>6, <3>1, <1>c DEF Once, Busy, AtGateway
    <3>4. \A v \in Workers : ~Busy(v, r, AtGateway)'
      BY <2>3, <2>6, <3>3 DEF Busy, On, AtGateway
    <3>5. (\E v \in Workers : Busy(v, r, {"fail"})) => status = "failed"
      BY <2>1, <3>1, <1>c DEF Once
    <3>6. (\E v \in Workers : Busy(v, r, {"fail"})') => status = "failed"
      BY <2>3, <2>1, <3>5 DEF Busy, On
    <3> QED BY <2>4, <2>5, <3>1, <3>2, <3>4, <3>6 DEF Once, Busy, AtGateway
  <2>7. CASE r # x
    <3>1. Same(r)
      BY <2>2, <2>4, <2>5, <2>7 DEF Same
    <3> QED BY <1>c, <2>3, <2>7, <3>1, OnceFrame DEF On
  <2> QED BY <2>6, <2>7
<1>8. CASE CreateRefund(w)
  <2>1. PICK q \in Unused : refStatus' = [refStatus EXCEPT ![q] = "REQUESTED"]
    BY <1>8 DEF CreateRefund, NewRow
  <2>2. UNCHANGED <<gid, gateway>>
    BY <1>8 DEF CreateRefund
  <2>3. \A v \in Workers : rtask'[v] = IF v = w THEN Resting ELSE rtask[v]
    BY <1>8, <1>a, Turned DEF CreateRefund
  <2>4. CASE r = q
    <3>1. SentFor(r)' = {}
      BY <2>2, <2>4, UnusedFacts, <1>a DEF SentFor
    <3>2. \A v \in Workers : rtask'[v].refund # r
      BY <2>3, <2>4, UnusedFacts, <1>a, <1>c DEF Resting
    <3> QED BY <3>1, <3>2 DEF Once, Busy
  <2>5. CASE r # q
    <3>1. Same(r)
      BY <2>1, <2>2, <2>5, <1>a DEF Same, RefundsTypeOK
    <3> QED BY <1>c, <2>3, <3>1, OnceFrame DEF Resting
  <2> QED BY <2>4, <2>5
<1>9. CASE CheckCeiling(w)
  <2>1. PICK t \in {Resting, On("mark", r0)} : Turn(w, t)
    BY <1>9, <1>b DEF CheckCeiling
  <2>2. \A v \in Workers : rtask'[v] = IF v = w THEN t ELSE rtask[v]
    BY <1>a, <2>1, Turned
  <2>3. Same(r) /\ UNCHANGED <<refStatus, gateway, gid>>
    BY <1>9 DEF CheckCeiling, Same
  <2>4. CASE r = r0
    <3>1. Busy(w, r, {"approve"}) /\ Busy(w, r, AtGateway) /\ Busy(w, r, {"approve", "mark"})
      BY <1>9, <1>b, <2>4 DEF CheckCeiling, At, Busy, AtGateway
    <3>2. refStatus[r] = "REQUESTED" /\ SentFor(r) = {} /\ SentFor(r)' = {}
      BY <2>3, <3>1, <1>c DEF Once, SentFor
    <3>3. \A v \in Workers : Busy(v, r, AtGateway)' => v = w /\ rtask'[v].do = "mark"
      BY <2>1, <2>2, <3>1, <1>c DEF Once, Busy, On, Resting, AtGateway
    <3>4. \A v \in Workers : ~Busy(v, r, {"fail"})'
      BY <2>1, <2>2, <3>2, <1>c DEF Once, Busy, On, Resting
    <3> QED BY <2>3, <3>2, <3>3, <3>4 DEF Once, Busy, AtGateway
  <2>5. CASE r # r0
    BY <1>c, <2>1, <2>2, <2>3, <2>5, OnceFrame DEF On, Resting
  <2> QED BY <2>4, <2>5
<1>10. CASE MarkProcessing(w)
  <2>1. \A v \in Workers : rtask'[v] = IF v = w THEN On("send", r0) ELSE rtask[v]
    BY <1>10, <1>a, <1>b, Turned DEF MarkProcessing
  <2>2. UNCHANGED <<gateway, gid>> /\ refStatus' = [refStatus EXCEPT ![r0] = "PROCESSING"]
    BY <1>10, <1>b DEF MarkProcessing
  <2>3. CASE r = r0
    <3>1. Busy(w, r, AtGateway) /\ Busy(w, r, {"approve", "mark"})
      BY <1>10, <1>b, <2>3 DEF MarkProcessing, At, Busy, AtGateway
    <3>2. SentFor(r) = {} /\ SentFor(r)' = {}
      BY <2>2, <3>1, <1>c DEF Once, SentFor
    <3>3. \A v \in Workers : Busy(v, r, AtGateway)' => v = w /\ rtask'[v].do = "send"
      BY <2>1, <3>1, <1>c DEF Once, Busy, On, AtGateway
    <3>4. \A v \in Workers : ~Busy(v, r, {"fail"})'
      BY <2>1, <3>2, <1>c DEF Once, Busy, On
    <3>5. refStatus'[r] = "PROCESSING"
      BY <2>2, <2>3, <1>a DEF RefundsTypeOK
    <3> QED BY <3>2, <3>3, <3>4, <3>5 DEF Once, Busy, AtGateway
  <2>4. CASE r # r0
    <3>1. Same(r)
      BY <2>2, <2>4, <1>a DEF Same, RefundsTypeOK
    <3> QED BY <1>c, <2>1, <2>4, <3>1, OnceFrame DEF On
  <2> QED BY <2>3, <2>4
<1>11. CASE CallGateway(w)
  <2>1. PICK g0 \in Sent \cup {0} : Turn(w, [do |-> "store", refund |-> r0, sent |-> g0])
    BY <1>11, <1>b DEF CallGateway
  <2>2. \A v \in Workers : rtask'[v] =
          IF v = w THEN [do |-> "store", refund |-> r0, sent |-> g0] ELSE rtask[v]
    BY <1>a, <2>1, Turned
  <2>3. UNCHANGED <<refStatus, gid>>
    BY <1>11 DEF CallGateway
  <2>4. \A h \in Sent : gateway'[h] = gateway[h] \/ (gateway[h].of = 0 /\ gateway'[h].of = r0)
    BY <1>11, <1>a, <1>b DEF CallGateway, OpenAtGateway, RefundsTypeOK, Unsent
  <2>5. CASE r = r0
    <3>1. Busy(w, r, {"send"}) /\ Busy(w, r, AtGateway)
      BY <1>11, <1>b, <2>5 DEF CallGateway, At, Busy, AtGateway
    <3>2. refStatus[r] = "PROCESSING" /\ SentFor(r) = {}
      BY <3>1, <1>c DEF Once
    <3>3. gid[r] = 0
      BY <3>2, <1>a, <1>c, RefundsConstantsOK DEF SentFor, GatewayLinked, RefundsTypeOK, Sent
    <3>4. SentFor(r)' \subseteq {g0}
      <4>1. \/ \E status \in {"pending", "processed"}, g \in Sent :
                 /\ OpenAtGateway(r, status) /\ gateway[g] # gateway'[g]
                 /\ Turn(w, [do |-> "store", refund |-> r, sent |-> g])
            \/ UNCHANGED gateway
        BY <1>11, <1>b, <1>c, <2>5 DEF CallGateway
      <4>2. ASSUME NEW status \in {"pending", "processed"}, NEW g \in Sent,
                   OpenAtGateway(r, status), gateway[g] # gateway'[g],
                   Turn(w, [do |-> "store", refund |-> r, sent |-> g])
            PROVE  SentFor(r)' \subseteq {g0}
        <5>1. g = g0
          <6>1. rtask'[w] = [do |-> "store", refund |-> r, sent |-> g]
            BY <4>2, <1>a, Turned
          <6> QED BY <6>1, <2>2
        <5>2. \A h \in Sent \ {g} : gateway'[h] = gateway[h]
          BY <4>2, <1>a DEF OpenAtGateway, RefundsTypeOK
        <5> QED BY <5>1, <5>2, <3>2 DEF SentFor
      <4> QED BY <4>1, <4>2, <3>2 DEF SentFor
    <3>5. \A v \in Workers : ~Busy(v, r, Finishing \cup {"fail"})
      <4>1. ~PaidOut(r)
        BY <3>2 DEF PaidOut, SentFor
      <4> QED BY <4>1, <3>2, <1>a, <1>c DEF FinishingBacked, Busy, Once
    <3>6. \A v \in Workers : /\ Busy(v, r, AtGateway)' => v = w
                             /\ ~Busy(v, r, Finishing \cup {"fail"})'
      BY <2>2, <3>1, <3>5, <1>c DEF Once, Busy, AtGateway, Finishing
    <3> QED BY <2>2, <2>3, <2>5, <3>2, <3>3, <3>4, <3>6 DEF Once, Busy, AtGateway
  <2>6. CASE r # r0
    <3>1. Same(r)
      BY <2>3, <2>4, <2>6, <1>c DEF Same
    <3> QED BY <1>c, <2>2, <2>6, <3>1, OnceFrame
  <2> QED BY <2>5, <2>6
<1>12. CASE StoreAnswer(w)
  <2> DEFINE g0 == rtask[w].sent
  <2>1. PICK t \in {Resting, On("finalize", r0)} : Turn(w, t)
    BY <1>12, <1>b DEF StoreAnswer
  <2>2. \A v \in Workers : rtask'[v] = IF v = w THEN t ELSE rtask[v]
    BY <1>a, <2>1, Turned
  <2>3. /\ UNCHANGED gateway
        /\ refStatus' = IF g0 # 0 THEN refStatus ELSE [refStatus EXCEPT ![r0] = "FAILED"]
        /\ gid' = IF g0 # 0 THEN [gid EXCEPT ![r0] = g0] ELSE gid
    BY <1>12, <1>b DEF StoreAnswer
  <2>4. CASE r = r0
    <3>1. Busy(w, r, {"store"}) /\ Busy(w, r, AtGateway)
      BY <1>12, <1>b, <2>4 DEF StoreAnswer, At, Busy, AtGateway
    <3>2. refStatus[r] = "PROCESSING" /\ SentFor(r) \subseteq {g0} /\ SentFor(r)' = SentFor(r)
      BY <2>3, <3>1, <1>c DEF Once, SentFor
    <3>3. \A v \in Workers : ~Busy(v, r, AtGateway)' /\ ~Busy(v, r, {"fail"})'
      BY <2>1, <2>2, <3>1, <1>c DEF Once, Busy, On, Resting, AtGateway
    <3>4. g0 = 0 => SentFor(r) = {}
      BY <3>2, RefundsConstantsOK DEF SentFor, Sent
    <3>5. g0 # 0 => refStatus'[r] = "PROCESSING"
      BY <2>3, <3>2
    <3> QED BY <2>3, <3>2, <3>3, <3>4, <3>5 DEF Once, Busy, AtGateway
  <2>5. CASE r # r0
    <3>1. Same(r)
      BY <2>3, <2>5, <1>a DEF Same, RefundsTypeOK
    <3> QED BY <1>c, <2>1, <2>2, <2>5, <3>1, OnceFrame DEF On, Resting
  <2> QED BY <2>4, <2>5
<1>13. CASE MarkRejected(w)
  <2>1. \A v \in Workers : rtask'[v] = IF v = w THEN Resting ELSE rtask[v]
    BY <1>13, <1>a, Turned DEF MarkRejected
  <2>2. Same(r)
    BY <1>13, <1>a, <1>b DEF MarkRejected, Same, RefundsTypeOK
  <2> QED BY <1>c, <2>1, <2>2, OnceFrame DEF Resting
<1>14. CASE CheckDisbursement(w)
  BY <1>14, <1>a DEF CheckDisbursement, At, GatewayLinked
<1>15. CASE MarkFailed(w)
  <2>1. \A v \in Workers : rtask'[v] = IF v = w THEN Resting ELSE rtask[v]
    BY <1>15, <1>a, Turned DEF MarkFailed
  <2>2. UNCHANGED <<gateway, gid>> /\ refStatus' = [refStatus EXCEPT ![r0] = "FAILED"]
    BY <1>15, <1>b DEF MarkFailed
  <2>3. CASE r = r0
    <3>1. Busy(w, r, {"fail"})
      BY <1>15, <1>b, <2>3 DEF MarkFailed, At, Busy
    <3>2. SentFor(r) # {} /\ \A g \in SentFor(r) : gateway[g].status = "failed"
      BY <3>1, <1>c DEF Once
    <3>3. SentFor(r)' = SentFor(r)
      BY <2>2 DEF SentFor
    <3>4. \A v \in Workers : ~Busy(v, r, AtGateway)
      BY <3>1, <3>2, <1>c DEF Once, Busy, AtGateway
    <3>5. \A v \in Workers : ~Busy(v, r, AtGateway)'
      BY <2>1, <3>4 DEF Busy, Resting, AtGateway
    <3>6. refStatus'[r] = "FAILED"
      BY <2>2, <2>3, <1>a DEF RefundsTypeOK
    <3> QED BY <2>2, <3>2, <3>3, <3>5, <3>6, <1>c DEF Once, Busy, AtGateway
  <2>4. CASE r # r0
    <3>1. Same(r)
      BY <2>2, <2>4, <1>a DEF Same, RefundsTypeOK
    <3> QED BY <1>c, <2>1, <3>1, OnceFrame DEF Resting
  <2> QED BY <2>3, <2>4
<1>16. CASE FinalizeRefund(w)
  <2>1. PICK t : Turn(w, t) /\ (t = Resting \/ (t.do = "flip" /\ t.refund = r0))
    BY <1>16, <1>b DEF FinalizeRefund
  <2>2. \A v \in Workers : rtask'[v] = IF v = w THEN t ELSE rtask[v]
    BY <1>a, <2>1, Turned
  <2>3. Same(r)
    BY <1>16 DEF FinalizeRefund, Same
  <2>4. rtask[w].do \in Finishing
    BY <1>16 DEF FinalizeRefund, At, Finishing
  <2> QED BY <1>b, <1>c, <2>1, <2>2, <2>3, <2>4, OnceFrame DEF Resting, Finishing
<1>17. CASE FlipProcessed(w)
  <2>1. PICK t : Turn(w, t) /\ (t = Resting \/ (t.do = "commit" /\ t.refund = r0))
    BY <1>17, <1>b DEF FlipProcessed
  <2>2. \A v \in Workers : rtask'[v] = IF v = w THEN t ELSE rtask[v]
    BY <1>a, <2>1, Turned
  <2>3. Same(r)
    BY <1>17 DEF FlipProcessed, Same
  <2>4. rtask[w].do \in Finishing
    BY <1>17 DEF FlipProcessed, At, Finishing
  <2> QED BY <1>b, <1>c, <2>1, <2>2, <2>3, <2>4, OnceFrame DEF Resting, Finishing
<1>18. CASE CommitRefund(w)
  <2>1. \A v \in Workers : rtask'[v] = IF v = w THEN Resting ELSE rtask[v]
    BY <1>18, <1>a, Turned DEF CommitRefund
  <2>2. UNCHANGED <<gateway, gid>> /\ refStatus' = [refStatus EXCEPT ![r0] = "PROCESSED"]
    BY <1>18, <1>b DEF CommitRefund
  <2>3. CASE r = r0
    <3>1. Busy(w, r, Finishing) /\ PaidOut(r)
      BY <1>18, <1>a, <1>b, <2>3 DEF CommitRefund, At, Busy, Finishing, FinishingBacked
    <3>2. SentFor(r) # {} /\ SentFor(r)' = SentFor(r)
      BY <2>2, <3>1 DEF PaidOut, SentFor
    <3>3. \A v \in Workers : ~Busy(v, r, AtGateway)
      BY <3>1, <3>2, <1>c DEF Once, Busy, AtGateway, Finishing
    <3>4. \A v \in Workers : ~Busy(v, r, AtGateway)' /\ (Busy(v, r, {"fail"})' => Busy(v, r,
    {"fail"}))
      BY <2>1, <3>3, <1>c DEF Busy, Resting, AtGateway
    <3>5. refStatus'[r] = "PROCESSED"
      BY <2>2, <2>3, <1>a DEF RefundsTypeOK
    <3> QED BY <2>2, <3>2, <3>4, <3>5, <1>c DEF Once, Busy, AtGateway
  <2>4. CASE r # r0
    <3>1. Same(r)
      BY <2>2, <2>4, <1>a DEF Same, RefundsTypeOK
    <3> QED BY <1>c, <2>1, <3>1, OnceFrame DEF Resting
  <2> QED BY <2>3, <2>4
<1>19. CASE RefuseRefund(w)
  <2>1. \A v \in Workers : rtask'[v] = IF v = w THEN Resting ELSE rtask[v]
    BY <1>19, <1>a, Turned DEF RefuseRefund
  <2>2. Same(r)
    BY <1>19 DEF RefuseRefund, Same
  <2> QED BY <1>c, <2>1, <2>2, OnceFrame DEF Resting
<1>20. CASE AbandonRefund(w)
  <2>1. \A v \in Workers : rtask'[v] = IF v = w THEN Resting ELSE rtask[v]
    BY <1>20, <1>a, Turned DEF AbandonRefund
  <2>2. Same(r)
    BY <1>20 DEF AbandonRefund, Same
  <2> QED BY <1>c, <2>1, <2>2, OnceFrame DEF Resting
<1> QED BY <1>1, <1>2, <1>3, <1>4, <1>5, <1>6, <1>7, <1>8, <1>9, <1>10, <1>11, <1>12, <1>13,
           <1>14, <1>15, <1>16, <1>17, <1>18, <1>19, <1>20
        DEF RefundCall, RefundStep

\* At first there is no refund to know anything of.
LEMMA InitOnce == RefundsInit => OnceInv
<1> SUFFICES ASSUME RefundsInit PROVE OnceInv
  OBVIOUS
<1>1. \A w \in Workers : rtask[w].do = "idle"
  BY DEF RefundsInit, Resting
<1>2. \A r \in Refunds : SentFor(r) = {}
  BY RefundsFinite DEF RefundsInit, SentFor, Unsent
<1>3. ApprovedOnce
  BY <1>1, <1>2 DEF ApprovedOnce, Once, Busy, AtGateway
<1> QED BY <1>3, InitBacked DEF OnceInv

\* What is known of undisturbed refunds is inductive.
LEMMA StepOnce == OnceInv /\ [RefundsNext]_refundVars => OnceInv'
<1>1. ASSUME OnceInv, RefundsNext PROVE ApprovedOnce'
  <2>1. PICK w \in Workers : RefundCall(w) \/ RefundStep(w) \/ AbandonRefund(w)
    BY <1>1 DEF RefundsNext
  <2>2. CASE ~manual
    BY <1>1, <2>1, <2>2, OnceKept DEF ApprovedOnce
  <2>3. CASE manual
    <3>1. Links' /\ manual'
      <4>1. UNCHANGED manual
        BY <2>1 DEF RefundCall, RequestRefund, CreateSellerRefund, RefundForReturn,
           HandleRefundWebhook, ApproveRefund, RejectRefund, DisburseManualRefund, RefundStep,
           CreateRefund, CheckCeiling, MarkProcessing, CallGateway, StoreAnswer, MarkRejected,
           CheckDisbursement, MarkFailed, FinalizeRefund, FlipProcessed, CommitRefund,
           RefuseRefund, AbandonRefund
      <4> QED BY <1>1, <2>3, <4>1, StepLinks DEF OnceInv, BackedInv
    <3>2. \A r \in Refunds : SentFor(r)' = {}
      BY <3>1, RefundsFinite DEF Links, GatewayLinked, SentFor
    <3>3. \A w_1 \in Workers : rtask'[w_1].do \notin AtGateway \cup {"fail"}
      BY <3>1 DEF Links, GatewayLinked
    <3> QED BY <3>2, <3>3 DEF ApprovedOnce, Once, Busy, AtGateway
  <2> QED BY <2>2, <2>3
<1>2. ASSUME OnceInv, UNCHANGED refundVars PROVE ApprovedOnce'
  BY <1>2 DEF OnceInv, ApprovedOnce, Once, Busy, SentFor, refundVars, history
<1> QED BY <1>1, <1>2, StepBacked DEF OnceInv

\* It implies that such a refund is opened once and that its row knows.
LEMMA OnceUndisturbed == OnceInv => UndisturbedOnce
<1> SUFFICES ASSUME OnceInv, NEW r \in Refunds \ disturbed
             PROVE  /\ Cardinality(OpenedFor(r)) =< 1
                    /\ OpenedFor(r) # {} => refStatus[r] \in Underway
  BY DEF UndisturbedOnce
<1>1. Once(r)
  BY DEF OnceInv, ApprovedOnce
<1>2. OpenedFor(r) \subseteq SentFor(r)
  BY DEF OpenedFor, SentFor
<1>3. Cardinality(OpenedFor(r)) =< 1
  <2>1. CASE OpenedFor(r) = {}
    BY <2>1, FS_EmptySet
  <2>2. ASSUME NEW g \in OpenedFor(r) PROVE OpenedFor(r) = {g}
    BY <1>1, <1>2 DEF Once
  <2>3. CASE OpenedFor(r) # {}
    <3>1. PICK g \in OpenedFor(r) : OpenedFor(r) = {g}
      BY <2>2, <2>3
    <3>2. Cardinality({g}) = 1
      BY FS_Singleton
    <3> QED BY <3>1, <3>2
  <2> QED BY <2>1, <2>3
<1>4. OpenedFor(r) # {} => refStatus[r] \in Underway
  BY <1>1, <1>2 DEF Once, OpenedFor, Underway
<1> QED BY <1>3, <1>4

\* A refund approved once and not interrupted is paid out at most once, and its row is
\* PROCESSING or PROCESSED while the gateway has it.
THEOREM RefundsUndisturbedOnce == RefundsSpec => []UndisturbedOnce
BY InitOnce, StepOnce, OnceUndisturbed, PTL DEF RefundsSpec

-----------------------------------------------------------------------------
(***************************************************************************)
(* The ceiling, approval by approval: what is underway and what an approval*)
(* that has passed its check adds to it fit in the payment together.       *)
(***************************************************************************)
Committed == IF manual THEN Finishing ELSE {"mark", "send", "store"}
UnderwayRefunds == WithStatus(Underway)

OneApproval ==
  \A v, w \in Workers : rtask[v].do \in Approving /\ rtask[w].do \in Approving =>
    rtask[v].refund = rtask[w].refund
CommittedFit ==
  /\ SumOf(UnderwayRefunds) =< Captured
  /\ \A w \in Workers :
       rtask[w].do \in Committed => SumOf(UnderwayRefunds \cup {rtask[w].refund}) =< Captured
DisbursedStay == manual => finalized \subseteq WithStatus({"PROCESSED"})

CeilingHeld == ~overlapped /\ disturbed = {} => OneApproval /\ CommittedFit /\ DisbursedStay
CeilingInv == OnceInv /\ CeilingHeld

\* Refunds that have a row keep their amounts, so fewer of them come to no more.
LEMMA SumShrinks ==
  ASSUME Links, NEW w \in Workers, RefundCall(w) \/ RefundStep(w) \/ AbandonRefund(w),
         NEW X \in SUBSET Refunds, \A r \in X : refStatus[r] # "none", NEW Y \in SUBSET X
  PROVE  /\ SumFunctionOnSet(Amounts', Y) =< SumOf(X)
         /\ SumOf(X) \in Nat /\ SumFunctionOnSet(Amounts', Y) \in Nat
<1>1. RefundsTypeOK /\ RefundsTypeOK' /\ IsFiniteSet(X) /\ IsFiniteSet(Y)
  BY CallType, StepType, RefundsFinite DEF Links
<1>2. \A r \in X : Amounts'[r] = Amounts[r] /\ Amounts[r] \in Nat
  BY <1>1, RowsStay DEF Amounts, RefundsTypeOK, Row
<1>3. SumOf(X) = SumFunctionOnSet(Amounts', X)
  BY <1>1, <1>2, SumSame DEF SumOf
<1>4. \A r \in X : Amounts'[r] \in Nat
  BY <1>2
<1>5. SumFunctionOnSet(Amounts', Y) =< SumFunctionOnSet(Amounts', X)
  BY <1>1, <1>4, SumSubset
<1>6. SumFunctionOnSet(Amounts', Y) \in Nat
  BY <1>1, <1>4, SumNat
<1>7. SumOf(X) \in Nat
  BY <1>1, SumsOfRefunds DEF RefundsTypeOK
<1> QED BY <1>3, <1>5, <1>6, <1>7

\* Where no approval overlaps or is interrupted, none did before.
LEMMA HistoryStays ==
  ASSUME NEW w \in Workers, RefundCall(w) \/ RefundStep(w) \/ AbandonRefund(w),
         RefundsTypeOK, ~overlapped', disturbed' = {}
  PROVE  ~overlapped /\ disturbed = {} /\ ~AbandonRefund(w) /\ ~MarkRejected(w)
<1>1. disturbed = {}
  BY DisturbedStays
<1>2. ~AbandonRefund(w) /\ ~MarkRejected(w)
  BY DEF AbandonRefund, MarkRejected
<1>3. ~overlapped
  BY DEF RefundCall, RequestRefund, CreateSellerRefund, RefundForReturn, HandleRefundWebhook,
   ApproveRefund, RejectRefund, DisburseManualRefund, RefundStep, CreateRefund,
   CheckCeiling, MarkProcessing, CallGateway, StoreAnswer, MarkRejected, CheckDisbursement,
   MarkFailed, FinalizeRefund, FlipProcessed, CommitRefund, RefuseRefund, AbandonRefund, history
<1> QED BY <1>1, <1>2, <1>3

\* A step keeps the ceiling if what is underway after it, and what it commits to,
\* were underway or committed before.
LEMMA CeilingFrom ==
  ASSUME CeilingInv, NEW w \in Workers, RefundCall(w) \/ RefundStep(w) \/ AbandonRefund(w),
         NEW t, Begin(w, t) \/ Turn(w, t) \/ (t = rtask[w] /\ rtask' = rtask), UNCHANGED manual,
         ~overlapped /\ disturbed = {},
         t.do \in Approving =>
           \/ rtask[w].do \in Approving /\ t.refund = rtask[w].refund
           \/ \A v \in Workers : rtask[v].do \in Approving => rtask[v].refund = t.refund,
         t.do \in Committed => t.refund \in Refunds /\ refStatus[t.refund] # "none" /\
           (\/ rtask[w].do \in Committed /\ t.refund = rtask[w].refund
            \/ SumOf(UnderwayRefunds \cup {t.refund}) =< Captured),
         \A r \in UnderwayRefunds' : r \in UnderwayRefunds \/
           (rtask[w].do \in Committed /\ r = rtask[w].refund),
         manual => \A r \in finalized' : refStatus'[r] = "PROCESSED"
  PROVE  CeilingHeld'
<1>a. /\ Links /\ RefundsTypeOK /\ RefundsTypeOK' /\ OneApproval /\ CommittedFit /\ DisbursedStay
      /\ RowsExist /\ GatewayLinked
  BY CallType, StepType DEF CeilingInv, CeilingHeld, OnceInv, BackedInv, Links
<1>b. \A v \in Workers : rtask'[v] = IF v = w THEN t ELSE rtask[v]
  BY <1>a, Turned
<1>c. Approving' = Approving /\ Committed' = Committed /\ Committed \subseteq Approving
  BY DEF Approving, Committed, Finishing
<1>d. \A v \in Workers : rtask[v].do \in Committed =>
        rtask[v].refund \in Refunds /\ refStatus[rtask[v].refund] # "none"
  <2>1. \A v \in Workers : rtask[v].do \in Committed => rtask[v].do \notin {"idle", "create"}
    BY DEF Committed, Finishing
  <2>2. \A v \in Workers : rtask[v].do \in Committed => rtask[v].refund \in Refunds
    BY <1>a, <2>1, TaskOf
  <2> QED BY <1>a, <2>2, RefundsFinite DEF RowsExist
<1>1. OneApproval'
  BY <1>a, <1>b, <1>c DEF OneApproval
<1>2. DisbursedStay'
  BY <1>a DEF DisbursedStay, WithStatus, RefundsTypeOK
<1>3. UnderwayRefunds \in SUBSET Refunds /\ \A r \in UnderwayRefunds : refStatus[r] # "none"
  BY DEF UnderwayRefunds, WithStatus, Underway
<1>4. ASSUME NEW X \in SUBSET Refunds, \A r \in X : refStatus[r] # "none", SumOf(X) =< Captured,
             NEW Y \in SUBSET X
      PROVE  SumFunctionOnSet(Amounts', Y) =< Captured
  BY <1>a, <1>4, SumShrinks, CapturedNat
<1>u. PICK U : U = UnderwayRefunds
  OBVIOUS
<1>v. PICK V : V = UnderwayRefunds'
  OBVIOUS
<1>r. PICK r0 : r0 = rtask[w].refund
  OBVIOUS
<1>5. ASSUME NEW r \in Refunds, refStatus[r] # "none", SumOf(U \cup {r}) =< Captured,
             V \subseteq U \cup {r}
      PROVE  /\ SumFunctionOnSet(Amounts', V) =< Captured
             /\ SumFunctionOnSet(Amounts', V \cup {r}) =< Captured
  <2>1. U \cup {r} \in SUBSET Refunds /\ \A q \in U \cup {r} : refStatus[q] # "none"
    BY <1>3, <1>5, <1>u
  <2>2. V \in SUBSET (U \cup {r}) /\ V \cup {r} \in SUBSET (U \cup {r})
    BY <1>5
  <2> QED BY <1>4, <1>5, <2>1, <2>2
<1>6. /\ SumFunctionOnSet(Amounts', V) =< Captured
      /\ \A v \in Workers : rtask'[v].do \in Committed =>
           SumFunctionOnSet(Amounts', V \cup {rtask'[v].refund}) =< Captured
  <2>1. CASE rtask[w].do \in Committed
    <3>1. V \subseteq U \cup {r0} /\ r0 \in Refunds /\ refStatus[r0] # "none"
      BY <1>u, <1>v, <1>r, <1>d, <2>1
    <3>2. SumOf(U \cup {r0}) =< Captured
      BY <1>a, <1>u, <1>r, <2>1 DEF CommittedFit
    <3>3. \A v \in Workers : rtask'[v].do \in Committed => rtask'[v].refund = r0
      BY <1>a, <1>b, <1>c, <1>r, <2>1 DEF OneApproval
    <3> QED BY <1>5, <3>1, <3>2, <3>3
  <2>2. CASE rtask[w].do \notin Committed
    <3>1. V \subseteq U
      BY <1>u, <1>v, <2>2
    <3>2. SumFunctionOnSet(Amounts', V) =< Captured
      <4>1. SumOf(U) =< Captured
        BY <1>a, <1>u DEF CommittedFit
      <4> QED BY <1>3, <1>4, <1>u, <3>1, <4>1
    <3>3. ASSUME NEW v \in Workers, rtask'[v].do \in Committed
          PROVE  SumFunctionOnSet(Amounts', V \cup {rtask'[v].refund}) =< Captured
      <4>1. PICK q : q = rtask'[v].refund
        OBVIOUS
      <4>2. q \in Refunds /\ refStatus[q] # "none" /\ SumOf(U \cup {q}) =< Captured
        <5>1. CASE v = w
          BY <1>b, <1>u, <2>2, <3>3, <4>1, <5>1
        <5>2. CASE v # w
          BY <1>a, <1>b, <1>d, <1>u, <3>3, <4>1, <5>2 DEF CommittedFit
        <5> QED BY <5>1, <5>2
      <4> QED BY <1>5, <3>1, <4>1, <4>2
    <3> QED BY <3>2, <3>3
  <2> QED BY <2>1, <2>2
<1>7. CommittedFit'
  BY <1>c, <1>v, <1>6 DEF CommittedFit, SumOf, Captured
<1> QED BY <1>1, <1>2, <1>7 DEF CeilingHeld
\* Passing the check means the refund fits beside what is underway.
LEMMA PassedCheck ==
  ASSUME RefundsTypeOK, NEW r \in Refunds, SumRefunds({r}) + refund[r].amount =< Captured
  PROVE  SumOf(UnderwayRefunds \cup {r}) =< Captured
<1> DEFINE X == UnderwayRefunds \ {r}
<1>1. X \in SUBSET Refunds /\ r \notin X /\ UnderwayRefunds \cup {r} = X \cup {r}
  BY DEF UnderwayRefunds, WithStatus
<1>2. SumRefunds({r}) = SumFunctionOnSet(Amounts, X)
  BY DEF SumRefunds, SumOf, UnderwayRefunds
<1> HIDE DEF X
<1>3. Amounts[r] = refund[r].amount /\ \A x \in X \cup {r} : Amounts[x] \in Int
  BY <1>1 DEF Amounts, RefundsTypeOK, Row
<1>4. IsFiniteSet(X)
  BY <1>1, RefundsFinite
<1>5. SumFunctionOnSet(Amounts, X \cup {r}) = Amounts[r] + SumFunctionOnSet(Amounts, X)
  BY <1>1, <1>3, <1>4, SumAdd
<1>6. SumFunctionOnSet(Amounts, X) \in Int
  BY <1>3, <1>4, SumType
<1>7. SumFunctionOnSet(Amounts, X \cup {r}) =< Captured
  BY <1>2, <1>3, <1>5, <1>6
<1> QED BY <1>1, <1>7 DEF SumOf

\* Every action keeps the ceiling.
LEMMA CeilingKept ==
  ASSUME CeilingInv, NEW w \in Workers, RefundCall(w) \/ RefundStep(w) \/ AbandonRefund(w),
         ~overlapped', disturbed' = {}
  PROVE  CeilingHeld'
<1>a. /\ RefundsTypeOK /\ RowsExist /\ GatewayLinked /\ Links /\ OnceInv
      /\ OneApproval /\ CommittedFit /\ DisbursedStay
      /\ ~overlapped /\ disturbed = {} /\ ~AbandonRefund(w) /\ ~MarkRejected(w)
  BY HistoryStays DEF CeilingInv, CeilingHeld, OnceInv, BackedInv, Links
<1>r. PICK r0 : r0 = rtask[w].refund
  OBVIOUS
<1>b. /\ rtask[w].do \notin {"idle", "create"} => r0 \in Refunds /\ refStatus[r0] # "none"
      /\ r0 \in finalized => refStatus[r0] # "none"
  BY <1>a, <1>r, TaskOf, RefundsFinite DEF RowsExist
<1>c. UNCHANGED manual
  BY DEF RefundCall, RequestRefund, CreateSellerRefund, RefundForReturn, HandleRefundWebhook,
   ApproveRefund, RejectRefund, DisburseManualRefund, RefundStep, CreateRefund,
   CheckCeiling, MarkProcessing, CallGateway, StoreAnswer, MarkRejected, CheckDisbursement,
   MarkFailed, FinalizeRefund, FlipProcessed, CommitRefund, RefuseRefund, AbandonRefund
\* Steps that leave the rows alone.
<1>d. ASSUME UNCHANGED <<refStatus, finalized>>
      PROVE  /\ \A r \in UnderwayRefunds' : r \in UnderwayRefunds
             /\ manual => \A r \in finalized' : refStatus'[r] = "PROCESSED"
  BY <1>a, <1>d DEF UnderwayRefunds, WithStatus, DisbursedStay
\* Steps that add one.
<1>e. ASSUME NEW row, NewRow(row), UNCHANGED finalized
      PROVE  /\ \A r \in UnderwayRefunds' : r \in UnderwayRefunds
             /\ manual => \A r \in finalized' : refStatus'[r] = "PROCESSED"
  BY <1>a, <1>e DEF NewRow, Unused, UnderwayRefunds, WithStatus, Underway, DisbursedStay,
     RefundsTypeOK
<1>1. ASSUME NEW ask \in Asks, RequestRefund(w, ask) PROVE CeilingHeld'
  <2>1. Begin(w, [do |-> "create", refund |-> 0, row |-> ask]) /\ UNCHANGED <<refStatus, finalized>>
    BY <1>1 DEF RequestRefund, ledger
  <2> QED BY <1>a, <1>c, <1>d, <2>1, CeilingFrom DEF Approving, Committed, Finishing
<1>2. ASSUME NEW s \in Slices, NEW a \in Parts, CreateSellerRefund(w, s, a) PROVE CeilingHeld'
  <2>1. PICK q \in Unused : refStatus'[q] # "none" /\ Begin(w, On("approve", q))
    BY <1>2 DEF CreateSellerRefund
  <2>2. PICK row : NewRow(row) /\ UNCHANGED finalized
    BY <1>2 DEF CreateSellerRefund, ledger
  <2>3. \A v \in Workers : rtask[v].do \notin Approving
    <3>1. \A x \in Refunds : ~InApproval(x)
      BY <1>2 DEF CreateSellerRefund
    <3>2. \A v \in Workers : rtask[v].do \in Approving => rtask[v].do \notin {"idle", "create"}
      BY DEF Approving
    <3> QED BY <1>a, <3>1, <3>2, TaskOf DEF InApproval
  <2> QED BY <1>a, <1>c, <1>e, <2>1, <2>2, <2>3, CeilingFrom DEF On, Committed, Finishing
<1>3. ASSUME NEW s \in Slices, NEW a \in Parts, RefundForReturn(w, s, a) PROVE CeilingHeld'
  <2>2. PICK row : NewRow(row) /\ UNCHANGED finalized
    BY <1>3 DEF RefundForReturn, ledger
  <2>1. CASE manual
    <3>1. UNCHANGED rtask
      BY <1>3, <2>1 DEF RefundForReturn
    <3> QED BY <1>a, <1>b, <1>c, <1>e, <1>r, <2>1, <2>2, <3>1, CeilingFrom
               DEF Committed, Approving, Finishing
  <2>3. CASE ~manual
    <3>1. PICK q \in Unused : refStatus'[q] # "none" /\ Begin(w, On("approve", q))
      BY <1>3, <2>3 DEF RefundForReturn
    <3>2. \A x \in Refunds : ~InApproval(x)
      BY <1>3, <2>3 DEF RefundForReturn
    <3>3. \A v \in Workers : rtask[v].do \notin Approving
      <4>1. \A v \in Workers : rtask[v].do \in Approving => rtask[v].do \notin {"idle", "create"}
        BY DEF Approving
      <4> QED BY <1>a, <3>2, <4>1, TaskOf DEF InApproval
    <3> QED BY <1>a, <1>c, <1>e, <2>2, <2>3, <3>1, <3>3, CeilingFrom DEF On, Committed, Finishing
  <2> QED BY <2>1, <2>3
<1>4. ASSUME NEW r \in Refunds, ApproveRefund(w, r) PROVE CeilingHeld'
  <2>1. Begin(w, On("approve", r)) /\ UNCHANGED <<refStatus, finalized>> /\ ~manual
    BY <1>4 DEF ApproveRefund, ledger
  <2>2. \A v \in Workers : rtask[v].do \in Approving => rtask[v].refund = r
    <3>1. \A x \in Refunds \ {r} : ~InApproval(x)
      BY <1>4 DEF ApproveRefund
    <3>2. \A v \in Workers : rtask[v].do \in Approving => rtask[v].do \notin {"idle", "create"}
      BY DEF Approving
    <3> QED BY <1>a, <3>1, <3>2, TaskOf DEF InApproval
  <2> QED BY <1>a, <1>c, <1>d, <2>1, <2>2, CeilingFrom DEF On, Committed, Finishing
<1>5. ASSUME NEW r \in Refunds, RejectRefund(w, r) PROVE CeilingHeld'
  <2>1. Begin(w, On("reject", r)) /\ UNCHANGED <<refStatus, finalized>>
    BY <1>5 DEF RejectRefund, ledger
  <2> QED BY <1>a, <1>c, <1>d, <2>1, CeilingFrom DEF On, Approving, Committed, Finishing
<1>6. ASSUME NEW r \in Refunds, DisburseManualRefund(w, r) PROVE CeilingHeld'
  <2>1. Begin(w, On("disburse", r)) /\ UNCHANGED <<refStatus, finalized>> /\ manual
    BY <1>6 DEF DisburseManualRefund, ledger
  <2>2. \A v \in Workers : rtask[v].do \in Approving => rtask[v].refund = r
    <3>1. \A x \in Refunds \ {r} : ~InApproval(x)
      BY <1>6 DEF DisburseManualRefund
    <3>2. \A v \in Workers : rtask[v].do \in Approving => rtask[v].do \notin {"idle", "create"}
      BY DEF Approving
    <3> QED BY <1>a, <3>1, <3>2, TaskOf DEF InApproval
  <2> QED BY <1>a, <1>c, <1>d, <2>1, <2>2, CeilingFrom DEF On, Committed, Finishing
<1>7. ASSUME NEW g \in Sent, HandleRefundWebhook(w, g) PROVE CeilingHeld'
  <2>1. PICK x \in Refunds, status \in {"processed", "failed"} :
          gid[x] = g /\ Begin(w, On(IF status = "processed" THEN "finalize" ELSE "fail", x))
    BY <1>7 DEF HandleRefundWebhook
  <2>2. UNCHANGED <<refStatus, finalized>> /\ ~manual
    <3>1. g # 0 /\ gateway[g].of = x
      <4>1. g # 0
        BY RefundsConstantsOK DEF Sent
      <4> QED BY <1>a, <2>1, <4>1 DEF GatewayLinked
    <3> QED BY <1>7, <1>a, <3>1, RefundsFinite DEF HandleRefundWebhook, ledger, GatewayLinked
  <2> QED BY <1>a, <1>c, <1>d, <2>1, <2>2, CeilingFrom DEF On, Approving, Committed, Finishing
<1>8. CASE CreateRefund(w)
  <2>1. Turn(w, Resting) /\ NewRow(rtask[w].row) /\ UNCHANGED finalized
    BY <1>8 DEF CreateRefund, ledger
  <2> QED BY <1>a, <1>c, <1>e, <2>1, CeilingFrom DEF Resting, Approving, Committed, Finishing
<1>9. CASE CheckCeiling(w)
  <2>1. rtask[w].do = "approve" /\ ~manual /\ UNCHANGED <<refStatus, finalized>>
    BY <1>9, <1>a DEF CheckCeiling, At, GatewayLinked, AtGateway, ledger
  <2>2. CASE Turn(w, Resting)
    BY <1>a, <1>c, <1>d, <2>1, <2>2, CeilingFrom DEF Resting, Approving, Committed, Finishing
  <2>3. CASE Turn(w, On("mark", r0)) /\ SumRefunds({r0}) + refund[r0].amount =< Captured
    <3>1. SumOf(UnderwayRefunds \cup {r0}) =< Captured
      BY <1>a, <1>b, <2>1, <2>3, PassedCheck
    <3> QED BY <1>a, <1>b, <1>c, <1>d, <1>r, <2>1, <2>3, <3>1, CeilingFrom
               DEF On, Approving, Committed
  <2> QED BY <1>9, <1>r, <2>2, <2>3 DEF CheckCeiling
<1>10. CASE MarkProcessing(w)
  <2>1. /\ rtask[w].do = "mark" /\ ~manual /\ UNCHANGED finalized /\ Turn(w, On("send", r0))
        /\ refStatus' = [refStatus EXCEPT ![r0] = "PROCESSING"]
    BY <1>10, <1>a, <1>r DEF MarkProcessing, At, GatewayLinked, AtGateway, ledger
  <2>2. \A r \in UnderwayRefunds' : r \in UnderwayRefunds \/ r = r0
    BY <1>a, <2>1 DEF UnderwayRefunds, WithStatus, RefundsTypeOK
  <2> QED BY <1>a, <1>b, <1>c, <1>r, <2>1, <2>2, CeilingFrom DEF On, Approving, Committed
<1>11. CASE CallGateway(w)
  <2>1. rtask[w].do = "send" /\ ~manual /\ UNCHANGED <<refStatus, finalized>>
    BY <1>11, <1>a, <1>r DEF CallGateway, At, GatewayLinked, AtGateway, ledger
  <2>2. PICK g : Turn(w, [do |-> "store", refund |-> r0, sent |-> g])
    BY <1>11, <1>r DEF CallGateway
  <2> QED BY <1>a, <1>b, <1>c, <1>d, <1>r, <2>1, <2>2, CeilingFrom DEF Approving, Committed
<1>12. CASE StoreAnswer(w)
  <2>1. /\ rtask[w].do = "store" /\ ~manual /\ UNCHANGED finalized
        /\ refStatus' = refStatus \/ refStatus' = [refStatus EXCEPT ![r0] = "FAILED"]
    BY <1>12, <1>a, <1>r DEF StoreAnswer, At, GatewayLinked, AtGateway, ledger
  <2>2. \A r \in UnderwayRefunds' : r \in UnderwayRefunds
    BY <1>a, <2>1 DEF UnderwayRefunds, WithStatus, RefundsTypeOK, Underway
  <2>3. PICK t : Turn(w, t) /\ t.do \in {"finalize", "idle"}
    BY <1>12 DEF StoreAnswer, On, Resting
  <2> QED BY <1>a, <1>c, <2>1, <2>2, <2>3, CeilingFrom DEF Approving, Committed
<1>13. CASE MarkRejected(w)
  BY <1>13, <1>a
<1>14. CASE CheckDisbursement(w)
  <2>1. rtask[w].do = "disburse" /\ manual /\ UNCHANGED <<refStatus, finalized>>
    BY <1>14, <1>a DEF CheckDisbursement, At, GatewayLinked, ledger
  <2>2. CASE Turn(w, Resting)
    BY <1>a, <1>c, <1>d, <2>1, <2>2, CeilingFrom DEF Resting, Approving, Committed, Finishing
  <2>3. CASE Turn(w, On("finalize", r0)) /\ SumRefunds({r0}) + refund[r0].amount =< Captured
    <3>1. SumOf(UnderwayRefunds \cup {r0}) =< Captured
      BY <1>a, <1>b, <2>1, <2>3, PassedCheck
    <3> QED BY <1>a, <1>b, <1>c, <1>d, <1>r, <2>1, <2>3, <3>1, CeilingFrom
               DEF On, Approving, Committed
  <2> QED BY <1>14, <1>r, <2>2, <2>3 DEF CheckDisbursement
<1>15. CASE MarkFailed(w)
  <2>1. /\ rtask[w].do = "fail" /\ ~manual /\ UNCHANGED finalized /\ Turn(w, Resting)
        /\ refStatus' = [refStatus EXCEPT ![r0] = "FAILED"]
    BY <1>15, <1>a, <1>r DEF MarkFailed, At, GatewayLinked, AtGateway, ledger
  <2>2. \A r \in UnderwayRefunds' : r \in UnderwayRefunds
    BY <1>a, <2>1 DEF UnderwayRefunds, WithStatus, RefundsTypeOK, Underway
  <2> QED BY <1>a, <1>c, <2>1, <2>2, CeilingFrom DEF Resting, Approving, Committed
<1>16. CASE FinalizeRefund(w)
  <2>1. rtask[w].do = "finalize" /\ UNCHANGED <<refStatus, finalized>>
    BY <1>16 DEF FinalizeRefund, At, ledger
  <2>2. PICK t : Turn(w, t) /\ (t.do = "idle" \/ (t.do = "flip" /\ t.refund = r0))
    BY <1>16, <1>r DEF FinalizeRefund, Resting
  <2> QED BY <1>a, <1>b, <1>c, <1>d, <1>r, <2>1, <2>2, CeilingFrom DEF Approving, Committed,
             Finishing
<1>17. CASE FlipProcessed(w)
  <2>1. rtask[w].do = "flip" /\ UNCHANGED <<refStatus, finalized>>
    BY <1>17 DEF FlipProcessed, At, ledger
  <2>2. PICK t : Turn(w, t) /\ (t.do = "idle" \/ (t.do = "commit" /\ t.refund = r0))
    BY <1>17, <1>r DEF FlipProcessed, Resting
  <2> QED BY <1>a, <1>b, <1>c, <1>d, <1>r, <2>1, <2>2, CeilingFrom DEF Approving, Committed,
             Finishing
<1>18. CASE CommitRefund(w)
  <2>1. /\ rtask[w].do = "commit" /\ Turn(w, Resting) /\ finalized' = finalized \cup {r0}
        /\ refStatus' = [refStatus EXCEPT ![r0] = "PROCESSED"]
    BY <1>18, <1>r DEF CommitRefund, At
  <2>2. r0 \in Refunds
    BY <1>b, <2>1
  <2>3. CASE manual
    <3>1. \A r \in UnderwayRefunds' : r \in UnderwayRefunds \/ r = r0
      BY <1>a, <2>1, <2>2 DEF UnderwayRefunds, WithStatus, RefundsTypeOK
    <3>2. \A r \in finalized' : refStatus'[r] = "PROCESSED"
      BY <1>a, <2>1, <2>2, <2>3 DEF DisbursedStay, WithStatus, RefundsTypeOK
    <3> QED BY <1>a, <1>c, <1>r, <2>1, <2>3, <3>1, <3>2, CeilingFrom
            DEF Resting, Approving, Committed, Finishing
  <2>4. CASE ~manual
    <3>1. r0 \in UnderwayRefunds
      <4>1. PICK g \in Sent : gateway[g] = [of |-> r0, status |-> "processed"]
        BY <1>a, <1>r, <2>1, <2>4 DEF OnceInv, BackedInv, FinishingBacked, Finishing, PaidOut
      <4>2. g \in SentFor(r0) /\ gateway[g].status = "processed"
        BY <4>1 DEF SentFor
      <4>3. Once(r0)
        BY <1>a, <2>2 DEF OnceInv, ApprovedOnce
      <4> QED BY <2>2, <4>2, <4>3 DEF Once, UnderwayRefunds, WithStatus, Underway
    <3>2. \A r \in UnderwayRefunds' : r \in UnderwayRefunds
      BY <1>a, <2>1, <2>2, <3>1 DEF UnderwayRefunds, WithStatus, RefundsTypeOK
    <3> QED BY <1>a, <1>c, <2>1, <2>4, <3>2, CeilingFrom DEF Resting, Approving, Committed
  <2> QED BY <2>3, <2>4
<1>19. CASE RefuseRefund(w)
  <2>1. Turn(w, Resting) /\ UNCHANGED <<refStatus, finalized>>
    BY <1>19 DEF RefuseRefund, ledger
  <2> QED BY <1>a, <1>c, <1>d, <2>1, CeilingFrom DEF Resting, Approving, Committed, Finishing
<1>20. CASE AbandonRefund(w)
  BY <1>20, <1>a
<1> QED BY <1>1, <1>2, <1>3, <1>4, <1>5, <1>6, <1>7, <1>8, <1>9, <1>10, <1>11, <1>12, <1>13,
           <1>14, <1>15, <1>16, <1>17, <1>18, <1>19, <1>20 DEF RefundCall, RefundStep

\* At first nothing is underway.
LEMMA InitCeiling == RefundsInit => CeilingInv
<1> SUFFICES ASSUME RefundsInit PROVE CeilingInv
  OBVIOUS
<1>1. OnceInv
  BY InitOnce
<1>2. \A w \in Workers : rtask[w].do = "idle"
  BY DEF RefundsInit, Resting
<1>3. UnderwayRefunds = {} /\ finalized = {}
  BY DEF RefundsInit, UnderwayRefunds, WithStatus, Underway
<1>4. SumOf(UnderwayRefunds) = 0
  BY <1>3, SumEmpty DEF SumOf
<1>5. OneApproval /\ CommittedFit /\ DisbursedStay
  BY <1>2, <1>3, <1>4, CapturedNat
     DEF OneApproval, CommittedFit, DisbursedStay, Approving, Committed, Finishing
<1> QED BY <1>1, <1>5 DEF CeilingInv, CeilingHeld

\* The ceiling is inductive.
LEMMA StepCeiling == CeilingInv /\ [RefundsNext]_refundVars => CeilingInv'
<1>1. CeilingInv /\ RefundsNext => CeilingInv'
  <2> SUFFICES ASSUME CeilingInv, NEW w \in Workers,
                      RefundCall(w) \/ RefundStep(w) \/ AbandonRefund(w)
               PROVE  CeilingInv'
    BY DEF RefundsNext
  <2>1. OnceInv'
    BY StepOnce DEF CeilingInv, RefundsNext
  <2>2. CeilingHeld'
    <3>1. CASE ~overlapped' /\ disturbed' = {}
      BY <3>1, CeilingKept
    <3>2. CASE ~(~overlapped' /\ disturbed' = {})
      BY <3>2 DEF CeilingHeld
    <3> QED BY <3>1, <3>2
  <2> QED BY <2>1, <2>2 DEF CeilingInv
<1>2. CeilingInv /\ UNCHANGED refundVars => CeilingInv'
  <2> SUFFICES ASSUME CeilingInv, UNCHANGED refundVars PROVE CeilingInv'
    OBVIOUS
  <2>1. OnceInv'
    BY StepOnce DEF CeilingInv
  <2>2. UNCHANGED <<manual, refStatus, refund, rtask, finalized, disturbed, overlapped>>
    BY DEF refundVars, ledger, history
  <2>3. CeilingHeld'
    BY <2>2 DEF CeilingInv, CeilingHeld, OneApproval, CommittedFit, DisbursedStay, UnderwayRefunds,
       WithStatus, SumOf, Amounts, Captured, Approving, Committed
  <2> QED BY <2>1, <2>3 DEF CeilingInv
<1> QED BY <1>1, <1>2

\* As long as approvals come one after the other and none is interrupted, a buyer never
\* gets back more than the payment captured.
THEOREM RefundsWithinCapture == RefundsSpec => []CeilingInTurn
<1>1. CeilingInv => CeilingInTurn
  <2> SUFFICES ASSUME CeilingInv, ~overlapped, disturbed = {}
               PROVE  SumOf({r \in Refunds : IF manual THEN r \in finalized ELSE OpenedFor(r) # {}})
                        =< Captured
    BY DEF CeilingInTurn
  <2> DEFINE Back == {r \in Refunds : IF manual THEN r \in finalized ELSE OpenedFor(r) # {}}
  <2>1. /\ RefundsTypeOK /\ CommittedFit /\ DisbursedStay /\ OnceInv
    BY DEF CeilingInv, CeilingHeld, OnceInv, BackedInv, Links
  <2>2. Back \in SUBSET UnderwayRefunds
    <3>1. CASE manual
      BY <2>1, <3>1 DEF DisbursedStay, UnderwayRefunds, WithStatus, Underway
    <3>2. CASE ~manual
      BY <2>1, <3>2, OnceUndisturbed DEF UndisturbedOnce, UnderwayRefunds, WithStatus
    <3> QED BY <3>1, <3>2
  <2>3. UnderwayRefunds \in SUBSET Refunds
    BY DEF UnderwayRefunds, WithStatus
  <2> HIDE DEF Back
  <2>4. IsFiniteSet(UnderwayRefunds) /\ \A r \in UnderwayRefunds : Amounts[r] \in Nat
    BY <2>1, <2>3, RefundsFinite DEF Amounts, RefundsTypeOK, Row
  <2>5. SumOf(Back) =< SumOf(UnderwayRefunds)
    BY <2>2, <2>4, SumSubset DEF SumOf
  <2>6. SumOf(Back) \in Nat /\ SumOf(UnderwayRefunds) \in Nat
    BY <2>1, <2>2, <2>3, SumsOfRefunds DEF RefundsTypeOK
  <2>7. SumOf(Back) =< Captured
    BY <2>1, <2>5, <2>6, CapturedNat DEF CommittedFit
  <2> QED BY <2>7 DEF Back
<1> QED BY <1>1, InitCeiling, StepCeiling, PTL DEF RefundsSpec

-----------------------------------------------------------------------------
(***************************************************************************)
(* Effects are applied once: what a finalization finds done already.       *)
(***************************************************************************)
Shares(s) == SumFunctionOnSet([r \in Refunds |-> Share(r, s)], finalized)
Due(s)    == Accrued(s) - Shares(s)

RestockedOnce ==
  \A r \in Refunds, s \in Slices :
    restocked[r][s] = IF r \in finalized /\ refund[r].restock /\ s \in Scope(r)
                      THEN Units(r, s) ELSE 0
ReversedDue ==
  \A s \in Slices : tcsLeft[s] = IF Due(s) > 0 THEN Due(s) ELSE 0
ReversedOnce ==
  /\ \A r \in Refunds \ finalized : reversed[r] = {}
  /\ \A r \in finalized : \A s \in Scope(r) :
       s \in reversed[r] \/ Share(r, s) = 0 \/ tcsLeft[s] = 0

EffectsInv == Links /\ RestockedOnce /\ ReversedDue /\ ReversedOnce

\* Something of a slice goes back, if anything does.
LEMMA UnitsNat ==
  ASSUME RefundsTypeOK, NEW r \in Refunds, NEW s \in Slices
  PROVE  Units(r, s) \in Nat \ {0}
BY RefundsConstantsOK DEF Units, RefundsTypeOK, Row

\* What a row's slices, goods and share are depends on nothing else.
LEMMA RowDecides ==
  ASSUME NEW r, refund'[r] = refund[r]
  PROVE  /\ Scope(r)' = Scope(r)
         /\ \A s : Units(r, s)' = Units(r, s) /\ Share(r, s)' = Share(r, s)
BY DEF Scope, Units, Share, Accrued, Captured

\* Shares and accruals are amounts.
LEMMA SharesTyped ==
  ASSUME RefundsTypeOK, NEW s \in Slices
  PROVE  Shares(s) \in Nat /\ Accrued(s) \in Nat /\ Due(s) \in Int
<1>1. \A r \in Refunds : Share(r, s) \in Nat
  BY ShareNat
<1>2. IsFiniteSet(finalized) /\ finalized \subseteq Refunds
  BY RefundsFinite DEF RefundsTypeOK
<1> DEFINE f == [r \in Refunds |-> Share(r, s)]
<1>3. \A r \in finalized : f[r] \in Nat
  BY <1>1, <1>2
<1>4. SumFunctionOnSet(f, finalized) \in Nat
  <2> HIDE DEF f
  <2> QED BY <1>2, <1>3, SumNat
<1>5. Accrued(s) \in Nat
  BY CapturedNat, RefundsConstantsOK DEF Accrued
<1> QED BY <1>4, <1>5 DEF Shares, Due

\* What is finalized keeps its shares.
LEMMA SharesKept ==
  ASSUME Links, NEW w \in Workers, RefundCall(w) \/ RefundStep(w) \/ AbandonRefund(w),
         NEW s \in Slices
  PROVE  Shares(s) = SumFunctionOnSet([r \in Refunds |-> Share(r, s)'], finalized)
<1>1. \A r \in finalized : r \in Refunds /\ refund'[r] = refund[r]
  BY RowsStay DEF Links, RowsExist, RefundsTypeOK
<1>2. \A r \in finalized : Share(r, s)' = Share(r, s)
  BY <1>1, RowDecides
<1> DEFINE f == [r \in Refunds |-> Share(r, s)]
           g == [r \in Refunds |-> Share(r, s)']
<1>3. \A r \in finalized : f[r] = g[r]
  BY <1>1, <1>2
<1>4. IsFiniteSet(finalized)
  BY RefundsFinite DEF Links, RefundsTypeOK
<1>5. SumFunctionOnSet(f, finalized) = SumFunctionOnSet(g, finalized)
  <2> HIDE DEF f, g
  <2> QED BY <1>3, <1>4, SumSame
<1> QED BY <1>5 DEF Shares

\* Only a finalization that commits has effects.
LEMMA EffectsFrame ==
  ASSUME EffectsInv, NEW w \in Workers, RefundCall(w) \/ RefundStep(w) \/ AbandonRefund(w),
         UNCHANGED <<restocked, reversed, tcsLeft, finalized>>
  PROVE  RestockedOnce' /\ ReversedDue' /\ ReversedOnce'
<1>1. \A r \in finalized : /\ r \in Refunds /\ refund'[r] = refund[r]
                           /\ Scope(r)' = Scope(r)
                           /\ \A s : Units(r, s)' = Units(r, s) /\ Share(r, s)' = Share(r, s)
  BY RowsStay, RowDecides DEF EffectsInv, Links, RowsExist, RefundsTypeOK
<1>2. RestockedOnce'
  BY <1>1 DEF EffectsInv, RestockedOnce
<1>3. ReversedOnce'
  BY <1>1 DEF EffectsInv, ReversedOnce
<1>4. ReversedDue'
  <2>1. \A s \in Slices : Due(s)' = Due(s)
    BY SharesKept DEF EffectsInv, Due, Shares, Accrued, Captured
  <2> QED BY <2>1 DEF EffectsInv, ReversedDue
<1> QED BY <1>2, <1>3, <1>4

\* The first finalization of a refund adds its share and its goods; a later one adds nothing.
LEMMA EffectsOfCommit ==
  ASSUME EffectsInv, NEW w \in Workers, CommitRefund(w)
  PROVE  RestockedOnce' /\ ReversedDue' /\ ReversedOnce'
<1>r. PICK r : r = rtask[w].refund
  OBVIOUS
<1>a. Links /\ RestockedOnce /\ ReversedDue /\ ReversedOnce /\ RefundsTypeOK
  BY DEF EffectsInv, Links
<1>b. r \in Refunds /\ UNCHANGED refund /\ finalized' = finalized \cup {r}
  BY <1>r, <1>a, TaskOf DEF CommitRefund, At
<1>c. Reverse(r) /\ restocked' = [restocked EXCEPT ![r] = [s \in Slices |-> @[s] + GoesBack(r)[s]]]
  BY <1>r DEF CommitRefund, Restock
<1>d. \A q : Scope(q)' = Scope(q) /\ \A s : Units(q, s)' = Units(q, s) /\ Share(q, s)' = Share(q, s)
  BY <1>b, RowDecides
<1>e. \A q \in Refunds, s \in Slices : restocked[q][s] \in Nat /\ tcsLeft[s] \in Nat
  <2>1. \A s \in Slices : tcsLeft[s] \in Nat
    BY <1>a, SharesTyped DEF ReversedDue
  <2> QED BY <2>1, <1>a DEF RefundsTypeOK
<1>f. Scope(r) \subseteq Slices
  BY <1>a, <1>b DEF Scope, RefundsTypeOK, Row
<1>3. \A s \in Slices : Share(r, s) \in Nat
  BY <1>a, <1>b, ShareNat
<1>1. RestockedOnce'
  <2>1. \A s \in Slices : restocked'[r][s] = restocked[r][s] + GoesBack(r)[s]
    BY <1>a, <1>b, <1>c DEF RefundsTypeOK
  <2>2. \A q \in Refunds \ {r} : restocked'[q] = restocked[q]
    BY <1>a, <1>b, <1>c DEF RefundsTypeOK
  <2>3. CASE r \notin finalized
    <3>1. \A s \in Slices : restocked[r][s] = 0
      BY <1>a, <1>b, <2>3 DEF RestockedOnce
    <3>2. restocked[r] = Nothing
      BY <1>a, <1>b, <3>1 DEF RefundsTypeOK, Nothing
    <3>3. \A s \in Slices : Units(r, s) \in Nat
      BY <1>a, <1>b, UnitsNat
    <3>4. \A s \in Slices : restocked'[r][s] = IF refund[r].restock /\ s \in Scope(r)
                                              THEN Units(r, s) ELSE 0
      BY <2>1, <3>1, <3>2, <3>3 DEF GoesBack
    <3> QED BY <1>a, <1>b, <1>d, <2>2, <3>4 DEF RestockedOnce
  <2>4. CASE r \in finalized
    <3>1. \A s \in Slices : GoesBack(r)[s] = 0
      <4>1. ASSUME NEW s \in Slices, refund[r].restock, s \in Scope(r), restocked[r] = Nothing
            PROVE  FALSE
        <5>1. restocked[r][s] = Units(r, s)
          BY <1>a, <1>b, <2>4, <4>1 DEF RestockedOnce
        <5>2. restocked[r][s] = 0
          BY <4>1 DEF Nothing
        <5> QED BY <5>1, <5>2, <1>a, <1>b, UnitsNat
      <4> QED BY <4>1 DEF GoesBack
    <3>2. \A q \in Refunds, s \in Slices : restocked'[q][s] = restocked[q][s]
      BY <1>e, <2>1, <2>2, <3>1, <1>b
    <3> QED BY <1>a, <1>b, <1>d, <2>4, <3>2 DEF RestockedOnce
  <2> QED BY <2>3, <2>4
<1> DEFINE rows == {s \in Scope(r) \ reversed[r] : Share(r, s) > 0 /\ tcsLeft[s] > 0}
<1>2. /\ reversed' = [reversed EXCEPT ![r] = @ \cup rows]
      /\ \A s \in Slices : tcsLeft'[s] = IF s \notin rows THEN tcsLeft[s]
                                         ELSE IF Share(r, s) < tcsLeft[s]
                                              THEN tcsLeft[s] - Share(r, s) ELSE 0
  <2>1. /\ reversed' = [reversed EXCEPT ![r] = @ \cup rows]
        /\ tcsLeft' = [s \in Slices |-> IF s \in rows THEN LeftAfter(r, s) ELSE tcsLeft[s]]
    BY <1>c DEF Reverse
  <2> HIDE DEF rows
  <2> QED BY <2>1 DEF LeftAfter
<1>4. \A s \in Slices : tcsLeft[s] = 0 => tcsLeft'[s] = 0
  BY <1>2
<1>5. \A s \in Scope(r) : s \in reversed'[r] \/ Share(r, s) = 0 \/ tcsLeft'[s] = 0
  <2> SUFFICES ASSUME NEW s \in Scope(r), s \notin reversed'[r]
               PROVE  Share(r, s) = 0 \/ tcsLeft'[s] = 0
    OBVIOUS
  <2>1. s \in Slices /\ s \notin reversed[r] /\ s \notin rows
    BY <1>2, <1>f, <1>a, <1>b DEF RefundsTypeOK
  <2>2. ~ (Share(r, s) > 0 /\ tcsLeft[s] > 0)
    BY <2>1
  <2>3. Share(r, s) \in Nat /\ tcsLeft[s] \in Nat
    BY <1>3, <1>b, <1>e, <2>1
  <2> QED BY <2>1, <2>2, <2>3, <1>4
<1>6. ReversedOnce'
  <2>1. \A q \in Refunds \ {r} : reversed'[q] = reversed[q]
    BY <1>a, <1>b, <1>2 DEF RefundsTypeOK
  <2>2. \A q \in finalized : Scope(q) \subseteq Slices /\ q \in Refunds
    BY <1>a DEF Scope, RefundsTypeOK, Row
  <2> HIDE DEF rows
  <2> QED BY <1>a, <1>b, <1>d, <1>4, <1>5, <2>1, <2>2 DEF ReversedOnce
<1>7. ReversedDue'
  <2> SUFFICES ASSUME NEW s \in Slices PROVE tcsLeft'[s] = IF Due(s)' > 0 THEN Due(s)' ELSE 0
    BY DEF ReversedDue
  <2>1. Accrued(s)' = Accrued(s) /\ Accrued(s) \in Nat /\ Shares(s) \in Nat
    BY <1>a, SharesTyped DEF Accrued, Captured
  <2>2. tcsLeft[s] = IF Due(s) > 0 THEN Due(s) ELSE 0
    BY <1>a DEF ReversedDue
  <2>3. CASE r \notin finalized
    <3>1. reversed[r] = {}
      BY <1>a, <1>b, <2>3 DEF ReversedOnce
    <3> DEFINE f == [q \in Refunds |-> Share(q, s)]
    <3>2. Shares(s)' = SumFunctionOnSet(f, finalized \cup {r})
      BY <1>b, <1>d DEF Shares
    <3>3. f[r] = Share(r, s) /\ \A q \in finalized \cup {r} : f[q] \in Int
      <4>1. \A q \in Refunds : Share(q, s) \in Nat
        BY <1>a, ShareNat
      <4> QED BY <4>1, <1>a, <1>b DEF RefundsTypeOK
    <3>4. IsFiniteSet(finalized)
      BY <1>a, RefundsFinite DEF RefundsTypeOK
    <3>5. SumFunctionOnSet(f, finalized \cup {r}) = f[r] + SumFunctionOnSet(f, finalized)
      <4> HIDE DEF f
      <4> QED BY <2>3, <3>3, <3>4, SumAdd
    <3>6. Shares(s)' = Share(r, s) + Shares(s)
      BY <3>2, <3>3, <3>5 DEF Shares
    <3>7. Due(s)' = Due(s) - Share(r, s) /\ Due(s) \in Int
      BY <2>1, <3>6, <1>3 DEF Due
    <3>8. s \notin Scope(r) => Share(r, s) = 0
      BY DEF Share
    <3>9. s \notin rows => Share(r, s) = 0 \/ tcsLeft[s] = 0
      BY <3>1, <3>8, <1>3, <1>b, <1>e
    <3> HIDE DEF rows
    <3> QED BY <1>2, <1>3, <2>2, <3>7, <3>9
  <2>4. CASE r \in finalized
    <3>1. s \notin rows
      BY <1>a, <2>4, <1>3 DEF ReversedOnce
    <3>2. Due(s)' = Due(s)
      <4>1. finalized' = finalized
        BY <1>b, <2>4
      <4>2. [q \in Refunds |-> Share(q, s)]' = [q \in Refunds |-> Share(q, s)]
        BY <1>d
      <4> QED BY <2>1, <4>1, <4>2 DEF Due, Shares
    <3> HIDE DEF rows
    <3> QED BY <1>2, <2>2, <3>1, <3>2
  <2> QED BY <2>3, <2>4
<1> QED BY <1>1, <1>6, <1>7

\* At first nothing is reversed or put back.
LEMMA InitEffects == RefundsInit => EffectsInv
<1> SUFFICES ASSUME RefundsInit PROVE EffectsInv
  OBVIOUS
<1>1. Links
  BY InitLinks
<1>2. finalized = {} /\ \A r \in Refunds : reversed[r] = {} /\ restocked[r] = Nothing
  BY DEF RefundsInit
<1>3. \A s \in Slices : tcsLeft[s] = Accrued(s) /\ Due(s) = Accrued(s) /\ Accrued(s) \in Nat
  <2>1. \A s \in Slices : Shares(s) = 0
    BY <1>2, SumEmpty DEF Shares
  <2> QED BY <1>1, <2>1, SharesTyped DEF RefundsInit, Due, Links
<1> QED BY <1>1, <1>2, <1>3 DEF EffectsInv, RestockedOnce, ReversedDue, ReversedOnce, Nothing

\* What a finalization finds done is inductive.
LEMMA StepEffects == EffectsInv /\ [RefundsNext]_refundVars => EffectsInv'
<1>1. EffectsInv /\ RefundsNext => EffectsInv'
  <2> SUFFICES ASSUME EffectsInv, NEW w \in Workers,
                      RefundCall(w) \/ RefundStep(w) \/ AbandonRefund(w)
               PROVE  EffectsInv'
    BY DEF RefundsNext
  <2>1. Links'
    BY StepLinks DEF EffectsInv, RefundsNext
  <2>2. CASE CommitRefund(w)
    BY <2>1, <2>2, EffectsOfCommit DEF EffectsInv
  <2>3. CASE ~CommitRefund(w)
    <3>1. UNCHANGED <<restocked, reversed, tcsLeft, finalized>>
      BY <2>3 DEF RefundCall, RequestRefund, CreateSellerRefund, RefundForReturn,
         ApproveRefund, RejectRefund, DisburseManualRefund, HandleRefundWebhook, RefundStep,
         CreateRefund, CheckCeiling, MarkProcessing, CallGateway, StoreAnswer, MarkRejected,
         CheckDisbursement, MarkFailed, FinalizeRefund, FlipProcessed, RefuseRefund,
         AbandonRefund, ledger
    <3> QED BY <2>1, <3>1, EffectsFrame DEF EffectsInv
  <2> QED BY <2>2, <2>3
<1>2. EffectsInv /\ UNCHANGED refundVars => EffectsInv'
  <2> SUFFICES ASSUME EffectsInv, UNCHANGED refundVars PROVE EffectsInv'
    OBVIOUS
  <2>1. RefundsTypeOK'
    BY StutterType DEF EffectsInv, Links
  <2>2. RowsExist' /\ GatewayLinked'
    BY DEF EffectsInv, Links, RowsExist, GatewayLinked, refundVars, ledger
  <2>3. UNCHANGED <<refund, restocked, reversed, tcsLeft, finalized>>
    BY DEF refundVars, ledger
  <2>4. \A q : Scope(q)' = Scope(q) /\ \A s : Units(q, s)' = Units(q, s) /\ Share(q,
  s)' = Share(q, s)
    BY <2>3, RowDecides
  <2>5. \A s \in Slices : Due(s)' = Due(s)
    BY <2>3, <2>4 DEF Due, Shares, Accrued, Captured
  <2>6. RestockedOnce' /\ ReversedOnce'
    BY <2>3, <2>4 DEF EffectsInv, RestockedOnce, ReversedOnce
  <2>7. ReversedDue'
    BY <2>3, <2>5 DEF EffectsInv, ReversedDue
  <2> QED BY <2>1, <2>2, <2>6, <2>7 DEF EffectsInv, Links
<1> QED BY <1>1, <1>2

\* However often a refund is finalized, its goods go back once and one share of it is
\* reversed in the tax ledger, which never falls below zero.
THEOREM RefundsApplyOnce == RefundsSpec => []EffectsOnce
<1>1. EffectsInv => EffectsOnce
  BY DEF EffectsInv, RestockedOnce, ReversedDue, EffectsOnce, Due, Shares
<1> QED BY <1>1, InitEffects, StepEffects, PTL DEF RefundsSpec
=============================================================================
