-------------------------- MODULE SettlementProofs --------------------------
(***************************************************************************)
(* Proofs about Payouts and the Returns it extends, for any slices, number *)
(* of returns, refunds and payouts, workers and clerks.  Each invariant    *)
(* stands on the one before it:                                            *)
(*                                                                         *)
(*   TypeInv      what a row or a task names exists, and amounts are       *)
(*   AloneInv     a return nobody completed twice at once has one refund   *)
(*   BooksInv     payouts share no slice, and no clawback                  *)
(*   RecoveryInv  each slice's payout netted a set of processed refunds,   *)
(*                and the others were clawed back one by one, while the    *)
(*                payout and a return have not raced                       *)
(*                                                                         *)
(* Sums over refunds and clawbacks come from SumTheorems.                  *)
(***************************************************************************)
EXTENDS Payouts, SumTheorems

-----------------------------------------------------------------------------
Passed  == {"QC_PASSED", "REFUNDED"}
Closing == {"pay", "finalize", "close"}
Counted == {"PROCESSING", "PROCESSED"}

Refundable(q) == ret[q].kind = "REFUND" /\ retSt[q] \in Passed

TaskLinked(w) ==
  /\ wtask[w].do # "idle" => Refundable(wtask[w].ret)
  /\ wtask[w].do \in Closing =>
       refSt[wtask[w].refund] # "none" /\ refOf[wtask[w].refund].ret = wtask[w].ret

RowsLinked ==
  /\ \A r \in Refunds : refSt[r] # "none" =>
       refOf[r].ret \in Returns /\ Refundable(refOf[r].ret)
  /\ \A q \in Returns : link[q] # 0 => refSt[link[q]] # "none" /\ refOf[link[q]].ret = q
  /\ \A w \in Workers : TaskLinked(w)

NatAmounts ==
  /\ \A r \in Refunds : refOf[r].amount \in Nat
  /\ \A q \in Returns : clawback[q].amount \in Nat

WithinCapture == pay = "CAPTURED" => RefundsIn({"PROCESSED"}) = {} /\ Left >= 0

ReturnsInv == ReturnsTypeOK /\ RowsLinked /\ NatAmounts /\ WithinCapture

-----------------------------------------------------------------------------
\* Returns and refunds are finitely many, and 0 stands for none of them.
LEMMA Bounds ==
  /\ IsFiniteSet(Returns) /\ Returns \subseteq Nat /\ 0 \notin Returns
  /\ IsFiniteSet(Refunds) /\ Refunds \subseteq Nat /\ 0 \notin Refunds
  /\ \A S \in SUBSET Returns : IsFiniteSet(S)
  /\ \A S \in SUBSET Refunds : IsFiniteSet(S)
  /\ \A S \in SUBSET Slices : IsFiniteSet(S)
  /\ \A q \in 0 .. MaxReturns : q = 0 \/ q \in Returns
  /\ \A r \in 0 .. MaxRefunds : r = 0 \/ r \in Refunds
<1>1. MaxReturns \in Nat /\ MaxRefunds \in Nat /\ IsFiniteSet(Slices)
  BY ReturnsConstantsOK
<1>2. IsFiniteSet(1 .. MaxReturns) /\ IsFiniteSet(1 .. MaxRefunds)
  BY <1>1, FS_Interval
<1>3. IsFiniteSet(Returns) /\ IsFiniteSet(Refunds)
  BY <1>2 DEF Returns, Refunds
<1>4. /\ \A S \in SUBSET Returns : IsFiniteSet(S)
      /\ \A S \in SUBSET Refunds : IsFiniteSet(S)
      /\ \A S \in SUBSET Slices : IsFiniteSet(S)
  BY <1>1, <1>3, FS_Subset
<1> QED BY <1>1, <1>3, <1>4 DEF Returns, Refunds

\* What was captured is an amount.
LEMMA CapturedNat == Captured \in Nat
<1>1. IsFiniteSet(Slices) /\ \A s \in Slices : Bought[s] \in Nat
  BY ReturnsConstantsOK
<1> QED BY <1>1, SumNat DEF Captured

\* So is what refunds come to.
LEMMA SumOverNat ==
  ASSUME NatAmounts
  PROVE  \A S \in SUBSET Refunds : SumOver(S) \in Nat
<1> SUFFICES ASSUME NEW S \in SUBSET Refunds PROVE SumOver(S) \in Nat
  OBVIOUS
<1>1. IsFiniteSet(S) /\ \A r \in S : Amounts[r] \in Nat
  BY Bounds DEF NatAmounts, Amounts
<1> QED BY <1>1, SumNat DEF SumOver

\* What a completion's task of each kind holds.
LEMMA TaskFacts ==
  ASSUME NEW t \in ReturnTask
  PROVE  /\ t.do \in {"idle", "refund", "create", "pay", "finalize", "close"}
         /\ t.do = "idle" => t = Waiting
         /\ t.do = "idle" <=> t.ret = 0
         /\ t.do # "idle" => t.ret \in Returns /\ t.seen \in BOOLEAN
         /\ t.do = "create" => t.amount \in Nat
         /\ t.do \in Closing => t.refund \in Refunds
BY Bounds DEF ReturnTask, Waiting, Closing

\* The tasks the steps build.
LEMMA TaskKinds ==
  /\ Waiting \in ReturnTask
  /\ \A q \in Returns, b \in BOOLEAN :
       /\ [do |-> "refund", ret |-> q, seen |-> b] \in ReturnTask
       /\ \A n \in Nat : [do |-> "create", ret |-> q, seen |-> b, amount |-> n] \in ReturnTask
       /\ \A r \in Refunds, do \in Closing :
            [do |-> do, ret |-> q, seen |-> b, refund |-> r] \in ReturnTask
BY DEF ReturnTask, Waiting, Closing

\* A task that goes on to its next step keeps its return and its refund.
LEMMA TaskTurned ==
  ASSUME NEW t \in ReturnTask, t.do \in Closing, NEW d \in Closing
  PROVE  /\ [t EXCEPT !.do = d] \in ReturnTask
         /\ [t EXCEPT !.do = d].do = d /\ [t EXCEPT !.do = d].ret = t.ret
         /\ [t EXCEPT !.do = d].refund = t.refund /\ [t EXCEPT !.do = d].seen = t.seen
BY DEF ReturnTask, Waiting, Closing

\* A step that sets one worker's task leaves the others'.
LEMMA TaskSet ==
  ASSUME wtask \in [Workers -> ReturnTask], NEW w \in Workers, NEW t \in ReturnTask, Go(w, t)
  PROVE  /\ wtask' \in [Workers -> ReturnTask] /\ wtask'[w] = t
         /\ \A v \in Workers \ {w} : wtask'[v] = wtask[v]
BY DEF Go

\* Rows stay linked when what exists stays and what is new is linked.
LEMMA RowsFrom ==
  ASSUME ReturnsTypeOK, RowsLinked,
         \A q \in Returns : Refundable(q) => Refundable(q)',
         \A r \in Refunds : refSt[r] # "none" => refSt'[r] # "none" /\ refOf'[r] = refOf[r],
         \A r \in Refunds : refSt[r] = "none" /\ refSt'[r] # "none" =>
           refOf'[r].ret \in Returns /\ Refundable(refOf'[r].ret),
         \A q \in Returns : link'[q] # link[q] =>
           link'[q] \in Refunds /\ refSt'[link'[q]] # "none" /\ refOf'[link'[q]].ret = q,
         \A w \in Workers : wtask'[w] # wtask[w] => TaskLinked(w)'
  PROVE  RowsLinked'
<1>0. /\ refOf' = refOf' /\ wtask \in [Workers -> ReturnTask]
      /\ refOf \in [Refunds -> [ret : 0 .. MaxReturns, amount : Int]]
      /\ link \in [Returns -> 0 .. MaxRefunds]
  BY DEF ReturnsTypeOK
<1>1. ASSUME NEW r \in Refunds, refSt'[r] # "none"
      PROVE  refOf'[r].ret \in Returns /\ Refundable(refOf[r].ret)'
  <2>1. CASE refSt[r] = "none"
    BY <1>1, <2>1 DEF Refundable
  <2>2. CASE refSt[r] # "none"
    BY <1>1, <2>2 DEF RowsLinked, Refundable
  <2> QED BY <2>1, <2>2
<1>2. ASSUME NEW q \in Returns, link'[q] # 0
      PROVE  refSt'[link'[q]] # "none" /\ refOf'[link'[q]].ret = q
  <2>1. CASE link'[q] = link[q]
    <3>1. link[q] \in Refunds
      BY <1>0, <1>2, <2>1, Bounds
    <3> QED BY <1>2, <2>1, <3>1 DEF RowsLinked
  <2> QED BY <2>1
<1>3. ASSUME NEW w \in Workers PROVE TaskLinked(w)'
  <2>1. CASE wtask'[w] = wtask[w]
    <3>1. wtask[w].do # "idle" => wtask[w].ret \in Returns
      BY <1>0, TaskFacts
    <3>2. wtask[w].do \in Closing => wtask[w].refund \in Refunds
      BY <1>0, TaskFacts
    <3>3. TaskLinked(w)
      BY DEF RowsLinked
    <3> QED BY <2>1, <3>1, <3>2, <3>3 DEF TaskLinked, Refundable
  <2> QED BY <2>1
<1> QED BY <1>1, <1>2, <1>3 DEF RowsLinked

\* While the payment stays CAPTURED, fewer refunds leave more of it.
LEMMA LeftFrom ==
  ASSUME NatAmounts, NatAmounts', WithinCapture, pay' = pay,
         RefundsIn(Counted)' \subseteq RefundsIn(Counted),
         RefundsIn({"PROCESSED"})' \subseteq RefundsIn({"PROCESSED"}),
         \A r \in RefundsIn(Counted)' : refOf'[r].amount = refOf[r].amount
  PROVE  WithinCapture'
<1> SUFFICES ASSUME pay = "CAPTURED" PROVE RefundsIn({"PROCESSED"})' = {} /\ Left' >= 0
  BY DEF WithinCapture
<1>1. RefundsIn({"PROCESSED"})' = {} /\ Left >= 0
  BY DEF WithinCapture
<1>2. PICK U, V, A, B : /\ U = RefundsIn(Counted) /\ V = RefundsIn(Counted)'
                        /\ A = Amounts /\ B = Amounts'
  OBVIOUS
<1>3. /\ U \in SUBSET Refunds /\ V \in SUBSET U
      /\ \A r \in U : A[r] \in Nat
      /\ \A r \in V : B[r] = A[r]
  BY <1>2 DEF RefundsIn, Amounts, NatAmounts
<1>4. IsFiniteSet(U) /\ IsFiniteSet(V)
  BY <1>3, Bounds
<1>5. SumFunctionOnSet(B, V) = SumFunctionOnSet(A, V)
  BY <1>3, <1>4, SumSame
<1>6. SumFunctionOnSet(A, V) =< SumFunctionOnSet(A, U)
  BY <1>3, <1>4, SumSubset
<1>7. SumFunctionOnSet(A, V) \in Nat /\ SumFunctionOnSet(A, U) \in Nat
  BY <1>3, <1>4, SumNat
<1>8. Left = Captured - SumFunctionOnSet(A, U)
  BY <1>2 DEF Left, SumOver, Counted
<1>9. Left' = Captured - SumFunctionOnSet(B, V)
  BY <1>2 DEF Left, SumOver, Counted, Captured
<1> QED BY <1>1, <1>5, <1>6, <1>7, <1>8, <1>9, CapturedNat

-----------------------------------------------------------------------------
\* A step that changes no refund leaves as much of the payment.
LEMMA StillWithin ==
  ASSUME WithinCapture, UNCHANGED <<pay, refSt, refOf>>
  PROVE  WithinCapture'
BY DEF WithinCapture, RefundsIn, Left, SumOver, Amounts, Captured

\* A request for a return keeps the returns' invariant.
LEMMA RequestKept ==
  ASSUME ReturnsInv, NEW q \in Returns, NEW s \in Slices, NEW kind \in {"REFUND", "REPLACEMENT"},
         NEW units \in Nat, RequestReturn(q, s, units, kind)
  PROVE  ReturnsInv'
<1> USE DEF ReturnsInv
<1>0. /\ UNCHANGED <<cod, pay, sliceSt, link, refSt, refOf, settled, clawback, doubled, loose,
                     wtask, crashes>>
      /\ retSt[q] = "none"
      /\ retSt' = [retSt EXCEPT ![q] = "REQUESTED"]
      /\ ret' = [ret EXCEPT ![q] = [slice |-> s, units |-> units, kind |-> kind]]
  BY DEF RequestReturn, refundState
<1>1. ReturnsTypeOK'
  BY <1>0 DEF ReturnsTypeOK, ReturnStatus
<1>2. RowsLinked'
  <2>1. \A p \in Returns : Refundable(p) => Refundable(p)'
    BY <1>0 DEF Refundable, ReturnsTypeOK, Passed
  <2> QED BY <1>0, <2>1, RowsFrom
<1>3. NatAmounts' /\ WithinCapture'
  BY <1>0, StillWithin DEF NatAmounts
<1> QED BY <1>1, <1>2, <1>3

\* So does every move up to the inspection, or of a replacement.
LEMMA MoveKept ==
  ASSUME ReturnsInv, NEW q \in Returns, NEW from, NEW to \in ReturnStatus,
         Move(q, from, to), UNCHANGED wtask,
         from \cap Passed = {} \/ ret[q].kind = "REPLACEMENT"
  PROVE  ReturnsInv'
<1> USE DEF ReturnsInv
<1>0. /\ UNCHANGED <<cod, pay, sliceSt, link, refSt, refOf, settled, ret, clawback, doubled,
                     loose, wtask, crashes>>
      /\ retSt[q] \in from /\ retSt' = [retSt EXCEPT ![q] = to]
  BY DEF Move, refundState
<1>1. ReturnsTypeOK'
  BY <1>0 DEF ReturnsTypeOK
<1>2. RowsLinked'
  <2>1. \A p \in Returns : Refundable(p) => Refundable(p)'
    BY <1>0 DEF Refundable, ReturnsTypeOK, Passed
  <2> QED BY <1>0, <2>1, RowsFrom
<1>3. NatAmounts' /\ WithinCapture'
  BY <1>0, StillWithin DEF NatAmounts
<1> QED BY <1>1, <1>2, <1>3

\* A worker's step that touches no row.
LEMMA TurnKept ==
  ASSUME ReturnsInv, NEW w \in Workers, NEW t \in ReturnTask, Go(w, t),
         UNCHANGED <<refundState, settled, retSt, ret, clawback>>,
         doubled' \in SUBSET Returns, loose' \in SUBSET Slices, crashes' \in Nat,
         t.do # "idle" => Refundable(t.ret),
         t.do \in Closing => refSt[t.refund] # "none" /\ refOf[t.refund].ret = t.ret
  PROVE  ReturnsInv'
<1> USE DEF ReturnsInv
<1>0. /\ UNCHANGED <<cod, pay, sliceSt, link, refSt, refOf, settled, retSt, ret, clawback>>
      /\ wtask' \in [Workers -> ReturnTask] /\ wtask'[w] = t
      /\ \A v \in Workers \ {w} : wtask'[v] = wtask[v]
  BY TaskSet DEF refundState, ReturnsTypeOK
<1>1. ReturnsTypeOK'
  BY <1>0 DEF ReturnsTypeOK
<1>2. RowsLinked'
  <2>1. TaskLinked(w)'
    BY <1>0 DEF TaskLinked, Refundable
  <2>2. \A p \in Returns : Refundable(p) => Refundable(p)'
    BY <1>0 DEF Refundable
  <2> QED BY <1>0, <2>1, <2>2, RowsFrom
<1>3. NatAmounts' /\ WithinCapture'
  BY <1>0, StillWithin DEF NatAmounts
<1> QED BY <1>1, <1>2, <1>3

\* A completion that begins keeps it.
LEMMA CompleteKept ==
  ASSUME ReturnsInv, NEW w \in Workers, NEW q \in Returns, CompleteReturn(w, q)
  PROVE  ReturnsInv'
<1> DEFINE t == [do |-> "refund", ret |-> q, seen |-> Settled(q)]
<1>1. t \in ReturnTask
  <2>1. Settled(q) \in BOOLEAN
    BY DEF Settled
  <2> QED BY <2>1, TaskKinds
<1>2. /\ Go(w, t) /\ UNCHANGED <<refundState, settled, retSt, ret, clawback, crashes>>
      /\ retSt[q] = "QC_PASSED" /\ ret[q].kind = "REFUND"
  BY DEF CompleteReturn, Take, Go
<1>3. doubled' \in SUBSET Returns /\ loose' \in SUBSET Slices
  BY DEF CompleteReturn, ReturnsInv, ReturnsTypeOK
<1>4. t.do # "idle" /\ t.do \notin Closing /\ Refundable(t.ret)
  BY <1>2 DEF Closing, Refundable, Passed
<1>5. crashes' \in Nat
  BY <1>2 DEF ReturnsInv, ReturnsTypeOK
<1> HIDE DEF t
<1> QED BY <1>1, <1>2, <1>3, <1>4, <1>5, TurnKept

\* What a task at work knows.
LEMMA WorkFacts ==
  ASSUME ReturnsInv, NEW w \in Workers
  PROVE  /\ wtask[w] \in ReturnTask
         /\ wtask[w].do # "idle" =>
              wtask[w].ret \in Returns /\ wtask[w].seen \in BOOLEAN /\ Refundable(wtask[w].ret)
         /\ wtask[w].do = "create" => wtask[w].amount \in Nat
         /\ wtask[w].do \in Closing =>
              /\ wtask[w].refund \in Refunds /\ refSt[wtask[w].refund] # "none"
              /\ refOf[wtask[w].refund].ret = wtask[w].ret
<1>1. wtask[w] \in ReturnTask
  BY DEF ReturnsInv, ReturnsTypeOK
<1> QED BY <1>1, TaskFacts DEF ReturnsInv, RowsLinked, TaskLinked

\* What the next task of a completion may be, after it looked for its refund.
LEMMA Found ==
  ASSUME ReturnsInv, NEW w \in Workers, FindLinkedRefund(w)
  PROVE  LET t == wtask[w]
             q == t.ret
         IN  \/ Go(w, Waiting)
             \/ /\ pay = "CAPTURED" /\ link[q] \in Refunds
                /\ \E do \in {"close", "pay"} :
                     /\ Go(w, [do |-> do, ret |-> q, seen |-> t.seen, refund |-> link[q]])
                     /\ do = IF cod THEN "close" ELSE "pay"
             \/ /\ pay = "CAPTURED" /\ link[q] = 0
                /\ \E n \in Nat :
                     Go(w, [do |-> "create", ret |-> q, seen |-> t.seen, amount |-> n])
<1> DEFINE t == wtask[w]
           q == wtask[w].ret
<1>0. /\ t.do = "refund" /\ q \in Returns /\ link[q] \in 0 .. MaxRefunds
  BY WorkFacts DEF FindLinkedRefund, ReturnsInv, ReturnsTypeOK
<1>1. CASE pay = "CAPTURED" /\ link[q] # 0
  <2>1. Go(w, [do |-> IF cod THEN "close" ELSE "pay", ret |-> q, seen |-> t.seen,
               refund |-> link[q]])
    BY <1>1 DEF FindLinkedRefund
  <2>2. link[q] \in Refunds
    BY <1>0, <1>1, Bounds
  <2> QED BY <1>1, <2>1, <2>2
<1>2. CASE pay = "CAPTURED" /\ link[q] = 0 /\ Left # 0
  <2>1. Go(w, [do |-> "create", ret |-> q, seen |-> t.seen, amount |-> Least(ret[q].units, Left)])
    BY <1>2 DEF FindLinkedRefund
  <2>2. Least(ret[q].units, Left) \in Nat
    <3>1. ret[q].units \in Nat
      BY <1>0 DEF ReturnsInv, ReturnsTypeOK
    <3>2. SumOver(RefundsIn(Counted)) \in Nat
      BY SumOverNat DEF ReturnsInv, RefundsIn
    <3>3. Left \in Int /\ Left >= 0
      BY <1>2, <3>2, CapturedNat DEF Left, ReturnsInv, WithinCapture, Counted
    <3> QED BY <3>1, <3>3 DEF Least
  <2> QED BY <1>2, <2>1, <2>2
<1>3. CASE ~ (pay = "CAPTURED" /\ link[q] # 0) /\ ~ (pay = "CAPTURED" /\ Left # 0)
  BY <1>3 DEF FindLinkedRefund
<1> QED BY <1>1, <1>2, <1>3

\* So does one that looks for its refund,
LEMMA FindKept ==
  ASSUME ReturnsInv, NEW w \in Workers, FindLinkedRefund(w)
  PROVE  ReturnsInv'
<1> DEFINE t == wtask[w]
           q == wtask[w].ret
<1>0. /\ t.do = "refund" /\ q \in Returns /\ t.seen \in BOOLEAN /\ Refundable(q)
      /\ UNCHANGED <<refundState, settled, retSt, ret, clawback, doubled, loose, crashes>>
      /\ doubled' \in SUBSET Returns /\ loose' \in SUBSET Slices /\ crashes' \in Nat
  BY WorkFacts DEF FindLinkedRefund, ReturnsInv, ReturnsTypeOK
<1>1. CASE Go(w, Waiting)
  <2>1. Waiting \in ReturnTask /\ Waiting.do = "idle" /\ Waiting.do \notin Closing
    BY TaskKinds DEF Waiting, Closing
  <2> QED BY <1>0, <1>1, <2>1, TurnKept
<1>2. ASSUME link[q] \in Refunds, NEW do \in {"close", "pay"},
             Go(w, [do |-> do, ret |-> q, seen |-> t.seen, refund |-> link[q]])
      PROVE  ReturnsInv'
  <2>1. PICK u : u = [do |-> do, ret |-> q, seen |-> t.seen, refund |-> link[q]]
    OBVIOUS
  <2>2. u \in ReturnTask
    BY <1>0, <1>2, <2>1, TaskKinds DEF Closing
  <2>3. refSt[link[q]] # "none" /\ refOf[link[q]].ret = q
    BY <1>0, <1>2, Bounds DEF ReturnsInv, RowsLinked
  <2>4. Refundable(u.ret) /\ refSt[u.refund] # "none" /\ refOf[u.refund].ret = u.ret
    BY <1>0, <2>1, <2>3
  <2> QED BY <1>0, <1>2, <2>1, <2>2, <2>4, TurnKept
<1>3. ASSUME NEW n \in Nat, Go(w, [do |-> "create", ret |-> q, seen |-> t.seen, amount |-> n])
      PROVE  ReturnsInv'
  <2>1. PICK u : u = [do |-> "create", ret |-> q, seen |-> t.seen, amount |-> n]
    OBVIOUS
  <2>2. u \in ReturnTask
    BY <1>0, <2>1, TaskKinds
  <2>3. Refundable(u.ret) /\ u.do \notin Closing
    BY <1>0, <2>1 DEF Closing
  <2> QED BY <1>0, <1>3, <2>1, <2>2, <2>3, TurnKept
<1> QED BY <1>1, <1>2, <1>3, Found

\* The refund a completion reserves is a new row.
LEMMA Reserved ==
  ASSUME ReturnsInv, NEW w \in Workers, ReserveRefund(w)
  PROVE  LET t == wtask[w]
         IN  /\ t.do = "create" /\ t.ret \in Returns /\ t.seen \in BOOLEAN /\ t.amount \in Nat
             /\ Refundable(t.ret)
             /\ UNCHANGED <<cod, pay, sliceSt, settled, retSt, ret, clawback, doubled, loose,
                            crashes>>
             /\ \E r \in Refunds, do \in {"close", "pay"} :
                  /\ refSt[r] = "none"
                  /\ refSt' = [refSt EXCEPT ![r] = "REQUESTED"]
                  /\ refOf' = [refOf EXCEPT ![r] = [ret |-> t.ret, amount |-> t.amount]]
                  /\ link' = [link EXCEPT ![t.ret] = r]
                  /\ Go(w, [do |-> do, ret |-> t.ret, seen |-> t.seen, refund |-> r])
                  /\ do = IF cod THEN "close" ELSE "pay"
BY WorkFacts DEF ReserveRefund

\* reserves it,
LEMMA ReserveKept ==
  ASSUME ReturnsInv, NEW w \in Workers, ReserveRefund(w)
  PROVE  ReturnsInv'
<1> USE DEF ReturnsInv
<1> DEFINE t == wtask[w]
<1>0. /\ t.ret \in Returns /\ t.seen \in BOOLEAN /\ t.amount \in Nat /\ Refundable(t.ret)
      /\ UNCHANGED <<cod, pay, sliceSt, settled, retSt, ret, clawback, doubled, loose, crashes>>
  BY Reserved
<1>1. PICK r \in Refunds, do \in {"close", "pay"} :
        /\ refSt[r] = "none"
        /\ refSt' = [refSt EXCEPT ![r] = "REQUESTED"]
        /\ refOf' = [refOf EXCEPT ![r] = [ret |-> t.ret, amount |-> t.amount]]
        /\ link' = [link EXCEPT ![t.ret] = r]
        /\ Go(w, [do |-> do, ret |-> t.ret, seen |-> t.seen, refund |-> r])
  BY Reserved
<1>2. PICK u : u = [do |-> do, ret |-> t.ret, seen |-> t.seen, refund |-> r]
  OBVIOUS
<1>3. u \in ReturnTask
  BY <1>0, <1>2, TaskKinds DEF Closing
<1>4. /\ wtask' \in [Workers -> ReturnTask] /\ wtask'[w] = u
      /\ \A v \in Workers \ {w} : wtask'[v] = wtask[v]
  BY <1>1, <1>2, <1>3, TaskSet DEF ReturnsTypeOK
<1>5. /\ refSt \in [Refunds -> {"none", "REQUESTED", "PROCESSING", "PROCESSED", "FAILED"}]
      /\ refOf \in [Refunds -> [ret : 0 .. MaxReturns, amount : Int]]
      /\ link \in [Returns -> 0 .. MaxRefunds]
      /\ t.ret \in 0 .. MaxReturns /\ r \in 0 .. MaxRefunds
  BY <1>0, Bounds DEF ReturnsTypeOK, Returns, Refunds
<1>6. /\ refSt' \in [Refunds -> {"none", "REQUESTED", "PROCESSING", "PROCESSED", "FAILED"}]
      /\ refOf' \in [Refunds -> [ret : 0 .. MaxReturns, amount : Int]]
      /\ link' \in [Returns -> 0 .. MaxRefunds]
  BY <1>0, <1>1, <1>5
<1>7. ReturnsTypeOK'
  BY <1>0, <1>4, <1>6 DEF ReturnsTypeOK
<1>8. NatAmounts'
  BY <1>0, <1>1, <1>5 DEF NatAmounts
<1>9. RowsLinked'
  <2>1. \A q \in Returns : Refundable(q) => Refundable(q)'
    BY <1>0 DEF Refundable
  <2>2. \A p \in Refunds : refSt[p] # "none" => refSt'[p] # "none" /\ refOf'[p] = refOf[p]
    BY <1>1, <1>5
  <2>3. refSt'[r] # "none" /\ refOf'[r].ret = t.ret
    BY <1>1, <1>5
  <2>4. \A p \in Refunds : refSt[p] = "none" /\ refSt'[p] # "none" =>
          refOf'[p].ret \in Returns /\ Refundable(refOf'[p].ret)
    BY <1>0, <1>1, <1>5, <2>3
  <2>5. \A q \in Returns : link'[q] # link[q] =>
           link'[q] \in Refunds /\ refSt'[link'[q]] # "none" /\ refOf'[link'[q]].ret = q
    BY <1>0, <1>1, <1>5, <2>3
  <2>6. TaskLinked(w)'
    BY <1>0, <1>2, <1>4, <2>3 DEF TaskLinked, Refundable
  <2> QED BY <1>4, <2>1, <2>2, <2>4, <2>5, <2>6, RowsFrom
<1>10. WithinCapture'
  <2>1. RefundsIn(Counted)' = RefundsIn(Counted)
    BY <1>1, <1>5 DEF RefundsIn, Counted
  <2>2. RefundsIn({"PROCESSED"})' = RefundsIn({"PROCESSED"})
    BY <1>1, <1>5 DEF RefundsIn
  <2>3. \A p \in RefundsIn(Counted) : refOf'[p].amount = refOf[p].amount
    BY <1>1, <1>5 DEF RefundsIn, Counted
  <2> QED BY <1>0, <1>8, <2>1, <2>2, <2>3, LeftFrom
<1> QED BY <1>7, <1>8, <1>9, <1>10

\* What approveRefund may come to.
LEMMA Paid ==
  ASSUME ReturnsInv, NEW w \in Workers, PayRefund(w)
  PROVE  LET t == wtask[w]
             r == t.refund
         IN  /\ t.do = "pay" /\ t.ret \in Returns /\ t.seen \in BOOLEAN /\ Refundable(t.ret)
             /\ r \in Refunds /\ refSt[r] # "none" /\ refOf[r].ret = t.ret
             /\ UNCHANGED <<cod, pay, sliceSt, link, refOf, settled, retSt, ret, clawback,
                            doubled, loose, crashes>>
             /\ \/ Go(w, Waiting)
                \/ \E do \in Closing \ {"pay"} : Go(w, [t EXCEPT !.do = do])
             /\ \/ /\ refSt' = refSt
                   /\ Go(w, Waiting) \/ (refSt[r] = "PROCESSED" /\ Go(w, [t EXCEPT !.do = "close"]))
                \/ /\ refSt[r] \in {"REQUESTED", "PROCESSING"}
                   /\ refSt' = [refSt EXCEPT ![r] = "FAILED"]
                   /\ Go(w, Waiting)
                \/ /\ refSt[r] \in {"REQUESTED", "PROCESSING"}
                   /\ refSt' = [refSt EXCEPT ![r] = "PROCESSING"]
                   /\ SumOver(RefundsIn({"PROCESSING", "PROCESSED"}) \ {r}) + refOf[r].amount
                        =< Captured
                   /\ \E do \in Closing \ {"pay"} : Go(w, [t EXCEPT !.do = do])
<1> DEFINE t == wtask[w]
           r == wtask[w].refund
           Becomes(status, do) ==
             /\ refSt' = [refSt EXCEPT ![r] = status]
             /\ Go(w, IF do = "idle" THEN Waiting ELSE [t EXCEPT !.do = do])
           exceeds ==
             SumOver(RefundsIn({"PROCESSING", "PROCESSED"}) \ {r}) + refOf[r].amount > Captured
<1>1. /\ t.do = "pay" /\ t.do \in Closing
      /\ UNCHANGED <<cod, pay, sliceSt, link, refOf, settled, retSt, ret, clawback, doubled,
                     loose, crashes>>
  BY DEF PayRefund, Closing
<1>2. /\ t.ret \in Returns /\ t.seen \in BOOLEAN /\ Refundable(t.ret)
      /\ r \in Refunds /\ refSt[r] # "none" /\ refOf[r].ret = t.ret
  BY <1>1, WorkFacts DEF Closing
<1>3. \/ refSt[r] = "PROCESSED" /\ Becomes("PROCESSED", "close")
      \/ Becomes(refSt[r], "idle")
      \/ /\ refSt[r] \in {"REQUESTED", "PROCESSING"} /\ ~ exceeds
         /\ Becomes("PROCESSING", "finalize") \/ Becomes("PROCESSING", "close")
      \/ refSt[r] \in {"REQUESTED", "PROCESSING"} /\ Becomes("FAILED", "idle")
  BY DEF PayRefund
<1>4. refSt = [refSt EXCEPT ![r] = refSt[r]]
  BY <1>2 DEF ReturnsInv, ReturnsTypeOK
<1>5. ~ exceeds =>
        SumOver(RefundsIn({"PROCESSING", "PROCESSED"}) \ {r}) + refOf[r].amount =< Captured
  <2>1. SumOver(RefundsIn(Counted) \ {r}) \in Nat
    BY SumOverNat DEF ReturnsInv, RefundsIn
  <2>2. refOf[r].amount \in Nat
    BY <1>2 DEF ReturnsInv, NatAmounts
  <2> QED BY <2>1, <2>2, CapturedNat DEF Counted
<1>6. CASE refSt[r] = "PROCESSED" /\ Becomes("PROCESSED", "close")
  <2>1. refSt' = refSt
    BY <1>4, <1>6
  <2>2. Go(w, [t EXCEPT !.do = "close"])
    BY <1>6
  <2> QED BY <1>1, <1>2, <1>6, <2>1, <2>2 DEF Closing
<1>7. CASE Becomes(refSt[r], "idle")
  <2>1. refSt' = refSt /\ Go(w, Waiting)
    BY <1>4, <1>7
  <2> QED BY <1>1, <1>2, <2>1
<1>8. CASE /\ refSt[r] \in {"REQUESTED", "PROCESSING"} /\ ~ exceeds
           /\ Becomes("PROCESSING", "finalize") \/ Becomes("PROCESSING", "close")
  <2>1. /\ refSt' = [refSt EXCEPT ![r] = "PROCESSING"]
        /\ Go(w, [t EXCEPT !.do = "finalize"]) \/ Go(w, [t EXCEPT !.do = "close"])
    BY <1>8
  <2>2. \E do \in Closing \ {"pay"} : Go(w, [t EXCEPT !.do = do])
    BY <2>1 DEF Closing
  <2> QED BY <1>1, <1>2, <1>5, <1>8, <2>1, <2>2
<1>9. CASE refSt[r] \in {"REQUESTED", "PROCESSING"} /\ Becomes("FAILED", "idle")
  <2>1. refSt' = [refSt EXCEPT ![r] = "FAILED"] /\ Go(w, Waiting)
    BY <1>9
  <2> QED BY <1>1, <1>2, <1>9, <2>1
<1> QED BY <1>3, <1>6, <1>7, <1>8, <1>9

\* has it paid,
LEMMA PayKept ==
  ASSUME ReturnsInv, NEW w \in Workers, PayRefund(w)
  PROVE  ReturnsInv'
<1> USE DEF ReturnsInv
<1> DEFINE t == wtask[w]
           r == wtask[w].refund
<1>0. /\ t.do \in Closing /\ t.ret \in Returns /\ t.seen \in BOOLEAN /\ Refundable(t.ret)
      /\ r \in Refunds /\ refSt[r] # "none" /\ refOf[r].ret = t.ret /\ t \in ReturnTask
      /\ UNCHANGED <<cod, pay, sliceSt, link, refOf, settled, retSt, ret, clawback, doubled,
                     loose, crashes>>
  BY Paid, WorkFacts DEF Closing
<1>1. PICK u \in ReturnTask :
        /\ Go(w, u)
        /\ u.do # "idle" => u.ret = t.ret
        /\ u.do \in Closing => u.refund = r
  <2>1. CASE Go(w, Waiting)
    BY <2>1, TaskKinds DEF Waiting, Closing
  <2>2. ASSUME NEW do \in Closing, Go(w, [t EXCEPT !.do = do])
        PROVE  \E u \in ReturnTask :
                 /\ Go(w, u) /\ (u.do # "idle" => u.ret = t.ret)
                 /\ u.do \in Closing => u.refund = r
    BY <1>0, <2>2, TaskTurned
  <2> QED BY <2>1, <2>2, Paid
<1>2. /\ wtask' \in [Workers -> ReturnTask] /\ wtask'[w] = u
      /\ \A v \in Workers \ {w} : wtask'[v] = wtask[v]
  BY <1>1, TaskSet DEF ReturnsTypeOK
<1>3. PICK st \in {"none", "REQUESTED", "PROCESSING", "PROCESSED", "FAILED"} :
        refSt' = [refSt EXCEPT ![r] = st] /\ st # "none"
  <2>1. refSt = [refSt EXCEPT ![r] = refSt[r]]
          /\ refSt[r] \in {"none", "REQUESTED", "PROCESSING", "PROCESSED", "FAILED"}
    BY <1>0 DEF ReturnsTypeOK
  <2> QED BY <1>0, <2>1, Paid
<1>4. refSt \in [Refunds -> {"none", "REQUESTED", "PROCESSING", "PROCESSED", "FAILED"}]
  BY DEF ReturnsTypeOK
<1>5. ReturnsTypeOK'
  BY <1>0, <1>2, <1>3 DEF ReturnsTypeOK
<1>6. NatAmounts'
  BY <1>0 DEF NatAmounts
<1>7. RowsLinked'
  <2>1. \A p \in Refunds : refSt[p] # "none" <=> refSt'[p] # "none"
    BY <1>0, <1>3, <1>4
  <2>2. \A q \in Returns : Refundable(q) => Refundable(q)'
    BY <1>0 DEF Refundable
  <2>3. TaskLinked(w)'
    <3>1. wtask'[w].do # "idle" => wtask'[w].ret = t.ret /\ Refundable(t.ret)'
      BY <1>0, <1>1, <1>2 DEF Refundable
    <3>2. wtask'[w].do \in Closing =>
            wtask'[w].refund = r /\ wtask'[w].ret = t.ret /\ refSt'[r] # "none"
      BY <1>0, <1>1, <1>2, <2>1 DEF Closing
    <3> QED BY <1>0, <3>1, <3>2 DEF TaskLinked, Refundable
  <2> QED BY <1>0, <1>2, <2>1, <2>2, <2>3, RowsFrom
<1>8. WithinCapture'
  <2>1. CASE refSt' = refSt
    BY <1>0, <2>1, StillWithin
  <2>2. CASE refSt' = [refSt EXCEPT ![r] = "FAILED"]
    <3>1. /\ RefundsIn(Counted)' \subseteq RefundsIn(Counted)
          /\ RefundsIn({"PROCESSED"})' \subseteq RefundsIn({"PROCESSED"})
      BY <2>2, <1>4, <1>0 DEF RefundsIn, Counted
    <3> QED BY <1>0, <1>6, <3>1, LeftFrom
  <2>3. CASE /\ refSt[r] \in {"REQUESTED", "PROCESSING"}
             /\ refSt' = [refSt EXCEPT ![r] = "PROCESSING"]
             /\ SumOver(RefundsIn({"PROCESSING", "PROCESSED"}) \ {r}) + refOf[r].amount =< Captured
    <3> SUFFICES ASSUME pay = "CAPTURED" PROVE RefundsIn({"PROCESSED"})' = {} /\ Left' >= 0
      BY <1>0 DEF WithinCapture
    <3>1. RefundsIn({"PROCESSED"})' = {}
      BY <1>0, <2>3, <1>4 DEF RefundsIn, WithinCapture
    <3>2. PICK U, A : U = RefundsIn(Counted) /\ A = Amounts
      OBVIOUS
    <3>3. PICK V : V = U \ {r}
      OBVIOUS
    <3>4. RefundsIn(Counted)' = V \cup {r}
      BY <1>0, <2>3, <1>4, <3>2, <3>3 DEF RefundsIn, Counted
    <3>5. Amounts' = A /\ \A p \in Refunds : A[p] \in Nat
      BY <1>0, <3>2 DEF Amounts, NatAmounts
    <3>6. V \in SUBSET Refunds /\ IsFiniteSet(V) /\ r \notin V
      BY <3>2, <3>3, Bounds DEF RefundsIn
    <3>7. SumFunctionOnSet(A, V \cup {r}) = A[r] + SumFunctionOnSet(A, V)
      <4>1. PICK a \in Refunds : a = r
        BY <1>0
      <4>2. a \notin V /\ \A x \in V \cup {a} : A[x] \in Int
        BY <3>5, <3>6, <4>1
      <4>3. SumFunctionOnSet(A, V \cup {a}) = A[a] + SumFunctionOnSet(A, V)
        BY <3>6, <4>2, SumAdd
      <4> QED BY <4>1, <4>3
    <3>8. SumFunctionOnSet(A, V) + A[r] =< Captured
      BY <1>0, <2>3, <3>2, <3>3 DEF SumOver, Amounts, Counted
    <3>9. SumFunctionOnSet(A, V) \in Nat /\ A[r] \in Nat
      BY <1>0, <3>5, <3>6, SumNat
    <3>10. Left' = Captured - SumFunctionOnSet(A, V \cup {r})
      BY <3>4, <3>5 DEF Left, SumOver, Captured, Counted
    <3> QED BY <3>1, <3>7, <3>8, <3>9, <3>10, CapturedNat
  <2> QED BY <2>1, <2>2, <2>3, Paid
<1> QED BY <1>5, <1>6, <1>7, <1>8

\* What finalizing a refund that is there does to the rows.
LEMMA Finalized ==
  ASSUME ReturnsInv, NEW r \in Refunds, refSt[r] # "none", Finalize(r)
  PROVE  /\ refSt' = [refSt EXCEPT ![r] = "PROCESSED"]
         /\ pay' \in {"PARTIALLY_REFUNDED", "REFUNDED"}
         /\ sliceSt' \in [Slices -> {"DELIVERED", "REFUNDED"}]
         /\ UNCHANGED <<cod, link, refOf>>
<1>1. refOf[r].ret \in Returns
  BY DEF ReturnsInv, RowsLinked
<1>2. ret[refOf[r].ret].slice \in Slices /\ sliceSt \in [Slices -> {"DELIVERED", "REFUNDED"}]
  BY <1>1 DEF ReturnsInv, ReturnsTypeOK
<1> QED BY <1>2 DEF Finalize

\* Rows and histories stay as they are where a refund is finalized.
LEMMA FinalizeKept ==
  ASSUME ReturnsInv, NEW r \in Refunds, refSt[r] # "none", Finalize(r),
         UNCHANGED <<settled, retSt, ret, clawback, doubled, loose, crashes>>,
         wtask' \in [Workers -> ReturnTask], \A w \in Workers : TaskLinked(w)'
  PROVE  ReturnsInv'
<1> USE DEF ReturnsInv
<1>0. refSt \in [Refunds -> {"none", "REQUESTED", "PROCESSING", "PROCESSED", "FAILED"}]
  BY DEF ReturnsTypeOK
<1>1. ReturnsTypeOK'
  BY <1>0, Finalized DEF ReturnsTypeOK
<1>2. NatAmounts'
  BY Finalized DEF NatAmounts
<1>3. WithinCapture'
  BY Finalized DEF WithinCapture
<1>4. RowsLinked'
  <2>1. \A q \in Returns : Refundable(q) => Refundable(q)'
    BY DEF Refundable
  <2>2. \A p \in Refunds : refSt[p] # "none" <=> refSt'[p] # "none"
    BY <1>0, Finalized
  <2> QED BY <2>1, <2>2, Finalized, RowsFrom
<1> QED BY <1>1, <1>2, <1>3, <1>4

\* finalizes it,
LEMMA FinalizeReturnKept ==
  ASSUME ReturnsInv, NEW w \in Workers, FinalizeReturnRefund(w)
  PROVE  ReturnsInv'
<1> DEFINE t == wtask[w]
           u == [t EXCEPT !.do = "close"]
<1>0. /\ t.do \in Closing /\ t.ret \in Returns /\ t.seen \in BOOLEAN /\ Refundable(t.ret)
      /\ t.refund \in Refunds /\ refSt[t.refund] # "none" /\ refOf[t.refund].ret = t.ret
      /\ t \in ReturnTask
      /\ UNCHANGED <<settled, retSt, ret, clawback, doubled, loose, crashes>>
      /\ Go(w, u)
  BY WorkFacts DEF Closing, FinalizeReturnRefund
<1>1. /\ u \in ReturnTask /\ u.ret = t.ret /\ u.refund = t.refund /\ u.do = "close"
      /\ u.do \in Closing
  BY <1>0, TaskTurned DEF Closing
<1>2. CASE UNCHANGED refundState
  <2>1. PICK v : v = u
    OBVIOUS
  <2>2. doubled' \in SUBSET Returns /\ loose' \in SUBSET Slices /\ crashes' \in Nat
    BY <1>0 DEF ReturnsInv, ReturnsTypeOK
  <2>3. UNCHANGED <<refundState, settled, retSt, ret, clawback>>
    BY <1>0, <1>2
  <2> HIDE DEF u
  <2> QED BY <1>0, <1>1, <2>1, <2>2, <2>3, TurnKept
<1>3. CASE Finalize(t.refund)
  <2>1. /\ wtask' \in [Workers -> ReturnTask] /\ wtask'[w] = u
        /\ \A v \in Workers \ {w} : wtask'[v] = wtask[v]
    <3> HIDE DEF u
    <3> QED BY <1>0, <1>1, TaskSet DEF ReturnsInv, ReturnsTypeOK
  <2>2. ASSUME NEW p \in Refunds, refSt[p] # "none" PROVE refSt'[p] # "none" /\ refOf'[p] = refOf[p]
    BY <1>0, <1>3, <2>2, Finalized DEF ReturnsInv, ReturnsTypeOK
  <2>3. TaskLinked(w)'
    BY <1>0, <1>1, <2>1, <2>2 DEF TaskLinked, Refundable
  <2>4. ASSUME NEW v \in Workers \ {w} PROVE TaskLinked(v)'
    BY <1>0, <2>1, <2>2, WorkFacts DEF TaskLinked, Refundable
  <2> QED BY <1>0, <1>3, <2>1, <2>3, <2>4, FinalizeKept
<1> QED BY <1>2, <1>3 DEF FinalizeReturnRefund

\* a refund confirmed later,
LEMMA ConfirmKept ==
  ASSUME ReturnsInv, NEW r \in Refunds, RefundConfirmed(r)
  PROVE  ReturnsInv'
<1> USE DEF ReturnsInv
<1>0. /\ UNCHANGED <<settled, retSt, ret, clawback, doubled, loose, wtask, crashes>>
      /\ refSt[r] \in {"REQUESTED", "PROCESSING"} /\ refSt[r] # "none"
      /\ refSt \in [Refunds -> {"none", "REQUESTED", "PROCESSING", "PROCESSED", "FAILED"}]
      /\ wtask \in [Workers -> ReturnTask]
  BY DEF RefundConfirmed, ReturnsTypeOK
<1>1. CASE Finalize(r)
  <2>1. \A p \in Refunds : refSt[p] # "none" => refSt'[p] # "none" /\ refOf'[p] = refOf[p]
    BY <1>0, <1>1, Finalized
  <2>2. \A w \in Workers : TaskLinked(w)'
    BY <1>0, <2>1, WorkFacts DEF TaskLinked, Refundable
  <2> QED BY <1>0, <1>1, <2>2, FinalizeKept
<1>2. CASE /\ refSt' = [refSt EXCEPT ![r] = "FAILED"]
           /\ UNCHANGED <<cod, pay, sliceSt, link, refOf>>
  <2>1. ReturnsTypeOK' /\ NatAmounts'
    BY <1>0, <1>2 DEF ReturnsTypeOK, NatAmounts
  <2>2. RowsLinked'
    <3>1. \A q \in Returns : Refundable(q) => Refundable(q)'
      BY <1>0 DEF Refundable
    <3>2. \A p \in Refunds : refSt[p] # "none" <=> refSt'[p] # "none"
      BY <1>0, <1>2
    <3> QED BY <1>0, <1>2, <3>1, <3>2, RowsFrom
  <2>3. WithinCapture'
    <3>1. /\ RefundsIn(Counted)' \subseteq RefundsIn(Counted)
          /\ RefundsIn({"PROCESSED"})' \subseteq RefundsIn({"PROCESSED"})
      BY <1>0, <1>2 DEF RefundsIn, Counted
    <3> QED BY <1>2, <2>1, <3>1, LeftFrom
  <2> QED BY <2>1, <2>2, <2>3
<1> QED BY <1>0, <1>1, <1>2 DEF RefundConfirmed

\* What closing a return may change.
LEMMA ReturnClosed ==
  ASSUME ReturnsInv, NEW w \in Workers, CloseReturn(w)
  PROVE  LET t == wtask[w]
             q == t.ret
         IN  /\ t.do = "close" /\ q \in Returns /\ t.seen \in BOOLEAN /\ Refundable(q)
             /\ t.refund \in Refunds /\ refSt[t.refund] # "none" /\ refOf[t.refund].ret = q
             /\ retSt' = [retSt EXCEPT ![q] = "REFUNDED"]
             /\ link' = IF retSt[q] = "QC_PASSED" THEN [link EXCEPT ![q] = t.refund] ELSE link
             /\ clawback' = IF retSt[q] = "QC_PASSED" /\ t.seen /\ clawback[q] = NoClawback
                            THEN [clawback EXCEPT ![q] = [status |-> "PENDING",
                                                          amount |-> refOf[t.refund].amount]]
                            ELSE clawback
             /\ loose' = IF t.seen # Settled(q) \/ refSt[t.refund] # "PROCESSED"
                         THEN loose \cup {ret[q].slice} ELSE loose
             /\ Go(w, Waiting)
             /\ UNCHANGED <<cod, pay, sliceSt, refSt, refOf, settled, ret, doubled, crashes>>
<1> DEFINE t == wtask[w]
           q == wtask[w].ret
<1>1. /\ t.do = "close" /\ q \in Returns /\ t.seen \in BOOLEAN /\ Refundable(q)
      /\ t.refund \in Refunds /\ refSt[t.refund] # "none" /\ refOf[t.refund].ret = q
  BY WorkFacts DEF CloseReturn, Closing
<1>2. retSt' = [retSt EXCEPT ![q] = "REFUNDED"]
  <2>1. retSt[q] # "QC_PASSED" => retSt[q] = "REFUNDED"
    BY <1>1 DEF Refundable, Passed
  <2> QED BY <1>1, <2>1 DEF CloseReturn, ReturnsInv, ReturnsTypeOK
<1> QED BY <1>1, <1>2 DEF CloseReturn, ClawbackDue

\* a completion that closes its return,
LEMMA CloseKept ==
  ASSUME ReturnsInv, NEW w \in Workers, CloseReturn(w)
  PROVE  ReturnsInv'
<1> USE DEF ReturnsInv
<1> DEFINE t == wtask[w]
           q == wtask[w].ret
<1>0. /\ q \in Returns /\ Refundable(q)
      /\ t.refund \in Refunds /\ refSt[t.refund] # "none" /\ refOf[t.refund].ret = q
      /\ Go(w, Waiting)
      /\ UNCHANGED <<cod, pay, sliceSt, refSt, refOf, settled, ret, doubled, crashes>>
      /\ retSt' = [retSt EXCEPT ![q] = "REFUNDED"]
      /\ link' = [link EXCEPT ![q] = t.refund] \/ link' = link
      /\ \/ clawback' = [clawback EXCEPT ![q] = [status |-> "PENDING",
                                                 amount |-> refOf[t.refund].amount]]
         \/ clawback' = clawback
      /\ loose' \subseteq loose \cup {ret[q].slice}
  BY ReturnClosed
<1>1. /\ retSt \in [Returns -> {"none"} \cup ReturnStatus]
      /\ link \in [Returns -> 0 .. MaxRefunds]
      /\ clawback \in [Returns -> [status : {"none", "PENDING", "APPLIED"}, amount : Int]]
      /\ ret[q].slice \in Slices /\ loose \subseteq Slices
      /\ t.refund \in 0 .. MaxRefunds /\ refOf[t.refund].amount \in Nat
  BY <1>0, Bounds DEF ReturnsTypeOK, NatAmounts, Refunds
<1>2. /\ wtask' \in [Workers -> ReturnTask] /\ wtask'[w] = Waiting
      /\ \A v \in Workers \ {w} : wtask'[v] = wtask[v]
  BY <1>0, TaskKinds, TaskSet DEF ReturnsTypeOK
<1>3. /\ retSt' \in [Returns -> {"none"} \cup ReturnStatus]
      /\ link' \in [Returns -> 0 .. MaxRefunds]
      /\ clawback' \in [Returns -> [status : {"none", "PENDING", "APPLIED"}, amount : Int]]
      /\ loose' \subseteq Slices
  BY <1>0, <1>1 DEF ReturnStatus
<1>4. ReturnsTypeOK'
  BY <1>0, <1>2, <1>3 DEF ReturnsTypeOK
<1>5. NatAmounts'
  BY <1>0, <1>1 DEF NatAmounts
<1>6. RowsLinked'
  <2>1. \A p \in Returns : Refundable(p) => Refundable(p)'
    BY <1>0, <1>1 DEF Refundable, Passed
  <2>2. \A p \in Returns : link'[p] # link[p] =>
          link'[p] \in Refunds /\ refSt'[link'[p]] # "none" /\ refOf'[link'[p]].ret = p
    BY <1>0, <1>1
  <2>3. TaskLinked(w)'
    BY <1>2 DEF TaskLinked, Waiting, Closing
  <2> QED BY <1>0, <1>2, <2>1, <2>2, <2>3, RowsFrom
<1>7. WithinCapture'
  BY <1>0, StillWithin
<1> QED BY <1>4, <1>5, <1>6, <1>7

\* and one that stops.
LEMMA AbandonKept ==
  ASSUME ReturnsInv, NEW w \in Workers, AbandonReturn(w)
  PROVE  ReturnsInv'
<1>1. /\ wtask[w].ret \in Returns
      /\ UNCHANGED <<refundState, settled, retSt, ret, clawback, doubled>>
      /\ Go(w, Waiting)
  BY WorkFacts, TaskFacts DEF AbandonReturn
<1>2. doubled' \in SUBSET Returns /\ loose' \in SUBSET Slices /\ crashes' \in Nat
  BY <1>1 DEF ReturnsInv, ReturnsTypeOK, AbandonReturn
<1>3. Waiting \in ReturnTask /\ Waiting.do = "idle" /\ Waiting.do \notin Closing
  BY TaskKinds DEF Waiting, Closing
<1> QED BY <1>1, <1>2, <1>3, TurnKept

\* The returns' invariant is inductive.
LEMMA ReturnsKept == ReturnsInv /\ ReturnsNext => ReturnsInv'
<1> SUFFICES ASSUME ReturnsInv, ReturnsNext PROVE ReturnsInv'
  OBVIOUS
<1>1. ASSUME NEW q \in Returns, NEW s \in Slices, NEW kind \in Resolutions,
             NEW units \in 1 .. Bought[s], RequestReturn(q, s, units, kind)
      PROVE  ReturnsInv'
  <2>1. units \in Nat /\ kind \in {"REFUND", "REPLACEMENT"}
    BY ReturnsConstantsOK
  <2> QED BY <1>1, <2>1, RequestKept
<1>2. ASSUME NEW q \in Returns, Handling(q) PROVE ReturnsInv'
  <2>1. ASSUME NEW from, NEW to \in ReturnStatus, Move(q, from, to), UNCHANGED wtask,
               "QC_PASSED" \notin from, "REFUNDED" \notin from
        PROVE  ReturnsInv'
    <3>1. from \cap Passed = {}
      BY <2>1 DEF Passed
    <3> QED BY <2>1, <3>1, MoveKept
  <2>2. ApproveReturn(q) => ReturnsInv'
    BY <2>1 DEF ApproveReturn, ReturnStatus
  <2>3. RejectReturn(q) => ReturnsInv'
    BY <2>1 DEF RejectReturn, ReturnStatus
  <2>4. SchedulePickup(q) => ReturnsInv'
    BY <2>1 DEF SchedulePickup, ReturnStatus
  <2>5. ReverseScan(q) => ReturnsInv'
    BY <2>1 DEF ReverseScan, ReturnStatus
  <2>6. ReceiveReturn(q) => ReturnsInv'
    BY <2>1 DEF ReceiveReturn, ReturnStatus
  <2>7. QcFail(q) => ReturnsInv'
    BY <2>1 DEF QcFail, ReturnStatus
  <2>8. QcPass(q) => ReturnsInv'
    BY <2>1 DEF QcPass, ReturnStatus
  <2>9. ShipReplacement(q) => ReturnsInv'
    BY <2>1 DEF ShipReplacement, ReturnStatus
  <2> QED BY <1>2, <2>2, <2>3, <2>4, <2>5, <2>6, <2>7, <2>8, <2>9 DEF Handling
<1>3. ASSUME NEW q \in Returns, ApproveReplacement(q) PROVE ReturnsInv'
  <2>1. "REPLACEMENT_APPROVED" \in ReturnStatus
    BY DEF ReturnStatus
  <2> QED BY <1>3, <2>1, MoveKept DEF ApproveReplacement
<1>4. ASSUME NEW w \in Workers, Resume(w) \/ Complete(w) \/ AbandonReturn(w) PROVE ReturnsInv'
  BY <1>4, CompleteKept, FindKept, ReserveKept, PayKept, FinalizeReturnKept, CloseKept, AbandonKept
  DEF Resume, Complete
<1>5. ASSUME NEW r \in Refunds, RefundConfirmed(r) PROVE ReturnsInv'
  BY <1>5, ConfirmKept
<1> QED BY <1>1, <1>2, <1>3, <1>4, <1>5 DEF ReturnsNext, Customer

-----------------------------------------------------------------------------
PayoutRow ==
  [status : {"none", "PROCESSING", "PAID", "FAILED"}, items : SUBSET Slices,
   netted : [Slices -> Nat], absorbed : SUBSET Returns]

PayoutsTyped ==
  /\ payout \in [Payouts -> PayoutRow]
  /\ clerk \in [Clerks -> ClerkTask]
  /\ paidFor \in [Slices -> SUBSET Payouts]
  /\ overlap \subseteq Payouts

TypeInv == ReturnsInv /\ PayoutsTyped

\* It gives every variable its type.
LEMMA TypeInvType == TypeInv => SettlementTypeOK
BY DEF TypeInv, ReturnsInv, PayoutsTyped, PayoutRow, SettlementTypeOK

\* What a clerk's task of each kind holds.
LEMMA ClerkFacts ==
  ASSUME NEW t \in ClerkTask
  PROVE  /\ t.do \in {"idle", "absorb", "commit", "paid", "failed"}
         /\ t.do = "idle" => t = Off
         /\ t.do # "idle" => t.items \in SUBSET Slices
         /\ t.do \in {"absorb", "commit"} => t.netted \in [Slices -> Nat]
         /\ t.do = "commit" => t.absorbed \in SUBSET Returns
         /\ t.do \in {"paid", "failed"} => t.payout \in Payouts
BY DEF ClerkTask, Off

\* The tasks the clerks' steps build.
LEMMA ClerkKinds ==
  /\ Off \in ClerkTask
  /\ \A S \in SUBSET Slices, n \in [Slices -> Nat] :
       /\ [do |-> "absorb", items |-> S, netted |-> n] \in ClerkTask
       /\ \A Q \in SUBSET Returns :
            [do |-> "commit", items |-> S, netted |-> n, absorbed |-> Q] \in ClerkTask
  /\ \A S \in SUBSET Slices, p \in Payouts, do \in {"paid", "failed"} :
       [do |-> do, payout |-> p, items |-> S] \in ClerkTask
BY DEF ClerkTask, Off

\* Clawbacks keep their amounts.
SameOwed ==
  /\ clawback' \in [Returns -> [status : {"none", "PENDING", "APPLIED"}, amount : Int]]
  /\ \A q \in Returns : clawback'[q].amount = clawback[q].amount

\* A change of status keeps a clawback's type and amount.
LEMMA BecomeSame ==
  ASSUME ReturnsInv, NEW Q, NEW st \in {"PENDING", "APPLIED"}, clawback' = Become(Q, st)
  PROVE  SameOwed
<1> DEFINE Owing == [status : {"none", "PENDING", "APPLIED"}, amount : Int]
<1>1. ASSUME NEW q \in Returns
      PROVE  clawback'[q] \in Owing /\ clawback'[q].amount = clawback[q].amount
  <2>1. clawback[q] \in Owing
    BY DEF ReturnsInv, ReturnsTypeOK
  <2>2. /\ [clawback[q] EXCEPT !.status = st] \in Owing
        /\ [clawback[q] EXCEPT !.status = st].amount = clawback[q].amount
    BY <2>1
  <2>3. clawback'[q] = IF q \in Q THEN [clawback[q] EXCEPT !.status = st] ELSE clawback[q]
    BY DEF Become
  <2> QED BY <2>1, <2>2, <2>3
<1>2. clawback' = [q \in Returns |-> clawback'[q]]
  BY DEF Become
<1> QED BY <1>1, <1>2 DEF SameOwed

\* What a payout's own steps leave of the returns' rows.
LEMMA BooksKeepRows ==
  ASSUME ReturnsInv, SameOwed,
         UNCHANGED <<refundState, retSt, ret, doubled, wtask, crashes>>,
         settled' \in SUBSET Slices, loose' \in SUBSET Slices
  PROVE  ReturnsInv'
<1> USE DEF ReturnsInv
<1>0. UNCHANGED <<cod, pay, sliceSt, link, refSt, refOf, retSt, ret, doubled, wtask, crashes>>
  BY DEF refundState
<1>1. ReturnsTypeOK'
  BY <1>0 DEF ReturnsTypeOK, SameOwed
<1>2. NatAmounts' /\ WithinCapture'
  BY <1>0, StillWithin DEF NatAmounts, SameOwed
<1>3. RowsLinked'
  <2>1. \A q \in Returns : Refundable(q) => Refundable(q)'
    BY <1>0 DEF Refundable
  <2> QED BY <1>0, <2>1, RowsFrom
<1> QED BY <1>1, <1>2, <1>3

\* What was refunded of a slice is an amount.
LEMMA RefundedNat ==
  ASSUME ReturnsInv
  PROVE  \A s \in Slices : Refunded(s) \in Nat
BY SumOverNat DEF ReturnsInv, Refunded, RefundsOn

\* A run's transaction keeps the books' types.
LEMMA BookedTyped ==
  ASSUME TypeInv, NEW t \in ClerkTask, t.do = "commit", NEW p \in Payouts, BookRun(t, p)
  PROVE  /\ payout' \in [Payouts -> PayoutRow]
         /\ settled' \in SUBSET Slices /\ loose' \in SUBSET Slices
         /\ SameOwed
<1>1. /\ t.items \in SUBSET Slices /\ t.netted \in [Slices -> Nat] /\ t.absorbed \in SUBSET Returns
  BY ClerkFacts
<1>2. [status |-> "PROCESSING", items |-> t.items, netted |-> t.netted, absorbed |-> t.absorbed]
        \in PayoutRow
  BY <1>1 DEF PayoutRow
<1>3. payout' \in [Payouts -> PayoutRow]
  BY <1>2 DEF BookRun, TypeInv, PayoutsTyped
<1>4. settled' \in SUBSET Slices /\ loose' \in SUBSET Slices
  BY <1>1 DEF BookRun, TypeInv, ReturnsInv, ReturnsTypeOK
<1>5. clawback' = Become(t.absorbed, "APPLIED")
  BY DEF BookRun
<1> QED BY <1>3, <1>4, <1>5, BecomeSame DEF TypeInv

\* So does every step of a clerk.
LEMMA TypeOfClerical ==
  ASSUME TypeInv, NEW c \in Clerks, Clerical(c)
  PROVE  TypeInv'
<1> USE DEF TypeInv
<1> DEFINE t == clerk[c]
<1>0. /\ clerk \in [Clerks -> ClerkTask] /\ t \in ClerkTask
      /\ payout \in [Payouts -> PayoutRow]
      /\ settled \subseteq Slices /\ loose \subseteq Slices
  BY DEF PayoutsTyped, ReturnsInv, ReturnsTypeOK
<1>1. ASSUME UNCHANGED returnVars PROVE ReturnsInv'
  <2>1. /\ UNCHANGED <<refundState, retSt, ret, doubled, wtask, crashes>>
        /\ settled' = settled /\ loose' = loose /\ clawback' = clawback
    BY <1>1 DEF returnVars
  <2>2. SameOwed
    BY <2>1 DEF ReturnsInv, ReturnsTypeOK, SameOwed
  <2> QED BY <1>0, <2>1, <2>2, BooksKeepRows
<1>2. ASSUME NEW u \in ClerkTask, clerk' = [clerk EXCEPT ![c] = u],
             payout' \in [Payouts -> PayoutRow], paidFor' \in [Slices -> SUBSET Payouts],
             overlap' \subseteq Payouts
      PROVE  PayoutsTyped'
  BY <1>0, <1>2 DEF PayoutsTyped
<1>3. paidFor \in [Slices -> SUBSET Payouts] /\ overlap \subseteq Payouts
  BY DEF PayoutsTyped
<1>4. CASE PreviewItems(c)
  <2>1. [s \in Slices |-> Refunded(s)] \in [Slices -> Nat] /\ Eligible \in SUBSET Slices
    BY RefundedNat DEF Eligible
  <2>2. [do |-> "absorb", items |-> Eligible, netted |-> [s \in Slices |-> Refunded(s)]]
          \in ClerkTask
    BY <2>1, ClerkKinds
  <2> QED BY <1>0, <1>1, <1>2, <1>3, <1>4, <2>2 DEF PreviewItems
<1>5. CASE PreviewClawbacks(c)
  <2>1. PICK Q \in SUBSET Pending :
          clerk' = [clerk EXCEPT ![c] =
            [do |-> "commit", items |-> t.items, netted |-> t.netted, absorbed |-> Q]]
    BY <1>5 DEF PreviewClawbacks
  <2>2. [do |-> "commit", items |-> t.items, netted |-> t.netted, absorbed |-> Q] \in ClerkTask
    <3>1. t.items \in SUBSET Slices /\ t.netted \in [Slices -> Nat]
      BY <1>0, <1>5, ClerkFacts DEF PreviewClawbacks
    <3>2. Q \in SUBSET Returns
      BY DEF Pending
    <3> QED BY <3>1, <3>2, ClerkKinds
  <2> QED BY <1>0, <1>1, <1>2, <1>3, <1>5, <2>1, <2>2 DEF PreviewClawbacks
<1>6. CASE CommitRun(c)
  <2>1. Off \in ClerkTask /\ clerk' = [clerk EXCEPT ![c] = Off] /\ UNCHANGED <<paidFor, overlap>>
    BY <1>6, ClerkKinds DEF CommitRun
  <2>2. CASE UNCHANGED <<returnVars, payout>>
    BY <1>0, <1>1, <1>2, <1>3, <2>1, <2>2
  <2>3. ASSUME NEW p \in Payouts, BookRun(t, p),
               UNCHANGED <<refundState, retSt, ret, doubled, wtask, crashes>>
        PROVE  TypeInv'
    <3>1. t.do = "commit"
      BY <1>6 DEF CommitRun
    <3>2. /\ payout' \in [Payouts -> PayoutRow]
          /\ settled' \in SUBSET Slices /\ loose' \in SUBSET Slices
          /\ SameOwed
      BY <1>0, <2>3, <3>1, BookedTyped
    <3>3. ReturnsInv'
      BY <2>3, <3>2, BooksKeepRows
    <3> QED BY <1>2, <1>3, <2>1, <3>2, <3>3
  <2> QED BY <1>6, <2>2, <2>3 DEF CommitRun
<1>7. ASSUME NEW p \in Payouts, NEW do \in {"paid", "failed"}, ReadPayout(c, p, do)
      PROVE  TypeInv'
  <2>1. payout[p].items \in SUBSET Slices
    BY <1>0 DEF PayoutRow
  <2>2. [do |-> do, payout |-> p, items |-> payout[p].items] \in ClerkTask
    BY <2>1, ClerkKinds
  <2> QED BY <1>0, <1>1, <1>2, <1>3, <1>7, <2>2 DEF ReadPayout
<1>8. CASE WritePaid(c)
  <2>0. t.items \in SUBSET Slices /\ t.payout \in Payouts /\ Off \in ClerkTask
    BY <1>0, <1>8, ClerkFacts, ClerkKinds DEF WritePaid
  <2>1. payout' \in [Payouts -> PayoutRow]
    <3>1. [payout[t.payout] EXCEPT !.status = "PAID"] \in PayoutRow
      BY <1>0, <2>0 DEF PayoutRow
    <3>2. payout' = [payout EXCEPT ![t.payout] = [payout[t.payout] EXCEPT !.status = "PAID"]]
      BY <1>8 DEF WritePaid
    <3> QED BY <1>0, <2>0, <3>1, <3>2
  <2>2. paidFor' \in [Slices -> SUBSET Payouts]
    BY <1>3, <1>8, <2>0 DEF WritePaid
  <2>3. overlap' \subseteq Payouts
    BY <1>3, <1>8, <2>0 DEF WritePaid, NoteOverlap
  <2>4. settled' \in SUBSET Slices /\ loose' \in SUBSET Slices
    BY <1>0, <1>8, <2>0 DEF WritePaid
  <2>5. ReturnsInv'
    <3>1. SameOwed
      BY <1>8 DEF WritePaid, ReturnsInv, ReturnsTypeOK, SameOwed
    <3> QED BY <1>8, <2>4, <3>1, BooksKeepRows DEF WritePaid
  <2> QED BY <1>2, <1>8, <2>0, <2>1, <2>2, <2>3, <2>5 DEF WritePaid
<1>9. CASE WriteFailed(c)
  <2>0. t.items \in SUBSET Slices /\ t.payout \in Payouts /\ Off \in ClerkTask
    BY <1>0, <1>9, ClerkFacts, ClerkKinds DEF WriteFailed
  <2>1. payout' \in [Payouts -> PayoutRow]
    <3>1. [NoPayout EXCEPT !.status = "FAILED"] \in PayoutRow
      BY DEF NoPayout, PayoutRow
    <3> QED BY <1>0, <1>9, <2>0, <3>1 DEF WriteFailed
  <2>2. paidFor' = paidFor /\ overlap' \subseteq Payouts
    BY <1>3, <1>9, <2>0 DEF WriteFailed, NoteOverlap
  <2>3. settled' \in SUBSET Slices /\ loose' \in SUBSET Slices
    BY <1>0, <1>9, <2>0 DEF WriteFailed
  <2>4. clawback' = Become(payout[t.payout].absorbed, "PENDING")
    BY <1>9 DEF WriteFailed, ReleaseClawbacks
  <2>5. ReturnsInv'
    <3>1. SameOwed
      BY <2>4, BecomeSame
    <3>2. UNCHANGED <<refundState, retSt, ret, doubled, wtask, crashes>>
      BY <1>9 DEF WriteFailed
    <3> QED BY <2>3, <3>1, <3>2, BooksKeepRows
  <2> QED BY <1>2, <1>3, <1>9, <2>0, <2>1, <2>2, <2>5 DEF WriteFailed
<1> QED BY <1>4, <1>5, <1>6, <1>7, <1>8, <1>9 DEF Clerical

\* The type invariant holds first,
LEMMA InitType == PayoutsInit => TypeInv
<1> SUFFICES ASSUME PayoutsInit PROVE TypeInv
  OBVIOUS
<1> USE DEF PayoutsInit, ReturnsInit
<1>1. ReturnsTypeOK
  <2>1. NoReturn \in [slice : Slices, units : Nat, kind : {"REFUND", "REPLACEMENT"}]
    <3>1. (CHOOSE s \in Slices : TRUE) \in Slices
      BY ReturnsConstantsOK
    <3> QED BY <3>1 DEF NoReturn
  <2>2. /\ ret \in [Returns -> [slice : Slices, units : Nat, kind : {"REFUND", "REPLACEMENT"}]]
        /\ link \in [Returns -> 0 .. MaxRefunds]
        /\ refOf \in [Refunds -> [ret : 0 .. MaxReturns, amount : Int]]
        /\ clawback \in [Returns -> [status : {"none", "PENDING", "APPLIED"}, amount : Int]]
    BY <2>1, ReturnsConstantsOK DEF NoClawback
  <2>3. wtask \in [Workers -> ReturnTask]
    BY TaskKinds
  <2> QED BY <2>2, <2>3 DEF ReturnsTypeOK
<1>2. RowsLinked /\ NatAmounts
  BY DEF RowsLinked, NatAmounts, TaskLinked, Waiting, Closing, NoClawback
<1>3. WithinCapture
  <2>1. RefundsIn({"PROCESSED"}) = {} /\ RefundsIn({"PROCESSING", "PROCESSED"}) = {}
    BY DEF RefundsIn
  <2>2. Left = Captured - 0
    BY <2>1, SumEmpty DEF Left, SumOver
  <2> QED BY <2>1, <2>2, CapturedNat DEF WithinCapture
<1>4. PayoutsTyped
  BY ClerkKinds DEF PayoutsTyped, PayoutRow, NoPayout
<1> QED BY <1>1, <1>2, <1>3, <1>4 DEF TypeInv, ReturnsInv

\* and every step keeps it.
LEMMA StepType == TypeInv /\ [SettlementNext]_settlementVars => TypeInv'
<1> SUFFICES ASSUME TypeInv, [SettlementNext]_settlementVars PROVE TypeInv'
  OBVIOUS
<1>1. CASE ReturnsNext /\ UNCHANGED payoutVars
  <2>1. PayoutsTyped'
    BY <1>1 DEF TypeInv, PayoutsTyped, payoutVars
  <2> QED BY <1>1, <2>1, ReturnsKept DEF TypeInv
<1>2. ASSUME NEW c \in Clerks, Clerical(c) PROVE TypeInv'
  BY <1>2, TypeOfClerical
<1>3. CASE UNCHANGED settlementVars
  <2>1. PayoutsTyped'
    BY <1>3 DEF TypeInv, PayoutsTyped, payoutVars, settlementVars
  <2>2. /\ UNCHANGED <<refundState, retSt, ret, doubled, wtask, crashes>>
        /\ settled' \in SUBSET Slices /\ loose' \in SUBSET Slices /\ SameOwed
    BY <1>3 DEF settlementVars, returnVars, TypeInv, ReturnsInv, ReturnsTypeOK, SameOwed
  <2> QED BY <2>1, <2>2, BooksKeepRows DEF TypeInv
<1> QED BY <1>1, <1>2, <1>3 DEF SettlementNext

\* Every variable of the settlement, the returns' own included, keeps its type.
THEOREM SettlementType == SettlementSpec => []SettlementTypeOK
<1>1. TypeInv => SettlementTypeOK
  BY TypeInvType
<1> QED BY <1>1, InitType, StepType, PTL DEF SettlementSpec

-----------------------------------------------------------------------------
Completes(w, q) == wtask[w].ret = q

Alone(q) ==
  /\ \A v, w \in Workers : Completes(v, q) /\ Completes(w, q) => v = w
  /\ \A w \in Workers : Completes(w, q) /\ wtask[w].do = "create" => link[q] = 0
  /\ \A r \in Refunds : refSt[r] # "none" /\ refOf[r].ret = q => link[q] = r

OneCompletion == \A q \in Returns \ doubled : Alone(q)

AloneInv == TypeInv /\ OneCompletion

\* A completion stays alone when no other begins, and no refund is reserved.
LEMMA AloneFrame ==
  ASSUME NEW q \in Returns, Alone(q),
         \A w \in Workers : Completes(w, q)' =>
           Completes(w, q) /\ (wtask'[w].do = "create" => link'[q] = 0),
         \A r \in Refunds : refSt'[r] # "none" /\ refOf'[r].ret = q => link'[q] = r
  PROVE  Alone(q)'
BY DEF Alone, Completes

\* A step that sets one worker's task to rest or to something else than "create".
LEMMA AloneTurn ==
  ASSUME TypeInv, NEW q \in Returns, Alone(q), NEW w \in Workers, NEW t, Go(w, t),
         t.ret = q => Completes(w, q) /\ (t.do = "create" => link[q] = 0),
         link'[q] = link[q],
         \A r \in Refunds : refSt'[r] # "none" => refSt[r] # "none" /\ refOf'[r] = refOf[r]
  PROVE  Alone(q)'
<1>1. wtask'[w] = t /\ \A v \in Workers \ {w} : wtask'[v] = wtask[v]
  BY DEF Go, TypeInv, ReturnsInv, ReturnsTypeOK
<1>2. \A v \in Workers : Completes(v, q)' =>
        Completes(v, q) /\ (wtask'[v].do = "create" => link'[q] = 0)
  BY <1>1 DEF Completes, Alone
<1>3. \A r \in Refunds : refSt'[r] # "none" /\ refOf'[r].ret = q => link'[q] = r
  BY DEF Alone
<1> QED BY <1>2, <1>3, AloneFrame

\* A return that was never completed twice at once has one completion and one refund.
LEMMA AloneKept ==
  ASSUME AloneInv, SettlementNext \/ UNCHANGED settlementVars, NEW q \in Returns \ doubled',
         TypeInv'
  PROVE  Alone(q)'
<1> USE DEF AloneInv
<1>0. doubled \subseteq doubled'
  <2>1. CASE ReturnsNext
    BY <2>1 DEF ReturnsNext, Customer, Handling, RequestReturn, Move, ApproveReturn, RejectReturn,
         SchedulePickup, ReverseScan, ReceiveReturn, QcFail, QcPass, ShipReplacement,
         ApproveReplacement, Resume, Complete, CompleteReturn, FindLinkedRefund, ReserveRefund,
         PayRefund, FinalizeReturnRefund, CloseReturn, AbandonReturn, RefundConfirmed
  <2>2. ASSUME NEW c \in Clerks, Clerical(c) PROVE doubled' = doubled
    BY <2>2 DEF Clerical, PreviewItems, PreviewClawbacks, CommitRun, ReadPayout, WritePaid,
         WriteFailed, returnVars
  <2>3. CASE UNCHANGED settlementVars
    BY <2>3 DEF settlementVars, returnVars
  <2> QED BY <2>1, <2>2, <2>3 DEF SettlementNext
<1>1. Alone(q) /\ q \in Returns /\ q # 0
  BY <1>0, Bounds DEF OneCompletion
<1>2. /\ ReturnsInv /\ ReturnsTypeOK
      /\ refSt \in [Refunds -> {"none", "REQUESTED", "PROCESSING", "PROCESSED", "FAILED"}]
      /\ refOf \in [Refunds -> [ret : 0 .. MaxReturns, amount : Int]]
      /\ link \in [Returns -> 0 .. MaxRefunds]
  BY DEF TypeInv, ReturnsInv, ReturnsTypeOK
<1>3. CASE UNCHANGED <<refSt, refOf, link, wtask>>
  BY <1>1, <1>3 DEF Alone, Completes
<1>4. ASSUME NEW p \in Returns, NEW s \in Slices, NEW units, NEW kind,
             RequestReturn(p, s, units, kind)
      PROVE  Alone(q)'
  BY <1>3, <1>4 DEF RequestReturn, refundState
<1>5. ASSUME NEW p \in Returns, Handling(p) \/ ApproveReplacement(p) PROVE Alone(q)'
  BY <1>3, <1>5 DEF Handling, ApproveReturn, RejectReturn, SchedulePickup, ReverseScan,
       ReceiveReturn, QcFail, QcPass, ShipReplacement, ApproveReplacement, Move, refundState
<1>6. ASSUME NEW w \in Workers, NEW p \in Returns, CompleteReturn(w, p) PROVE Alone(q)'
  <2> DEFINE t == [do |-> "refund", ret |-> p, seen |-> Settled(p)]
  <2>1. /\ Go(w, t) /\ t.do # "create" /\ t.ret = p
        /\ UNCHANGED <<refSt, refOf, link>>
        /\ doubled' = IF Completing(p) THEN doubled \cup {p} ELSE doubled
    BY <1>6 DEF CompleteReturn, Take, Go, refundState
  <2>2. CASE p # q
    <3> HIDE DEF t
    <3> QED BY <1>1, <2>1, <2>2, AloneTurn
  <2>3. CASE p = q
    <3>1. \A v \in Workers : wtask[v].ret # q
      BY <2>1, <2>3 DEF Completing
    <3>2. wtask'[w] = t /\ \A v \in Workers \ {w} : wtask'[v] = wtask[v]
      BY <1>2, <2>1 DEF Go, ReturnsTypeOK
    <3> QED BY <1>1, <2>1, <3>1, <3>2 DEF Alone, Completes
  <2> QED BY <2>2, <2>3
<1>7. ASSUME NEW w \in Workers, FindLinkedRefund(w) PROVE Alone(q)'
  <2> DEFINE t == wtask[w]
             p == wtask[w].ret
  <2>1. UNCHANGED <<refSt, refOf, link>>
    BY <1>7 DEF FindLinkedRefund, refundState
  <2>2. CASE Go(w, Waiting)
    BY <1>1, <2>1, <2>2, AloneTurn DEF Waiting
  <2>3. ASSUME NEW do \in {"close", "pay"},
               Go(w, [do |-> do, ret |-> p, seen |-> t.seen, refund |-> link[p]])
        PROVE  Alone(q)'
    <3>1. PICK u : u = [do |-> do, ret |-> p, seen |-> t.seen, refund |-> link[p]]
      OBVIOUS
    <3>2. u.ret = p /\ u.do # "create"
      BY <3>1
    <3> QED BY <1>1, <2>1, <2>3, <3>1, <3>2, AloneTurn DEF Completes
  <2>4. ASSUME NEW n \in Nat, link[p] = 0,
               Go(w, [do |-> "create", ret |-> p, seen |-> t.seen, amount |-> n])
        PROVE  Alone(q)'
    <3>1. PICK u : u = [do |-> "create", ret |-> p, seen |-> t.seen, amount |-> n]
      OBVIOUS
    <3>2. u.ret = p
      BY <3>1
    <3> QED BY <1>1, <2>1, <2>4, <3>1, <3>2, AloneTurn DEF Completes
  <2> QED BY <1>2, <1>7, <2>2, <2>3, <2>4, Found
<1>8. ASSUME NEW w \in Workers, ReserveRefund(w) PROVE Alone(q)'
  <2> DEFINE t == wtask[w]
  <2>1. t.do = "create" /\ t.ret \in Returns
    BY <1>2, <1>8, Reserved
  <2>2. PICK r \in Refunds, do \in {"close", "pay"} :
          /\ refSt[r] = "none"
          /\ refSt' = [refSt EXCEPT ![r] = "REQUESTED"]
          /\ refOf' = [refOf EXCEPT ![r] = [ret |-> t.ret, amount |-> t.amount]]
          /\ link' = [link EXCEPT ![t.ret] = r]
          /\ Go(w, [do |-> do, ret |-> t.ret, seen |-> t.seen, refund |-> r])
    BY <1>2, <1>8, Reserved
  <2>3. PICK u : u = [do |-> do, ret |-> t.ret, seen |-> t.seen, refund |-> r]
    OBVIOUS
  <2>4. /\ u.ret = t.ret /\ u.do # "create"
        /\ wtask'[w] = u /\ \A v \in Workers \ {w} : wtask'[v] = wtask[v]
    BY <1>2, <2>2, <2>3 DEF Go, ReturnsTypeOK
  <2>5. \A p \in Refunds \ {r} : refSt'[p] = refSt[p] /\ refOf'[p] = refOf[p]
    BY <1>2, <2>2
  <2>6. refOf'[r].ret = t.ret
    BY <1>2, <2>2
  <2>7. CASE t.ret = q
    <3>1. link[q] = 0 /\ \A v \in Workers \ {w} : wtask[v].ret # q
      BY <1>1, <2>1, <2>7 DEF Alone, Completes
    <3>2. link'[q] = r
      BY <1>2, <2>2, <2>7
    <3>3. \A p \in Refunds \ {r} : ~ (refSt[p] # "none" /\ refOf[p].ret = q)
      BY <1>1, <3>1, Bounds DEF Alone
    <3> QED BY <1>1, <2>1, <2>4, <2>5, <2>7, <3>1, <3>2, <3>3, AloneFrame DEF Completes
  <2>8. CASE t.ret # q
    <3>1. link'[q] = link[q]
      BY <1>2, <2>2, <2>8
    <3>2. \A p \in Refunds : refSt'[p] # "none" /\ refOf'[p].ret = q => link'[q] = p
      BY <1>1, <2>5, <2>6, <2>8, <3>1 DEF Alone
    <3>3. \A v \in Workers : Completes(v, q)' =>
            Completes(v, q) /\ (wtask'[v].do = "create" => link'[q] = 0)
      BY <1>1, <2>4, <2>8, <3>1 DEF Completes, Alone
    <3> QED BY <1>1, <3>2, <3>3, AloneFrame
  <2> QED BY <2>7, <2>8
<1>9. ASSUME NEW w \in Workers, PayRefund(w) PROVE Alone(q)'
  <2> DEFINE t == wtask[w]
             r == wtask[w].refund
  <2>1. /\ t.do = "pay" /\ UNCHANGED <<link, refOf>> /\ r \in Refunds /\ refSt[r] # "none"
        /\ \/ Go(w, Waiting)
           \/ \E do \in Closing \ {"pay"} : Go(w, [t EXCEPT !.do = do])
        /\ refSt' = refSt \/ \E st : refSt' = [refSt EXCEPT ![r] = st]
    BY <1>2, <1>9, Paid
  <2>2. \A p \in Refunds : refSt'[p] # "none" => refSt[p] # "none" /\ refOf'[p] = refOf[p]
    BY <1>2, <2>1
  <2>3. CASE Go(w, Waiting)
    BY <1>1, <2>1, <2>2, <2>3, AloneTurn DEF Waiting
  <2>4. ASSUME NEW do \in Closing, Go(w, [t EXCEPT !.do = do]) PROVE Alone(q)'
    <3>1. PICK u : u = [t EXCEPT !.do = do]
      OBVIOUS
    <3>2. u.ret = t.ret /\ u.do # "create"
      BY <1>2, <2>1, <2>4, <3>1, WorkFacts, TaskTurned DEF Closing
    <3> QED BY <1>1, <2>1, <2>2, <2>4, <3>1, <3>2, AloneTurn DEF Completes
  <2> QED BY <2>1, <2>3, <2>4
<1>10. ASSUME NEW w \in Workers, FinalizeReturnRefund(w) PROVE Alone(q)'
  <2> DEFINE t == wtask[w]
  <2>1. /\ t.do = "finalize" /\ Go(w, [t EXCEPT !.do = "close"])
        /\ UNCHANGED refundState \/ Finalize(t.refund)
        /\ t.refund \in Refunds /\ refSt[t.refund] # "none"
    BY <1>2, <1>10, WorkFacts DEF FinalizeReturnRefund, Closing
  <2>2. /\ link' = link
        /\ \A p \in Refunds : refSt'[p] # "none" => refSt[p] # "none" /\ refOf'[p] = refOf[p]
    BY <1>2, <2>1, Finalized DEF refundState
  <2>3. PICK u : u = [t EXCEPT !.do = "close"]
    OBVIOUS
  <2>4. u.ret = t.ret /\ u.do # "create"
    BY <1>2, <2>1, <2>3, WorkFacts, TaskTurned DEF Closing
  <2> QED BY <1>1, <2>1, <2>2, <2>3, <2>4, AloneTurn DEF Completes
<1>11. ASSUME NEW w \in Workers, CloseReturn(w) PROVE Alone(q)'
  <2>1. LET t == wtask[w]
            p == t.ret
        IN  /\ p \in Returns /\ t.refund \in Refunds /\ refSt[t.refund] # "none"
            /\ refOf[t.refund].ret = p /\ Go(w, Waiting) /\ UNCHANGED <<refSt, refOf>>
            /\ link' = link \/ link' = [link EXCEPT ![p] = t.refund]
    BY <1>2, <1>11, ReturnClosed
  <2>2. link'[q] = link[q]
    BY <1>1, <1>2, <2>1 DEF Alone
  <2> QED BY <1>1, <2>1, <2>2, AloneTurn DEF Waiting
<1>12. ASSUME NEW w \in Workers, AbandonReturn(w) PROVE Alone(q)'
  <2>1. UNCHANGED <<refSt, refOf, link>> /\ Go(w, Waiting)
    BY <1>12 DEF AbandonReturn, refundState
  <2> QED BY <1>1, <2>1, AloneTurn DEF Waiting
<1>13. ASSUME NEW r \in Refunds, RefundConfirmed(r) PROVE Alone(q)'
  <2>1. /\ refSt[r] # "none" /\ UNCHANGED <<link, refOf, wtask>>
        /\ \E st : refSt' = [refSt EXCEPT ![r] = st]
    BY <1>2, <1>13, Finalized DEF RefundConfirmed
  <2>2. \A p \in Refunds : refSt'[p] # "none" => refSt[p] # "none"
    BY <1>2, <2>1
  <2> QED BY <1>1, <2>1, <2>2 DEF Alone, Completes
<1>14. ASSUME NEW c \in Clerks, Clerical(c) PROVE Alone(q)'
  BY <1>3, <1>14 DEF Clerical, PreviewItems, PreviewClawbacks, CommitRun, ReadPayout, WritePaid,
       WriteFailed, returnVars, refundState
<1>15. CASE UNCHANGED settlementVars
  BY <1>3, <1>15 DEF settlementVars, returnVars, refundState
<1> QED BY <1>4, <1>5, <1>6, <1>7, <1>8, <1>9, <1>10, <1>11, <1>12, <1>13, <1>14, <1>15
        DEF SettlementNext, ReturnsNext, Customer, Resume, Complete

\* That holds first,
LEMMA InitAlone == PayoutsInit => AloneInv
<1> SUFFICES ASSUME PayoutsInit PROVE AloneInv
  OBVIOUS
<1>1. TypeInv
  BY InitType
<1>2. OneCompletion
  BY Bounds DEF PayoutsInit, ReturnsInit, OneCompletion, Alone, Completes, Waiting
<1> QED BY <1>1, <1>2 DEF AloneInv

\* and every step keeps it.
LEMMA StepAlone == AloneInv /\ [SettlementNext]_settlementVars => AloneInv'
<1> SUFFICES ASSUME AloneInv, [SettlementNext]_settlementVars PROVE AloneInv'
  OBVIOUS
<1>1. TypeInv'
  BY StepType DEF AloneInv
<1>2. OneCompletion'
  BY <1>1, AloneKept DEF OneCompletion
<1> QED BY <1>1, <1>2 DEF AloneInv

\* It bounds the refunds of a return.
LEMMA AloneOneRefund == AloneInv => OneRefundPerReturn
<1> SUFFICES ASSUME AloneInv, NEW q \in Returns
             PROVE  LET mine == {r \in Refunds : refSt[r] # "none" /\ refOf[r].ret = q}
                    IN  /\ q \notin doubled => Cardinality(mine) =< 1
                        /\ ret[q].kind = "REPLACEMENT" => mine = {}
  BY DEF OneRefundPerReturn
<1> DEFINE mine == {r \in Refunds : refSt[r] # "none" /\ refOf[r].ret = q}
<1>1. ASSUME q \notin doubled PROVE Cardinality(mine) =< 1
  <2>1. \A r \in mine : link[q] = r
    BY <1>1 DEF AloneInv, OneCompletion, Alone
  <2>2. PICK l : l = link[q]
    OBVIOUS
  <2>3. mine \in SUBSET {l}
    BY <2>1, <2>2
  <2>4. IsFiniteSet({l}) /\ Cardinality({l}) = 1
    BY FS_Singleton
  <2> HIDE DEF mine
  <2> QED BY <2>3, <2>4, FS_Subset
<1>2. ASSUME ret[q].kind = "REPLACEMENT" PROVE mine = {}
  BY <1>2 DEF AloneInv, TypeInv, ReturnsInv, RowsLinked, Refundable
<1> QED BY <1>1, <1>2

\* However a completion crashes and is resumed, a return has one refund, unless two
\* completed it at once; a replacement has none.
THEOREM SettlementOneRefund == SettlementSpec => []OneRefundPerReturn
<1>1. AloneInv => OneRefundPerReturn
  BY AloneOneRefund
<1> QED BY <1>1, InitAlone, StepAlone, PTL DEF SettlementSpec

-----------------------------------------------------------------------------
Absorbed(q) == \E p \in Payouts : q \in payout[p].absorbed

ItemsApart ==
  /\ \A p, o \in Payouts : p # o => payout[p].items \cap payout[o].items = {}
  /\ \A p \in Payouts : ~ Live(p) => payout[p].items = {}

ClerksKnow ==
  \A c \in Clerks : clerk[c].do \in {"paid", "failed"} =>
    LET p == clerk[c].payout
    IN  /\ payout[p].status # "none"
        /\ payout[p].status = "PROCESSING" => payout[p].items = clerk[c].items

PaidListed ==
  \A s \in Slices : \A p \in paidFor[s] \ overlap :
    payout[p].status = "PAID" /\ s \in payout[p].items

ClawbacksApart ==
  /\ \A p, o \in Payouts : p # o => payout[p].absorbed \cap payout[o].absorbed = {}
  /\ \A p \in Payouts : ~ Live(p) => payout[p].absorbed = {}
  /\ \A q \in Returns : clawback[q].status = "APPLIED" <=> Absorbed(q)

Books == ItemsApart /\ ClerksKnow /\ PaidListed /\ ClawbacksApart

BooksInv == AloneInv /\ Books

\* What the books' steps do, in one place.
LEMMA RunBooked ==
  ASSUME TypeInv, NEW c \in Clerks, NEW p \in Payouts, clerk[c].do = "commit",
         ~ RunRaced(clerk[c]), FreePayout(p), BookRun(clerk[c], p)
  PROVE  LET t == clerk[c]
         IN  /\ t.items \in SUBSET Slices /\ t.netted \in [Slices -> Nat]
             /\ t.absorbed \in SUBSET Returns
             /\ t.items \cap settled = {}
             /\ \A o \in Payouts : t.items \cap payout[o].items = {}
             /\ \A q \in t.absorbed : clawback[q].status = "PENDING"
             /\ payout[p].status = "none"
             /\ payout'[p] = [status |-> "PROCESSING", items |-> t.items, netted |-> t.netted,
                              absorbed |-> t.absorbed]
             /\ \A o \in Payouts \ {p} : payout'[o] = payout[o]
             /\ settled' = settled \cup t.items
             /\ \A q \in Returns : clawback'[q] =
                  IF q \in t.absorbed THEN [clawback[q] EXCEPT !.status = "APPLIED"]
                                      ELSE clawback[q]
             /\ loose' = loose \cup {s \in t.items : t.netted[s] # Refunded(s)}
<1>1. /\ clerk[c].items \in SUBSET Slices /\ clerk[c].netted \in [Slices -> Nat]
      /\ clerk[c].absorbed \in SUBSET Returns
  BY ClerkFacts DEF TypeInv, PayoutsTyped
<1>2. /\ payout'[p] = [status |-> "PROCESSING", items |-> clerk[c].items,
                       netted |-> clerk[c].netted, absorbed |-> clerk[c].absorbed]
      /\ \A o \in Payouts \ {p} : payout'[o] = payout[o]
  BY DEF BookRun, TypeInv, PayoutsTyped
<1>3. /\ clerk[c].items \cap settled = {}
      /\ \A o \in Payouts : clerk[c].items \cap payout[o].items = {}
      /\ \A q \in clerk[c].absorbed : clawback[q].status = "PENDING"
  BY <1>1 DEF RunRaced, Listed
<1> QED BY <1>1, <1>2, <1>3 DEF BookRun, FreePayout, Become

\* The books are kept by every step.
LEMMA BooksKept ==
  ASSUME BooksInv, SettlementNext \/ UNCHANGED settlementVars
  PROVE  Books'
<1> USE DEF BooksInv, Books
<1>0. /\ payout \in [Payouts -> PayoutRow] /\ clerk \in [Clerks -> ClerkTask]
      /\ paidFor \in [Slices -> SUBSET Payouts] /\ overlap \subseteq Payouts
      /\ clawback \in [Returns -> [status : {"none", "PENDING", "APPLIED"}, amount : Int]]
      /\ TypeInv /\ ReturnsInv
  BY DEF AloneInv, TypeInv, PayoutsTyped, ReturnsInv, ReturnsTypeOK
<1>1. ASSUME UNCHANGED <<payout, paidFor, overlap>>, ClerksKnow',
             \A q \in Returns : clawback'[q].status = "APPLIED" <=> clawback[q].status = "APPLIED"
      PROVE  Books'
  BY <1>1 DEF ItemsApart, PaidListed, ClawbacksApart, Absorbed, Live
<1>2. CASE ReturnsNext /\ UNCHANGED payoutVars
  <2>1. \A q \in Returns : clawback'[q].status = "APPLIED" <=> clawback[q].status = "APPLIED"
    <3>1. ASSUME NEW w \in Workers, CloseReturn(w), NEW q \in Returns
          PROVE  clawback'[q].status = "APPLIED" <=> clawback[q].status = "APPLIED"
      <4>1. PICK o, n : o = wtask[w].ret /\ n = refOf[wtask[w].refund].amount
        OBVIOUS
      <4>2. \/ clawback' = clawback
            \/ /\ clawback[o] = NoClawback
               /\ clawback' = [clawback EXCEPT ![o] = [status |-> "PENDING", amount |-> n]]
        BY <1>0, <3>1, <4>1, ReturnClosed
      <4> QED BY <1>0, <4>2 DEF NoClawback
    <3>2. CASE clawback' = clawback
      BY <3>2
    <3>3. clawback' = clawback \/ \E w \in Workers : CloseReturn(w)
      BY <1>2 DEF ReturnsNext, Customer, Handling, RequestReturn, Move, ApproveReturn,
           RejectReturn, SchedulePickup, ReverseScan, ReceiveReturn, QcFail, QcPass,
           ShipReplacement, ApproveReplacement, Resume, Complete, CompleteReturn,
           FindLinkedRefund, ReserveRefund, PayRefund, FinalizeReturnRefund, AbandonReturn,
           RefundConfirmed
    <3> QED BY <3>1, <3>2, <3>3
  <2>2. UNCHANGED <<payout, clerk, paidFor, overlap>>
    BY <1>2 DEF payoutVars
  <2> QED BY <1>1, <2>1, <2>2 DEF ClerksKnow
<1>3. ASSUME NEW c \in Clerks, PreviewItems(c) \/ PreviewClawbacks(c)
      PROVE  Books'
  <2>1. UNCHANGED <<payout, paidFor, overlap, clawback>>
    BY <1>3 DEF PreviewItems, PreviewClawbacks, returnVars
  <2>2. PICK t : t.do \notin {"paid", "failed"} /\ clerk' = [clerk EXCEPT ![c] = t]
    BY <1>3 DEF PreviewItems, PreviewClawbacks
  <2>3. \A d \in Clerks : clerk'[d].do \in {"paid", "failed"} => clerk'[d] = clerk[d]
    BY <1>0, <2>2
  <2> QED BY <1>1, <2>1, <2>3 DEF ClerksKnow
<1>4. ASSUME NEW c \in Clerks, CommitRun(c) PROVE Books'
  <2> DEFINE t == clerk[c]
  <2>1. /\ t.do = "commit" /\ UNCHANGED <<paidFor, overlap>>
        /\ \A d \in Clerks : clerk'[d].do \in {"paid", "failed"} => clerk'[d] = clerk[d]
    BY <1>0, <1>4 DEF CommitRun, Off
  <2>2. CASE UNCHANGED <<returnVars, payout>>
    BY <1>1, <2>1, <2>2 DEF ClerksKnow, returnVars
  <2>3. ASSUME NEW p \in Payouts, ~ RunRaced(t), FreePayout(p), BookRun(t, p) PROVE Books'
    <3>1. /\ t.items \in SUBSET Slices /\ t.absorbed \in SUBSET Returns
          /\ \A o \in Payouts : t.items \cap payout[o].items = {}
          /\ \A q \in t.absorbed : clawback[q].status = "PENDING"
          /\ payout[p].status = "none"
          /\ payout'[p].status = "PROCESSING" /\ payout'[p].items = t.items
          /\ payout'[p].absorbed = t.absorbed
          /\ \A o \in Payouts \ {p} : payout'[o] = payout[o]
          /\ \A q \in Returns : clawback'[q].status =
               IF q \in t.absorbed THEN "APPLIED" ELSE clawback[q].status
      <4>1. /\ t.items \in SUBSET Slices /\ t.absorbed \in SUBSET Returns
            /\ \A o \in Payouts : t.items \cap payout[o].items = {}
            /\ \A q \in t.absorbed : clawback[q].status = "PENDING"
            /\ payout[p].status = "none"
            /\ payout'[p] = [status |-> "PROCESSING", items |-> t.items, netted |-> t.netted,
                             absorbed |-> t.absorbed]
            /\ \A o \in Payouts \ {p} : payout'[o] = payout[o]
        BY <1>0, <2>1, <2>3, RunBooked
      <4>2. \A q \in Returns : clawback'[q] =
              IF q \in t.absorbed THEN [clawback[q] EXCEPT !.status = "APPLIED"] ELSE clawback[q]
        BY <1>0, <2>1, <2>3, RunBooked
      <4>3. \A q \in Returns : [clawback[q] EXCEPT !.status = "APPLIED"].status = "APPLIED"
        BY <1>0
      <4>4. \A q \in Returns : clawback'[q].status =
              IF q \in t.absorbed THEN "APPLIED" ELSE clawback[q].status
        BY <4>2, <4>3
      <4> QED BY <4>1, <4>4
    <3>2. ItemsApart'
      BY <3>1 DEF ItemsApart, Live
    <3>3. ClerksKnow'
      BY <1>0, <2>1, <3>1, ClerkFacts DEF ClerksKnow
    <3>4. PaidListed'
      BY <1>0, <2>1, <3>1 DEF PaidListed
    <3>5. ClawbacksApart'
      <4>1. \A q \in t.absorbed, o \in Payouts : q \notin payout[o].absorbed
        BY <3>1 DEF ClawbacksApart, Absorbed
      <4>2. payout[p].absorbed = {}
        BY <3>1 DEF ClawbacksApart, Live
      <4>3. \A q \in Returns : Absorbed(q)' <=> q \in t.absorbed \/ Absorbed(q)
        BY <3>1, <4>2 DEF Absorbed
      <4> QED BY <3>1, <4>1, <4>3 DEF ClawbacksApart, Live
    <3> QED BY <3>2, <3>3, <3>4, <3>5
  <2> QED BY <1>4, <2>2, <2>3 DEF CommitRun
<1>5. ASSUME NEW c \in Clerks, NEW p \in Payouts, NEW do \in {"paid", "failed"},
             ReadPayout(c, p, do)
      PROVE  Books'
  <2>1. /\ UNCHANGED <<payout, paidFor, overlap, clawback>>
        /\ payout[p].status = "PROCESSING"
        /\ clerk'[c] = [do |-> do, payout |-> p, items |-> payout[p].items]
        /\ \A d \in Clerks \ {c} : clerk'[d] = clerk[d]
    BY <1>0, <1>5 DEF ReadPayout, returnVars
  <2>2. ClerksKnow'
    BY <2>1 DEF ClerksKnow
  <2> QED BY <1>1, <2>1, <2>2
<1>6. ASSUME NEW c \in Clerks, WritePaid(c) PROVE Books'
  <2> DEFINE t == clerk[c]
  <2>0. PICK p \in Payouts : p = t.payout
    BY <1>0, <1>6, ClerkFacts DEF WritePaid
  <2>1. /\ t.do = "paid" /\ t.items \in SUBSET Slices
        /\ clawback' = clawback /\ clerk'[c] = Off
        /\ \A d \in Clerks \ {c} : clerk'[d] = clerk[d]
    BY <1>0, <1>6, ClerkFacts DEF WritePaid
  <2>2. \A o \in Payouts \ {p} : payout'[o] = payout[o]
    BY <1>0, <1>6, <2>0, <2>1 DEF WritePaid
  <2>3. /\ payout'[p].status = "PAID" /\ payout'[p].items = payout[p].items
        /\ payout'[p].absorbed = payout[p].absorbed
    <3>1. payout'[p] = [payout[p] EXCEPT !.status = "PAID"]
      BY <1>0, <1>6, <2>0 DEF WritePaid
    <3> QED BY <1>0, <3>1 DEF PayoutRow
  <2>4. /\ payout[p].status # "none"
        /\ payout[p].status = "PROCESSING" => payout[p].items = t.items
    BY <2>0, <2>1 DEF ClerksKnow
  <2>5. ItemsApart'
    BY <2>2, <2>3 DEF ItemsApart, Live
  <2>6. ClawbacksApart'
    BY <2>1, <2>2, <2>3 DEF ClawbacksApart, Live, Absorbed
  <2>7. ClerksKnow'
    BY <1>0, <2>1, <2>2, <2>3, ClerkFacts DEF ClerksKnow, Off
  <2>8. PaidListed'
    <3> SUFFICES ASSUME NEW s \in Slices, NEW o \in paidFor'[s] \ overlap'
                 PROVE  payout'[o].status = "PAID" /\ s \in payout'[o].items
      BY DEF PaidListed
    <3>1. /\ overlap \subseteq overlap' /\ (Closed(p) => p \in overlap')
          /\ paidFor'[s] = IF s \in t.items THEN paidFor[s] \cup {p} ELSE paidFor[s]
      BY <1>6, <2>0 DEF WritePaid, NoteOverlap
    <3>2. CASE o \in paidFor[s]
      BY <1>0, <2>2, <2>3, <3>1, <3>2 DEF PaidListed
    <3>3. CASE o = p /\ s \in t.items
      BY <2>3, <2>4, <3>1, <3>3 DEF Closed
    <3> QED BY <3>1, <3>2, <3>3
  <2> QED BY <2>5, <2>6, <2>7, <2>8
<1>7. ASSUME NEW c \in Clerks, WriteFailed(c) PROVE Books'
  <2> DEFINE t == clerk[c]
  <2>0. PICK p \in Payouts : p = t.payout
    BY <1>0, <1>7, ClerkFacts DEF WriteFailed
  <2>1. /\ t.do = "failed" /\ t.items \in SUBSET Slices
        /\ paidFor' = paidFor /\ clerk'[c] = Off
        /\ \A d \in Clerks \ {c} : clerk'[d] = clerk[d]
    BY <1>0, <1>7, ClerkFacts DEF WriteFailed
  <2>2. /\ payout'[p].status = "FAILED" /\ payout'[p].items = {} /\ payout'[p].absorbed = {}
        /\ \A o \in Payouts \ {p} : payout'[o] = payout[o]
    BY <1>0, <1>7, <2>0, <2>1 DEF WriteFailed, NoPayout
  <2>3. \A q \in Returns : clawback'[q].status =
          IF q \in payout[p].absorbed THEN "PENDING" ELSE clawback[q].status
    BY <1>0, <1>7, <2>0 DEF WriteFailed, ReleaseClawbacks, Become
  <2>4. ItemsApart'
    BY <2>2 DEF ItemsApart, Live
  <2>5. ClerksKnow'
    BY <1>0, <2>1, <2>2, ClerkFacts DEF ClerksKnow, Off
  <2>6. PaidListed'
    <3> SUFFICES ASSUME NEW s \in Slices, NEW o \in paidFor[s] \ overlap'
                 PROVE  payout'[o].status = "PAID" /\ s \in payout'[o].items
      BY <2>1 DEF PaidListed
    <3>1. overlap \subseteq overlap' /\ (Closed(p) => p \in overlap')
      BY <1>7, <2>0 DEF WriteFailed, NoteOverlap
    <3>2. payout[o].status = "PAID" /\ s \in payout[o].items /\ o \in Payouts
      BY <1>0, <3>1 DEF PaidListed
    <3>3. o # p
      BY <3>1, <3>2 DEF Closed
    <3> QED BY <2>2, <3>2, <3>3
  <2>7. ClawbacksApart'
    <3>1. \A q \in Returns : Absorbed(q)' <=> Absorbed(q) /\ q \notin payout[p].absorbed
      BY <2>1, <2>2 DEF Absorbed, ClawbacksApart
    <3> QED BY <2>1, <2>2, <2>3, <3>1 DEF ClawbacksApart, Live
  <2> QED BY <2>4, <2>5, <2>6, <2>7
<1>8. CASE UNCHANGED settlementVars
  BY <1>1, <1>8 DEF settlementVars, returnVars, payoutVars, ClerksKnow
<1> QED BY <1>2, <1>3, <1>4, <1>5, <1>6, <1>7, <1>8 DEF SettlementNext, Clerical

\* They are in order first,
LEMMA InitBooks == PayoutsInit => BooksInv
<1> SUFFICES ASSUME PayoutsInit PROVE BooksInv
  OBVIOUS
<1>1. AloneInv
  BY InitAlone
<1>2. Books
  BY DEF PayoutsInit, ReturnsInit, Books, ItemsApart, ClerksKnow, PaidListed, ClawbacksApart,
         Absorbed, NoPayout, Off, NoClawback
<1> QED BY <1>1, <1>2 DEF BooksInv

\* and their invariant is inductive.
LEMMA StepBooks == BooksInv /\ [SettlementNext]_settlementVars => BooksInv'
BY BooksKept, StepAlone DEF BooksInv

\* A set whose members are all the same has at most one.
LEMMA AtMostOne ==
  ASSUME NEW S, \A x, y \in S : x = y
  PROVE  Cardinality(S) =< 1
<1>1. CASE S = {}
  BY <1>1, FS_EmptySet
<1>2. ASSUME NEW x \in S PROVE Cardinality(S) =< 1
  <2>1. S = {x}
    OBVIOUS
  <2> QED BY <2>1, FS_Singleton
<1> QED BY <1>1, <1>2

\* Payouts that share no slice pay none twice.
LEMMA BooksPaidOnce == BooksInv => PaidOnce
<1> SUFFICES ASSUME BooksInv, NEW s \in Slices, paidFor[s] \cap overlap = {}
             PROVE  Cardinality(paidFor[s]) =< 1
  BY DEF PaidOnce
<1>1. paidFor[s] \subseteq Payouts
  BY DEF BooksInv, AloneInv, TypeInv, PayoutsTyped
<1>2. \A p, o \in paidFor[s] : p = o
  BY <1>1 DEF BooksInv, Books, PaidListed, ItemsApart
<1> QED BY <1>2, AtMostOne

\* Payouts that share no clawback absorb each once.
LEMMA BooksApplied == BooksInv => AppliedIsLive
<1> SUFFICES ASSUME BooksInv, NEW q \in Returns
             PROVE  Cardinality({p \in Payouts : Live(p) /\ q \in payout[p].absorbed}) =
                      IF clawback[q].status = "APPLIED" THEN 1 ELSE 0
  BY DEF AppliedIsLive
<1> DEFINE by == {p \in Payouts : Live(p) /\ q \in payout[p].absorbed}
<1>1. by = {p \in Payouts : q \in payout[p].absorbed}
  BY DEF BooksInv, Books, ClawbacksApart
<1>2. CASE clawback[q].status = "APPLIED"
  <2>1. PICK p \in Payouts : q \in payout[p].absorbed
    BY <1>2 DEF BooksInv, Books, ClawbacksApart, Absorbed
  <2>2. by = {p}
    BY <1>1, <2>1 DEF BooksInv, Books, ClawbacksApart
  <2> QED BY <1>2, <2>2, FS_Singleton
<1>3. CASE clawback[q].status # "APPLIED"
  <2>1. by = {}
    BY <1>1, <1>3 DEF BooksInv, Books, ClawbacksApart, Absorbed
  <2> QED BY <1>3, <2>1, FS_EmptySet
<1> QED BY <1>2, <1>3

\* A seller is paid once for a slice, unless two clerks closed one payout at once.
THEOREM SettlementPaysOnce == SettlementSpec => []PaidOnce
<1>1. BooksInv => PaidOnce
  BY BooksPaidOnce
<1> QED BY <1>1, InitBooks, StepBooks, PTL DEF SettlementSpec

\* A clawback is APPLIED exactly where one payout that may still be disbursed absorbed it.
THEOREM SettlementAppliesOnce == SettlementSpec => []AppliedIsLive
<1>1. BooksInv => AppliedIsLive
  BY BooksApplied
<1> QED BY <1>1, InitBooks, StepBooks, PTL DEF SettlementSpec

-----------------------------------------------------------------------------
On(s) == {q \in Returns : ret[q].slice = s}
ProcessedOn(s) == {r \in RefundsOn(s) : refSt[r] = "PROCESSED"}

PaidLate ==
  \A w \in Workers : wtask[w].do \in {"pay", "finalize"} /\ wtask[w].ret \notin doubled =>
    refSt[wtask[w].refund] # "PROCESSED"

ClawbacksClosed ==
  \A q \in Returns : clawback[q] # NoClawback =>
    retSt[q] = "REFUNDED" /\ clawback[q].status # "none"

DoubledLoose == \A q \in doubled : retSt[q] # "none" /\ ret[q].slice \in loose

Tight(q) ==
  /\ retSt[q] = "REFUNDED" => link[q] # 0 /\ refSt[link[q]] = "PROCESSED"
  /\ clawback[q] # NoClawback =>
       ret[q].slice \in settled /\ clawback[q].amount = refOf[link[q]].amount
  /\ \A w \in Workers : Completes(w, q) /\ wtask[w].do # "idle" /\ wtask[w].seen =>
       ret[q].slice \in settled

TightReturns == \A q \in Returns : ret[q].slice \notin loose => Tight(q)
TightItems == \A p \in Payouts : payout[p].items \ loose \subseteq settled

NettedBy(p, s, B) ==
  /\ B \subseteq ProcessedOn(s) /\ SumOver(B) = payout[p].netted[s]
  /\ \A q \in On(s) : retSt[q] = "REFUNDED" => (link[q] \in B <=> clawback[q] = NoClawback)
  /\ \A w \in Workers :
       wtask[w].do = "close" /\ wtask[w].ret \in On(s) /\ wtask[w].seen
         /\ retSt[wtask[w].ret] = "QC_PASSED" => wtask[w].refund \notin B

Netted == \A p \in Payouts : \A s \in payout[p].items \ loose : \E B : NettedBy(p, s, B)

Recovery == PaidLate /\ ClawbacksClosed /\ DoubledLoose /\ TightReturns /\ TightItems /\ Netted
RecoveryInv == BooksInv /\ Recovery

-----------------------------------------------------------------------------
\* The histories only grow.
LEMMA HistoriesGrow ==
  ASSUME SettlementNext \/ UNCHANGED settlementVars
  PROVE  doubled \subseteq doubled' /\ loose \subseteq loose'
<1>1. CASE ReturnsNext
  BY <1>1 DEF ReturnsNext, Customer, Handling, RequestReturn, Move, ApproveReturn, RejectReturn,
       SchedulePickup, ReverseScan, ReceiveReturn, QcFail, QcPass, ShipReplacement,
       ApproveReplacement, Resume, Complete, CompleteReturn, FindLinkedRefund, ReserveRefund,
       PayRefund, FinalizeReturnRefund, CloseReturn, AbandonReturn, RefundConfirmed
<1>2. ASSUME NEW c \in Clerks, Clerical(c)
      PROVE  doubled \subseteq doubled' /\ loose \subseteq loose'
  BY <1>2 DEF Clerical, PreviewItems, PreviewClawbacks, CommitRun, BookRun, ReadPayout, WritePaid,
       WriteFailed, returnVars
<1>3. CASE UNCHANGED settlementVars
  BY <1>3 DEF settlementVars, returnVars
<1> QED BY <1>1, <1>2, <1>3 DEF SettlementNext

\* What a step of a return may do to the rows...
Finished(r) == refSt[r] = "PROCESSED"

RowsStand ==
  \A r \in Refunds : refSt[r] # "none" =>
    /\ refSt'[r] # "none" /\ refOf'[r] = refOf[r]
    /\ ret'[refOf[r].ret] = ret[refOf[r].ret]
    /\ Finished(r) => Finished(r)'

\* ... to a return: nothing that counts, a request, or its completion by w...
SameReturn(q) ==
  /\ ret'[q] = ret[q] /\ clawback'[q] = clawback[q]
  /\ retSt[q] = "REFUNDED" <=> retSt'[q] = "REFUNDED"
  /\ retSt[q] = "REFUNDED" => link'[q] = link[q]

Blank(q) == retSt[q] = "none" /\ clawback'[q] = clawback[q] /\ retSt'[q] # "REFUNDED"

Won(w, q) ==
  /\ wtask[w].do = "close" /\ Completes(w, q) /\ retSt[q] = "QC_PASSED"
  /\ wtask[w].seen <=> ret[q].slice \in settled
  /\ Finished(wtask[w].refund)
  /\ ret'[q] = ret[q] /\ retSt'[q] = "REFUNDED" /\ link'[q] = wtask[w].refund
  /\ IF wtask[w].seen
     THEN /\ clawback'[q] # NoClawback
          /\ clawback'[q].amount = refOf[wtask[w].refund].amount
     ELSE clawback'[q] = NoClawback

\* ... and to a task: nothing, or the next one.
SameTask(w) ==
  /\ wtask'[w] = wtask[w] /\ ret'[wtask[w].ret] = ret[wtask[w].ret]
  /\ retSt'[wtask[w].ret] = "QC_PASSED" => retSt[wtask[w].ret] = "QC_PASSED"

NextTask(w) ==
  /\ wtask'[w].seen => ret'[wtask'[w].ret].slice \in settled
  /\ wtask'[w].do = "close" /\ wtask'[w].seen => ~ Finished(wtask'[w].refund)

\* What the invariant says of the rows' types.
LEMMA RecoveryTyped ==
  ASSUME BooksInv
  PROVE  /\ TypeInv /\ ReturnsInv
         /\ \A q \in Returns : link[q] \in Refunds \cup {0}
         /\ \A q \in Returns : ret[q].slice \in Slices
         /\ \A w \in Workers : wtask[w].do # "idle" =>
              wtask[w].ret \in Returns /\ Refundable(wtask[w].ret)
         /\ \A w \in Workers : wtask[w].do \in Closing =>
              /\ wtask[w].refund \in Refunds /\ refSt[wtask[w].refund] # "none"
              /\ refOf[wtask[w].refund].ret = wtask[w].ret
<1>1. TypeInv /\ ReturnsInv
  BY DEF BooksInv, AloneInv, TypeInv
<1>2. /\ \A q \in Returns : link[q] \in Refunds \cup {0}
      /\ \A q \in Returns : ret[q].slice \in Slices
  BY <1>1, Bounds DEF ReturnsInv, ReturnsTypeOK
<1> QED BY <1>1, <1>2, WorkFacts

\* Existing rows keep a set of processed refunds, and what it comes to.
LEMMA NettedStands ==
  ASSUME BooksInv, RowsStand, NEW s \in Slices, NEW B \in SUBSET ProcessedOn(s)
  PROVE  B \subseteq ProcessedOn(s)' /\ SumOver(B)' = SumOver(B)
<1>1. B \subseteq ProcessedOn(s)'
  BY DEF RowsStand, ProcessedOn, RefundsOn, Finished
<1>2. PICK f, g : f = Amounts /\ g = Amounts'
  OBVIOUS
<1>3. B \in SUBSET Refunds /\ \A r \in B : f[r] = g[r]
  BY <1>2 DEF RowsStand, ProcessedOn, RefundsOn, Amounts
<1>4. IsFiniteSet(B)
  BY <1>3, Bounds
<1>5. SumFunctionOnSet(f, B) = SumFunctionOnSet(g, B)
  BY <1>3, <1>4, SumSame
<1> QED BY <1>1, <1>2, <1>5 DEF SumOver

\* A step of the returns recovers what it did, if what it changed is one of these.
LEMMA ReturnsRecover ==
  ASSUME RecoveryInv, BooksInv', UNCHANGED <<payout, settled>>, loose \subseteq loose', RowsStand,
         \A q \in Returns : ret'[q].slice \notin loose' =>
           SameReturn(q) \/ Blank(q) \/ \E w \in Workers : Won(w, q),
         \A w \in Workers : wtask'[w].do # "idle" /\ ret'[wtask'[w].ret].slice \notin loose' =>
           SameTask(w) \/ NextTask(w)
  PROVE  TightReturns' /\ TightItems' /\ Netted'
<1> USE DEF RecoveryInv, Recovery
<1>1. TightReturns'
  <2> SUFFICES ASSUME NEW q \in Returns, ret'[q].slice \notin loose' PROVE Tight(q)'
    BY DEF TightReturns
  <2>1. ASSUME NEW w \in Workers, Completes(w, q)', wtask'[w].do # "idle", wtask'[w].seen,
               SameTask(w) => ret[q].slice \notin loose
        PROVE  ret'[q].slice \in settled'
    <3>1. CASE SameTask(w)
      <4>1. Completes(w, q) /\ wtask[w].do # "idle" /\ wtask[w].seen /\ ret'[q] = ret[q]
        BY <2>1, <3>1 DEF SameTask, Completes
      <4> QED BY <2>1, <3>1, <4>1 DEF TightReturns, Tight
    <3>2. CASE NextTask(w)
      BY <2>1, <3>2 DEF NextTask, Completes
    <3> QED BY <2>1, <3>1, <3>2 DEF Completes
  <2>2. CASE SameReturn(q)
    <3>1. Tight(q) /\ ret[q].slice \notin loose
      BY <2>2 DEF SameReturn, TightReturns
    <3>2. retSt[q] = "REFUNDED" => link[q] \in Refunds /\ refSt[link[q]] = "PROCESSED"
      BY <3>1, RecoveryTyped DEF Tight
    <3>3. retSt[q] = "REFUNDED" =>
            /\ link'[q] = link[q] /\ refOf'[link[q]] = refOf[link[q]]
            /\ refSt'[link[q]] = "PROCESSED" /\ link[q] # 0
      BY <2>2, <3>2, Bounds DEF SameReturn, RowsStand, Finished
    <3>4. clawback'[q] # NoClawback =>
            ret'[q].slice \in settled' /\ clawback'[q].amount = refOf'[link'[q]].amount
      BY <2>2, <3>1, <3>3 DEF SameReturn, Tight, ClawbacksClosed
    <3>5. retSt'[q] = "REFUNDED" => link'[q] # 0 /\ refSt'[link'[q]] = "PROCESSED"
      BY <2>2, <3>3 DEF SameReturn
    <3>6. \A w \in Workers : Completes(w, q)' /\ wtask'[w].do # "idle" /\ wtask'[w].seen =>
            ret'[q].slice \in settled'
      BY <2>1, <3>1
    <3> QED BY <3>4, <3>5, <3>6 DEF Tight
  <2>3. CASE Blank(q)
    <3>1. clawback'[q] = NoClawback /\ retSt'[q] # "REFUNDED"
      BY <2>3 DEF Blank, ClawbacksClosed
    <3>2. \A w \in Workers : Completes(w, q) => wtask[w].do = "idle"
      BY <2>3, RecoveryTyped DEF Blank, Completes, Refundable, Passed
    <3>3. \A w \in Workers : Completes(w, q)' /\ wtask'[w].do # "idle" => ~ SameTask(w)
      BY <3>2 DEF SameTask, Completes
    <3>4. \A w \in Workers : Completes(w, q)' /\ wtask'[w].do # "idle" /\ wtask'[w].seen =>
            ret'[q].slice \in settled'
      BY <2>1, <3>3
    <3> QED BY <3>1, <3>4 DEF Tight
  <2>4. ASSUME NEW v \in Workers, Won(v, q) PROVE Tight(q)'
    <3>1. /\ wtask[v].refund \in Refunds /\ refSt[wtask[v].refund] # "none"
          /\ wtask[v].refund # 0
      BY <2>4, RecoveryTyped, Bounds DEF Won, Closing
    <3>2. refSt'[wtask[v].refund] = "PROCESSED"
            /\ refOf'[wtask[v].refund] = refOf[wtask[v].refund]
      BY <2>4, <3>1 DEF Won, RowsStand, Finished
    <3>3. link'[q] # 0 /\ refSt'[link'[q]] = "PROCESSED"
      BY <2>4, <3>1, <3>2 DEF Won
    <3>4. clawback'[q] # NoClawback =>
            ret'[q].slice \in settled' /\ clawback'[q].amount = refOf'[link'[q]].amount
      BY <2>4, <3>2 DEF Won
    <3>5. ret[q].slice \notin loose
      BY <2>4 DEF Won
    <3>6. \A w \in Workers : Completes(w, q)' /\ wtask'[w].do # "idle" /\ wtask'[w].seen =>
            ret'[q].slice \in settled'
      BY <2>1, <3>5
    <3> QED BY <3>3, <3>4, <3>6 DEF Tight
  <2> QED BY <2>2, <2>3, <2>4
<1>2. TightItems'
  BY DEF TightItems
<1>3. Netted'
  <2> SUFFICES ASSUME NEW p \in Payouts, NEW s \in payout'[p].items \ loose'
               PROVE  \E B : NettedBy(p, s, B)'
    BY DEF Netted
  <2>1. PICK B : NettedBy(p, s, B)
    BY DEF Netted
  <2>2. s \in Slices /\ s \in settled
    BY DEF TightItems, BooksInv, AloneInv, TypeInv, PayoutsTyped, PayoutRow
  <2>3. B \subseteq ProcessedOn(s)' /\ SumOver(B)' = payout'[p].netted[s]
    BY <2>1, <2>2, NettedStands DEF NettedBy
  <2>4. ASSUME NEW q \in Returns, ret'[q].slice = s, retSt'[q] = "REFUNDED"
        PROVE  link'[q] \in B <=> clawback'[q] = NoClawback
    <3>1. CASE SameReturn(q)
      BY <2>1, <2>4, <3>1 DEF SameReturn, NettedBy, On
    <3>2. ASSUME NEW w \in Workers, Won(w, q)
          PROVE  link'[q] \in B <=> clawback'[q] = NoClawback
      <4>1. /\ wtask[w].do = "close" /\ wtask[w].ret \in On(s) /\ wtask[w].seen
            /\ retSt[wtask[w].ret] = "QC_PASSED" /\ link'[q] = wtask[w].refund
            /\ clawback'[q] # NoClawback
        BY <2>2, <2>4, <3>2 DEF Won, Completes, On
      <4> QED BY <2>1, <4>1 DEF NettedBy
    <3> QED BY <2>4, <3>1, <3>2 DEF Blank
  <2>5. ASSUME NEW w \in Workers, wtask'[w].do = "close", wtask'[w].ret \in Returns,
               ret'[wtask'[w].ret].slice = s, wtask'[w].seen,
               retSt'[wtask'[w].ret] = "QC_PASSED"
        PROVE  wtask'[w].refund \notin B
    <3>1. CASE SameTask(w)
      BY <2>1, <2>5, <3>1 DEF SameTask, NettedBy, On
    <3>2. CASE NextTask(w)
      BY <2>1, <2>5, <3>2 DEF NextTask, NettedBy, ProcessedOn, Finished
    <3> QED BY <2>5, <3>1, <3>2
  <2> QED BY <2>3, <2>4, <2>5 DEF NettedBy, On
<1> QED BY <1>1, <1>2, <1>3

-----------------------------------------------------------------------------
ReturnStep == ReturnsNext /\ UNCHANGED payoutVars

\* A step of a return, once its own facts are known.
LEMMA RecoveryFrom ==
  ASSUME RecoveryInv, BooksInv', UNCHANGED <<payoutVars, settled>>, loose \subseteq loose',
         doubled \subseteq doubled', RowsStand,
         \A q \in Returns : ret'[q].slice \notin loose' =>
           SameReturn(q) \/ Blank(q) \/ \E w \in Workers : Won(w, q),
         \A w \in Workers : wtask'[w].do # "idle" /\ ret'[wtask'[w].ret].slice \notin loose' =>
           SameTask(w) \/ NextTask(w),
         PaidLate', ClawbacksClosed', DoubledLoose'
  PROVE  Recovery'
<1>1. UNCHANGED <<payout, settled>>
  BY DEF payoutVars
<1>2. TightReturns' /\ TightItems' /\ Netted'
  BY <1>1, ReturnsRecover
<1> QED BY <1>2 DEF Recovery

\* A request for a return does,
LEMMA RequestRecovers ==
  ASSUME RecoveryInv, BooksInv', UNCHANGED payoutVars, NEW q \in Returns, NEW s \in Slices,
         NEW units, NEW kind, RequestReturn(q, s, units, kind)
  PROVE  Recovery'
<1> USE DEF RecoveryInv, Recovery
<1>0. /\ UNCHANGED <<cod, pay, sliceSt, link, refSt, refOf, settled, clawback, doubled, loose,
                     wtask, crashes>>
      /\ retSt[q] = "none"
      /\ retSt' = [retSt EXCEPT ![q] = "REQUESTED"]
      /\ ret' = [ret EXCEPT ![q] = [slice |-> s, units |-> units, kind |-> kind]]
  BY DEF RequestReturn, refundState
<1>1. \A p \in Returns \ {q} : ret'[p] = ret[p] /\ retSt'[p] = retSt[p]
  BY <1>0, RecoveryTyped DEF ReturnsInv, ReturnsTypeOK
<1>2. retSt'[q] = "REQUESTED"
  BY <1>0, RecoveryTyped DEF ReturnsInv, ReturnsTypeOK
<1>3. RowsStand
  <2>1. \A r \in Refunds : refSt[r] # "none" => refOf[r].ret \in Returns \ {q}
    BY <1>0, RecoveryTyped DEF ReturnsInv, RowsLinked, Refundable, Passed
  <2> QED BY <1>0, <1>1, <2>1 DEF RowsStand, Finished
<1>4. \A p \in Returns : SameReturn(p) \/ Blank(p)
  BY <1>0, <1>1, <1>2 DEF SameReturn, Blank
<1>5. \A w \in Workers : wtask[w].do # "idle" => SameTask(w)
  <2>1. \A w \in Workers : wtask[w].do # "idle" => wtask[w].ret \in Returns \ {q}
    BY <1>0, RecoveryTyped DEF Refundable, Passed
  <2> QED BY <1>0, <1>1, <2>1 DEF SameTask
<1>6. PaidLate'
  BY <1>0 DEF PaidLate
<1>7. ClawbacksClosed'
  BY <1>0, <1>1 DEF ClawbacksClosed
<1>8. DoubledLoose'
  <2>1. doubled \subseteq Returns \ {q}
    BY <1>0, RecoveryTyped DEF DoubledLoose, ReturnsInv, ReturnsTypeOK
  <2> QED BY <1>0, <1>1, <2>1 DEF DoubledLoose
<1> QED BY <1>0, <1>3, <1>4, <1>5, <1>6, <1>7, <1>8, RecoveryFrom

\* every move up to the inspection,
LEMMA MoveRecovers ==
  ASSUME RecoveryInv, BooksInv', UNCHANGED payoutVars, NEW q \in Returns, NEW from,
         NEW to \in ReturnStatus \ {"REFUNDED"}, Move(q, from, to), UNCHANGED wtask,
         "REFUNDED" \notin from, "QC_PASSED" \notin from \/ ret[q].kind = "REPLACEMENT"
  PROVE  Recovery'
<1> USE DEF RecoveryInv, Recovery
<1>0. /\ UNCHANGED <<cod, pay, sliceSt, link, refSt, refOf, settled, ret, clawback, doubled,
                     loose, wtask, crashes>>
      /\ retSt[q] \in from /\ retSt' = [retSt EXCEPT ![q] = to]
  BY DEF Move, refundState
<1>1. /\ \A p \in Returns \ {q} : retSt'[p] = retSt[p]
      /\ retSt'[q] = to /\ to # "none" /\ retSt[q] # "REFUNDED" /\ ~ Refundable(q)
  BY <1>0, RecoveryTyped DEF ReturnsInv, ReturnsTypeOK, ReturnStatus, Refundable, Passed
<1>2. RowsStand
  BY <1>0 DEF RowsStand, Finished
<1>3. \A p \in Returns : SameReturn(p)
  BY <1>0, <1>1 DEF SameReturn
<1>4. \A w \in Workers : wtask[w].do # "idle" => SameTask(w)
  BY <1>0, <1>1, RecoveryTyped DEF SameTask
<1>5. PaidLate'
  BY <1>0 DEF PaidLate
<1>6. ClawbacksClosed'
  BY <1>0, <1>1 DEF ClawbacksClosed
<1>7. DoubledLoose'
  BY <1>0, <1>1, RecoveryTyped DEF DoubledLoose, ReturnsInv, ReturnsTypeOK
<1> QED BY <1>0, <1>2, <1>3, <1>4, <1>5, <1>6, <1>7, RecoveryFrom

\* A worker's step that touches no row.
LEMMA TurnRecovers ==
  ASSUME RecoveryInv, BooksInv', UNCHANGED payoutVars, NEW w \in Workers, NEW t, Go(w, t),
         UNCHANGED <<refundState, settled, retSt, ret, clawback>>,
         doubled \subseteq doubled', loose \subseteq loose',
         t.do # "idle" /\ ret[t.ret].slice \notin loose' =>
           /\ t.seen => ret[t.ret].slice \in settled
           /\ t.do = "close" => ~ Finished(t.refund),
         t.do \in {"pay", "finalize"} => ~ Finished(t.refund),
         \A q \in doubled' : retSt[q] # "none" /\ ret[q].slice \in loose'
  PROVE  Recovery'
<1> USE DEF RecoveryInv, Recovery
<1>0. /\ UNCHANGED <<cod, pay, sliceSt, link, refSt, refOf, settled, retSt, ret, clawback>>
      /\ wtask'[w] = t /\ \A v \in Workers \ {w} : wtask'[v] = wtask[v]
  BY RecoveryTyped DEF refundState, Go, ReturnsInv, ReturnsTypeOK
<1>1. RowsStand
  BY <1>0 DEF RowsStand, Finished
<1>2. \A q \in Returns : SameReturn(q)
  BY <1>0 DEF SameReturn
<1>3. \A v \in Workers \ {w} : SameTask(v)
  BY <1>0 DEF SameTask
<1>4. t.do # "idle" /\ ret[t.ret].slice \notin loose' => NextTask(w)
  BY <1>0 DEF NextTask
<1>5. \A v \in Workers : wtask'[v].do # "idle" /\ ret'[wtask'[v].ret].slice \notin loose' =>
         SameTask(v) \/ NextTask(v)
  BY <1>0, <1>3, <1>4
<1>6. PaidLate'
  BY <1>0 DEF PaidLate, Finished
<1>7. ClawbacksClosed' /\ DoubledLoose'
  BY <1>0 DEF ClawbacksClosed, DoubledLoose
<1> QED BY <1>0, <1>1, <1>2, <1>5, <1>6, <1>7, RecoveryFrom

\* a completion that begins, and
LEMMA CompleteRecovers ==
  ASSUME RecoveryInv, BooksInv', UNCHANGED payoutVars, NEW w \in Workers, NEW q \in Returns,
         CompleteReturn(w, q)
  PROVE  Recovery'
<1>1. PICK t : t = [do |-> "refund", ret |-> q, seen |-> Settled(q)]
  OBVIOUS
<1>2. /\ Go(w, t) /\ UNCHANGED <<refundState, settled, retSt, ret, clawback>>
      /\ retSt[q] = "QC_PASSED"
      /\ doubled' = IF Completing(q) THEN doubled \cup {q} ELSE doubled
      /\ loose' = IF Completing(q) THEN loose \cup {ret[q].slice} ELSE loose
  BY <1>1 DEF CompleteReturn, Take, Go
<1>3. doubled \subseteq doubled' /\ loose \subseteq loose'
  BY <1>2
<1>4. t.ret = q /\ (t.seen => ret[q].slice \in settled) /\ t.do \notin {"close", "pay", "finalize"}
  BY <1>1 DEF Settled
<1>5. \A p \in doubled' : retSt[p] # "none" /\ ret[p].slice \in loose'
  BY <1>2 DEF RecoveryInv, Recovery, DoubledLoose
<1> QED BY <1>2, <1>3, <1>4, <1>5, TurnRecovers

\* What a task at work has seen of its slice's payout, while they have not raced.
LEMMA SeenSettled ==
  ASSUME RecoveryInv, NEW w \in Workers, wtask[w].do # "idle", wtask[w].seen,
         ret[wtask[w].ret].slice \notin loose
  PROVE  ret[wtask[w].ret].slice \in settled
<1>1. wtask[w].ret \in Returns
  BY RecoveryTyped DEF RecoveryInv
<1> QED BY <1>1 DEF RecoveryInv, Recovery, TightReturns, Tight, Completes

\* one that looks for its refund,
LEMMA FindRecovers ==
  ASSUME RecoveryInv, BooksInv', UNCHANGED payoutVars, NEW w \in Workers, FindLinkedRefund(w)
  PROVE  Recovery'
<1> DEFINE t == wtask[w]
           q == wtask[w].ret
<1>0. ReturnsInv
  BY RecoveryTyped DEF RecoveryInv
<1>1. /\ t.do = "refund"
      /\ UNCHANGED <<refundState, settled, retSt, ret, clawback>>
      /\ doubled \subseteq doubled' /\ loose \subseteq loose' /\ doubled' = doubled
      /\ loose' = loose
  BY DEF FindLinkedRefund
<1>2. \A p \in doubled' : retSt[p] # "none" /\ ret[p].slice \in loose'
  BY <1>1 DEF RecoveryInv, Recovery, DoubledLoose
<1>3. t.seen /\ ret[q].slice \notin loose' => ret[q].slice \in settled
  BY <1>1, SeenSettled
<1>4. pay = "CAPTURED" => \A r \in Refunds : ~ Finished(r)
  BY <1>0 DEF ReturnsInv, WithinCapture, RefundsIn, Finished
<1>5. CASE Go(w, Waiting)
  BY <1>1, <1>2, <1>5, TurnRecovers DEF Waiting
<1>6. ASSUME NEW do \in {"close", "pay"}, link[q] \in Refunds, pay = "CAPTURED",
             Go(w, [do |-> do, ret |-> q, seen |-> t.seen, refund |-> link[q]])
      PROVE  Recovery'
  <2>1. PICK u : u = [do |-> do, ret |-> q, seen |-> t.seen, refund |-> link[q]]
    OBVIOUS
  <2>2. u.ret = q /\ u.seen = t.seen /\ ~ Finished(u.refund)
    BY <1>4, <1>6, <2>1
  <2>3. u.do # "idle" /\ ret[u.ret].slice \notin loose' =>
          /\ u.seen => ret[u.ret].slice \in settled
          /\ u.do = "close" => ~ Finished(u.refund)
    BY <1>3, <2>2
  <2> QED BY <1>1, <1>2, <1>6, <2>1, <2>2, <2>3, TurnRecovers
<1>7. ASSUME NEW n \in Nat, Go(w, [do |-> "create", ret |-> q, seen |-> t.seen, amount |-> n])
      PROVE  Recovery'
  <2>1. PICK u : u = [do |-> "create", ret |-> q, seen |-> t.seen, amount |-> n]
    OBVIOUS
  <2>2. u.ret = q /\ u.seen = t.seen /\ u.do = "create"
    BY <2>1
  <2>3. u.do # "idle" /\ ret[u.ret].slice \notin loose' =>
          /\ u.seen => ret[u.ret].slice \in settled
          /\ u.do = "close" => ~ Finished(u.refund)
    BY <1>3, <2>2
  <2> QED BY <1>1, <1>2, <1>7, <2>1, <2>2, <2>3, TurnRecovers
<1> QED BY <1>0, <1>5, <1>6, <1>7, Found

\* stops,
LEMMA AbandonRecovers ==
  ASSUME RecoveryInv, BooksInv', UNCHANGED payoutVars, NEW w \in Workers, AbandonReturn(w)
  PROVE  Recovery'
<1>1. /\ UNCHANGED <<refundState, settled, retSt, ret, clawback>> /\ doubled' = doubled
      /\ loose \subseteq loose' /\ Go(w, Waiting)
  BY DEF AbandonReturn
<1>2. \A p \in doubled' : retSt[p] # "none" /\ ret[p].slice \in loose'
  BY <1>1 DEF RecoveryInv, Recovery, DoubledLoose
<1> QED BY <1>1, <1>2, TurnRecovers DEF Waiting

\* reserves its refund,
LEMMA ReserveRecovers ==
  ASSUME RecoveryInv, BooksInv', UNCHANGED payoutVars, NEW w \in Workers, ReserveRefund(w)
  PROVE  Recovery'
<1> USE DEF RecoveryInv, Recovery
<1> DEFINE t == wtask[w]
<1>0. /\ ReturnsInv /\ ReturnsTypeOK
      /\ t.do = "create" /\ t.ret \in Returns
      /\ UNCHANGED <<settled, retSt, ret, clawback, doubled, loose>>
  BY RecoveryTyped, Reserved DEF ReturnsInv
<1>1. PICK r \in Refunds, do \in {"close", "pay"} :
        /\ refSt[r] = "none"
        /\ refSt' = [refSt EXCEPT ![r] = "REQUESTED"]
        /\ refOf' = [refOf EXCEPT ![r] = [ret |-> t.ret, amount |-> t.amount]]
        /\ link' = [link EXCEPT ![t.ret] = r]
        /\ Go(w, [do |-> do, ret |-> t.ret, seen |-> t.seen, refund |-> r])
  BY <1>0, Reserved
<1>2. PICK u : u = [do |-> do, ret |-> t.ret, seen |-> t.seen, refund |-> r]
  OBVIOUS
<1>3. wtask'[w] = u /\ \A v \in Workers \ {w} : wtask'[v] = wtask[v]
  BY <1>0, <1>1, <1>2 DEF Go, ReturnsTypeOK
<1>4. /\ \A p \in Refunds \ {r} : refSt'[p] = refSt[p] /\ refOf'[p] = refOf[p]
      /\ refSt'[r] = "REQUESTED"
      /\ \A q \in Returns : q # t.ret => link'[q] = link[q]
  BY <1>0, <1>1 DEF ReturnsTypeOK
<1>5. RowsStand
  BY <1>0, <1>1, <1>4 DEF RowsStand, Finished
<1>6. \A q \in Returns : ret'[q].slice \notin loose' => SameReturn(q)
  <2>1. ret[t.ret].slice \notin loose => retSt[t.ret] # "REFUNDED"
    <3>1. ret[t.ret].slice \notin loose => t.ret \notin doubled
      BY DEF DoubledLoose
    <3>2. t.ret \notin doubled => link[t.ret] = 0
      BY <1>0 DEF BooksInv, AloneInv, OneCompletion, Alone, Completes
    <3> QED BY <1>0, <3>1, <3>2 DEF TightReturns, Tight
  <2> QED BY <1>0, <1>4, <2>1 DEF SameReturn
<1>7. \A v \in Workers \ {w} : SameTask(v)
  BY <1>0, <1>3 DEF SameTask
<1>8. ret'[u.ret].slice \notin loose' => NextTask(w)
  <2>1. u.ret = t.ret /\ u.seen = t.seen /\ ~ Finished(u.refund)
    BY <1>1, <1>2 DEF Finished
  <2>2. t.seen /\ ret[t.ret].slice \notin loose => ret[t.ret].slice \in settled
    BY <1>0, SeenSettled
  <2> QED BY <1>0, <1>3, <2>1, <2>2 DEF NextTask
<1>9. \A v \in Workers : wtask'[v].do # "idle" /\ ret'[wtask'[v].ret].slice \notin loose' =>
         SameTask(v) \/ NextTask(v)
  BY <1>3, <1>7, <1>8
<1>10. PaidLate'
  <2>1. refSt'[u.refund] # "PROCESSED"
    BY <1>2, <1>4
  <2>2. \A v \in Workers : wtask[v].do \in {"pay", "finalize"} =>
          refSt'[wtask[v].refund] = refSt[wtask[v].refund]
    BY <1>1, <1>4, RecoveryTyped DEF Closing
  <2> QED BY <1>0, <1>3, <2>1, <2>2 DEF PaidLate
<1>11. ClawbacksClosed' /\ DoubledLoose'
  BY <1>0 DEF ClawbacksClosed, DoubledLoose
<1>12. UNCHANGED <<payoutVars, settled>> /\ loose \subseteq loose' /\ doubled \subseteq doubled'
  BY <1>0
<1> QED BY <1>5, <1>6, <1>9, <1>10, <1>11, <1>12, RecoveryFrom

-----------------------------------------------------------------------------
\* has it paid,
LEMMA PayRecovers ==
  ASSUME RecoveryInv, BooksInv', UNCHANGED payoutVars, NEW w \in Workers, PayRefund(w)
  PROVE  Recovery'
<1> USE DEF RecoveryInv, Recovery
<1> DEFINE t == wtask[w]
           r == wtask[w].refund
<1>0. /\ ReturnsInv /\ ReturnsTypeOK /\ t \in ReturnTask
      /\ t.do = "pay" /\ t.do \in Closing /\ t.ret \in Returns /\ r \in Refunds
      /\ UNCHANGED <<link, refOf, settled, retSt, ret, clawback, doubled, loose>>
  BY RecoveryTyped, WorkFacts, Paid DEF ReturnsInv, Closing
<1>1. t.ret \notin doubled => ~ Finished(r)
  BY <1>0 DEF PaidLate, Finished
<1>2. ret[t.ret].slice \notin loose => t.ret \notin doubled
  BY DEF DoubledLoose
<1>3. \E st : refSt' = [refSt EXCEPT ![r] = st] /\ (st = "PROCESSED" <=> Finished(r))
                                              /\ st # "none"
  <2>1. refSt = [refSt EXCEPT ![r] = refSt[r]] /\ refSt[r] # "none"
    BY <1>0, Paid DEF ReturnsTypeOK
  <2> QED BY <1>0, <2>1, Paid DEF Finished
<1>4. /\ \A p \in Refunds : refSt[p] # "none" => refSt'[p] # "none"
      /\ \A p \in Refunds : refSt'[p] = "PROCESSED" <=> refSt[p] = "PROCESSED"
  BY <1>0, <1>3 DEF ReturnsTypeOK, Finished
<1>5. RowsStand
  BY <1>0, <1>4 DEF RowsStand, Finished
<1>6. \A q \in Returns : SameReturn(q)
  BY <1>0 DEF SameReturn
<1>7. PICK u : /\ Go(w, u) /\ (u.do # "idle" => u.ret = t.ret /\ u.seen = t.seen /\ u.refund = r)
               /\ u.do # "pay"
  <2>1. CASE Go(w, Waiting)
    BY <2>1 DEF Waiting
  <2>2. ASSUME NEW do \in Closing \ {"pay"}, Go(w, [t EXCEPT !.do = do])
        PROVE  \E v : /\ Go(w, v)
                      /\ (v.do # "idle" => v.ret = t.ret /\ v.seen = t.seen /\ v.refund = r)
                      /\ v.do # "pay"
    <3>1. PICK v : v = [t EXCEPT !.do = do]
      OBVIOUS
    <3>2. v.do = do /\ v.ret = t.ret /\ v.seen = t.seen /\ v.refund = r
      BY <1>0, <3>1, TaskTurned
    <3>3. Go(w, v)
      BY <2>2, <3>1
    <3> QED BY <3>2, <3>3
  <2> QED BY <1>0, <2>1, <2>2, Paid
<1>8. wtask'[w] = u /\ \A v \in Workers \ {w} : wtask'[v] = wtask[v]
  BY <1>0, <1>7 DEF Go, ReturnsTypeOK
<1>9. \A v \in Workers \ {w} : SameTask(v)
  BY <1>0, <1>8 DEF SameTask
<1>10. u.do # "idle" /\ ret'[u.ret].slice \notin loose' => NextTask(w)
  <2>1. t.seen /\ ret[t.ret].slice \notin loose => ret[t.ret].slice \in settled
    BY <1>0, SeenSettled
  <2> QED BY <1>0, <1>1, <1>2, <1>7, <1>8, <2>1 DEF NextTask
<1>11. \A v \in Workers : wtask'[v].do # "idle" /\ ret'[wtask'[v].ret].slice \notin loose' =>
         SameTask(v) \/ NextTask(v)
  BY <1>8, <1>9, <1>10
<1>12. PaidLate'
  <2>1. u.do # "idle" /\ u.ret \notin doubled => ~ Finished(u.refund)
    BY <1>1, <1>7
  <2>2. \A v \in Workers : wtask[v].do \in {"pay", "finalize"} => wtask[v].refund \in Refunds
    BY RecoveryTyped DEF Closing
  <2>3. u.do # "idle" => u.refund \in Refunds
    BY <1>0, <1>7
  <2> QED BY <1>0, <1>4, <1>8, <2>1, <2>2, <2>3 DEF PaidLate, Finished
<1>13. ClawbacksClosed' /\ DoubledLoose'
  BY <1>0 DEF ClawbacksClosed, DoubledLoose
<1>14. UNCHANGED <<payoutVars, settled>> /\ loose \subseteq loose' /\ doubled \subseteq doubled'
  BY <1>0
<1> QED BY <1>5, <1>6, <1>11, <1>12, <1>13, <1>14, RecoveryFrom

\* A refund is finalized that no other completion is about to pay.
LEMMA FinalizeRecovers ==
  ASSUME RecoveryInv, BooksInv', UNCHANGED payoutVars, NEW r \in Refunds, refSt[r] # "none",
         Finalize(r), UNCHANGED <<settled, retSt, ret, clawback, doubled, loose>>,
         \A w \in Workers : wtask'[w].do # "idle" /\ ret'[wtask'[w].ret].slice \notin loose' =>
           SameTask(w) \/ NextTask(w),
         \A w \in Workers : wtask'[w].do \in {"pay", "finalize"} =>
           /\ wtask'[w] = wtask[w]
           /\ wtask[w].refund # r \/ wtask[w].ret \in doubled
  PROVE  Recovery'
<1> USE DEF RecoveryInv, Recovery
<1>1. /\ refSt' = [refSt EXCEPT ![r] = "PROCESSED"] /\ UNCHANGED <<link, refOf>>
      /\ ReturnsTypeOK
  BY RecoveryTyped, Finalized DEF ReturnsInv
<1>2. RowsStand
  BY <1>1 DEF RowsStand, Finished, ReturnsTypeOK
<1>3. \A q \in Returns : SameReturn(q)
  BY <1>1 DEF SameReturn
<1>4. PaidLate'
  <2>1. \A w \in Workers : wtask[w].do \in {"pay", "finalize"} => wtask[w].refund \in Refunds
    BY RecoveryTyped DEF Closing
  <2> QED BY <1>1, <2>1 DEF PaidLate, ReturnsTypeOK
<1>5. ClawbacksClosed' /\ DoubledLoose'
  BY DEF ClawbacksClosed, DoubledLoose
<1>6. UNCHANGED <<payoutVars, settled>> /\ loose \subseteq loose' /\ doubled \subseteq doubled'
  OBVIOUS
<1> QED BY <1>2, <1>3, <1>4, <1>5, <1>6, RecoveryFrom

\* finalizes it,
LEMMA FinalizeReturnRecovers ==
  ASSUME RecoveryInv, BooksInv', UNCHANGED payoutVars, NEW w \in Workers,
         FinalizeReturnRefund(w)
  PROVE  Recovery'
<1> USE DEF RecoveryInv, Recovery
<1> DEFINE t == wtask[w]
           r == wtask[w].refund
<1>0. /\ ReturnsInv /\ ReturnsTypeOK /\ t \in ReturnTask
      /\ t.do = "finalize" /\ t.do \in Closing /\ t.ret \in Returns /\ r \in Refunds
      /\ refSt[r] # "none" /\ refOf[r].ret = t.ret
      /\ UNCHANGED <<settled, retSt, ret, clawback, doubled, loose>>
  BY RecoveryTyped, WorkFacts DEF ReturnsInv, Closing, FinalizeReturnRefund
<1>1. t.ret \notin doubled => ~ Finished(r)
  BY <1>0 DEF PaidLate, Finished
<1>2. ret[t.ret].slice \notin loose => t.ret \notin doubled
  BY DEF DoubledLoose
<1>3. PICK u : u = [t EXCEPT !.do = "close"]
  OBVIOUS
<1>4. u.do = "close" /\ u.ret = t.ret /\ u.seen = t.seen /\ u.refund = r
  BY <1>0, <1>3, TaskTurned DEF Closing
<1>5. Go(w, u) /\ (UNCHANGED refundState \/ Finalize(r))
  BY <1>3 DEF FinalizeReturnRefund
<1>6. wtask'[w] = u /\ \A v \in Workers \ {w} : wtask'[v] = wtask[v]
  BY <1>0, <1>5 DEF Go, ReturnsTypeOK
<1>7. t.seen /\ ret[t.ret].slice \notin loose => ret[t.ret].slice \in settled
  BY <1>0, SeenSettled
<1>8. CASE UNCHANGED refundState
  <2>1. u.do # "idle" /\ ret[u.ret].slice \notin loose' =>
          /\ u.seen => ret[u.ret].slice \in settled
          /\ u.do = "close" => ~ Finished(u.refund)
    BY <1>0, <1>1, <1>2, <1>4, <1>7
  <2>2. \A q \in doubled' : retSt[q] # "none" /\ ret[q].slice \in loose'
    BY <1>0 DEF DoubledLoose
  <2> QED BY <1>0, <1>4, <1>5, <1>8, <2>1, <2>2, TurnRecovers
<1>9. CASE Finalize(r)
  <2>1. ret'[u.ret].slice \notin loose' => NextTask(w)
    BY <1>0, <1>1, <1>2, <1>4, <1>6, <1>7 DEF NextTask
  <2>2. \A v \in Workers \ {w} : SameTask(v)
    BY <1>0, <1>6 DEF SameTask
  <2>3. \A v \in Workers : wtask'[v].do # "idle" /\ ret'[wtask'[v].ret].slice \notin loose' =>
          SameTask(v) \/ NextTask(v)
    BY <1>6, <2>1, <2>2
  <2>4. \A v \in Workers : wtask'[v].do \in {"pay", "finalize"} =>
          /\ wtask'[v] = wtask[v]
          /\ wtask[v].refund # r \/ wtask[v].ret \in doubled
    <3> SUFFICES ASSUME NEW v \in Workers, wtask'[v].do \in {"pay", "finalize"}
                 PROVE  wtask'[v] = wtask[v] /\ (wtask[v].refund = r => wtask[v].ret \in doubled)
      OBVIOUS
    <3>1. v # w /\ wtask'[v] = wtask[v]
      BY <1>4, <1>6
    <3>2. wtask[v].refund = r => wtask[v].ret = t.ret
      BY <1>0, <3>1, RecoveryTyped DEF Closing
    <3>3. wtask[v].ret = t.ret => t.ret \in doubled
      BY <1>0, <3>1 DEF BooksInv, AloneInv, OneCompletion, Alone, Completes
    <3> QED BY <3>1, <3>2, <3>3
  <2> QED BY <1>0, <1>9, <2>3, <2>4, FinalizeRecovers
<1> QED BY <1>5, <1>8, <1>9

\* a refund confirmed later,
LEMMA ConfirmRecovers ==
  ASSUME RecoveryInv, BooksInv', UNCHANGED payoutVars, NEW r \in Refunds, RefundConfirmed(r)
  PROVE  Recovery'
<1> USE DEF RecoveryInv, Recovery
<1>0. /\ ReturnsInv /\ ReturnsTypeOK
      /\ UNCHANGED <<settled, retSt, ret, clawback, doubled, loose, wtask>>
      /\ refSt[r] # "none" /\ ~ Finished(r)
      /\ \A w \in Workers : ~ (wtask[w].do \in {"pay", "finalize"} /\ wtask[w].refund = r)
  BY RecoveryTyped DEF RefundConfirmed, ReturnsInv, Finished
<1>1. \A w \in Workers : SameTask(w)
  BY <1>0 DEF SameTask
<1>2. CASE Finalize(r)
  BY <1>0, <1>1, <1>2, FinalizeRecovers
<1>3. CASE /\ refSt' = [refSt EXCEPT ![r] = "FAILED"]
           /\ UNCHANGED <<cod, pay, sliceSt, link, refOf>>
  <2>1. RowsStand
    BY <1>0, <1>3 DEF RowsStand, Finished, ReturnsTypeOK
  <2>2. \A q \in Returns : SameReturn(q)
    BY <1>0, <1>3 DEF SameReturn
  <2>3. PaidLate'
    <3>1. \A w \in Workers : wtask[w].do \in {"pay", "finalize"} => wtask[w].refund \in Refunds
      BY RecoveryTyped DEF Closing
    <3> QED BY <1>0, <1>3, <3>1 DEF PaidLate, ReturnsTypeOK
  <2>4. ClawbacksClosed' /\ DoubledLoose'
    BY <1>0 DEF ClawbacksClosed, DoubledLoose
  <2>5. UNCHANGED <<payoutVars, settled>> /\ loose \subseteq loose' /\ doubled \subseteq doubled'
    BY <1>0
  <2> QED BY <1>1, <2>1, <2>2, <2>3, <2>4, <2>5, RecoveryFrom
<1> QED BY <1>2, <1>3 DEF RefundConfirmed

\* a completion that closes its return and claws back,
LEMMA CloseRecovers ==
  ASSUME RecoveryInv, BooksInv', UNCHANGED payoutVars, NEW w \in Workers, CloseReturn(w)
  PROVE  Recovery'
<1> USE DEF RecoveryInv, Recovery
<1> DEFINE t == wtask[w]
           q == wtask[w].ret
           won == retSt[q] = "QC_PASSED"
<1>0. /\ ReturnsInv /\ ReturnsTypeOK
      /\ t.do = "close" /\ q \in Returns /\ t.seen \in BOOLEAN /\ Refundable(q)
      /\ t.refund \in Refunds
      /\ UNCHANGED <<refSt, refOf, settled, ret, doubled>>
      /\ loose' = IF t.seen # Settled(q) \/ refSt[t.refund] # "PROCESSED"
                  THEN loose \cup {ret[q].slice} ELSE loose
  BY RecoveryTyped, ReturnClosed DEF ReturnsInv
<1>1. /\ retSt' = [retSt EXCEPT ![q] = "REFUNDED"]
      /\ link' = IF won THEN [link EXCEPT ![q] = t.refund] ELSE link
      /\ clawback' = IF won /\ t.seen /\ clawback[q] = NoClawback
                     THEN [clawback EXCEPT ![q] = [status |-> "PENDING",
                                                   amount |-> refOf[t.refund].amount]]
                     ELSE clawback
      /\ Go(w, Waiting)
  BY <1>0, ReturnClosed
<1>2. wtask'[w] = Waiting /\ \A v \in Workers \ {w} : wtask'[v] = wtask[v]
  BY <1>0, <1>1 DEF Go, ReturnsTypeOK
<1>3. /\ \A p \in Returns \ {q} : retSt'[p] = retSt[p] /\ link'[p] = link[p]
                                    /\ clawback'[p] = clawback[p]
      /\ retSt'[q] = "REFUNDED"
  BY <1>0, <1>1 DEF ReturnsTypeOK
<1>4. won => clawback[q] = NoClawback
  BY <1>0 DEF ClawbacksClosed
<1>5. clawback'[q] = clawback[q] \/
        (clawback'[q] = [status |-> "PENDING", amount |-> refOf[t.refund].amount] /\ won /\ t.seen)
  BY <1>0, <1>1 DEF ReturnsTypeOK
<1>6. RowsStand
  BY <1>0 DEF RowsStand, Finished
<1>7. ret'[q].slice \notin loose' => SameReturn(q) \/ Won(w, q)
  <2> SUFFICES ASSUME ret'[q].slice \notin loose' PROVE SameReturn(q) \/ Won(w, q)
    OBVIOUS
  <2>1. (t.seen <=> ret[q].slice \in settled) /\ Finished(t.refund)
    BY <1>0 DEF Settled, Finished
  <2>2. CASE won
    <3>1. link'[q] = t.refund
      BY <1>0, <1>1, <2>2 DEF ReturnsTypeOK
    <3>2. IF t.seen
          THEN clawback'[q] # NoClawback /\ clawback'[q].amount = refOf[t.refund].amount
          ELSE clawback'[q] = NoClawback
      <4>1. CASE t.seen
        <5>1. clawback'[q] = [status |-> "PENDING", amount |-> refOf[t.refund].amount]
          BY <1>0, <1>1, <1>4, <2>2, <4>1 DEF ReturnsTypeOK
        <5> QED BY <4>1, <5>1 DEF NoClawback
      <4>2. CASE ~ t.seen
        BY <1>4, <1>5, <2>2, <4>2
      <4> QED BY <4>1, <4>2
    <3> QED BY <1>0, <1>3, <2>1, <2>2, <3>1, <3>2 DEF Won, Completes
  <2>3. CASE ~ won
    <3>1. retSt[q] = "REFUNDED"
      BY <1>0, <2>3 DEF Refundable, Passed
    <3> QED BY <1>0, <1>1, <1>3, <1>5, <2>3, <3>1 DEF SameReturn
  <2> QED BY <2>2, <2>3
<1>8. \A p \in Returns : ret'[p].slice \notin loose' =>
        SameReturn(p) \/ Blank(p) \/ \E v \in Workers : Won(v, p)
  BY <1>0, <1>3, <1>7 DEF SameReturn
<1>9. \A v \in Workers : wtask'[v].do # "idle" => SameTask(v)
  <2>1. \A v \in Workers \ {w} : wtask[v].do # "idle" => wtask[v].ret \in Returns
    BY RecoveryTyped
  <2> QED BY <1>0, <1>2, <1>3, <2>1 DEF SameTask, Waiting
<1>10. PaidLate'
  BY <1>0, <1>2 DEF PaidLate, Waiting
<1>11. ClawbacksClosed'
  BY <1>3, <1>5 DEF ClawbacksClosed
<1>12. DoubledLoose'
  BY <1>0, <1>3 DEF DoubledLoose, ReturnsTypeOK
<1>13. UNCHANGED <<payoutVars, settled>> /\ loose \subseteq loose' /\ doubled \subseteq doubled'
  BY <1>0
<1> QED BY <1>6, <1>8, <1>9, <1>10, <1>11, <1>12, <1>13, RecoveryFrom

\* and so every step of the returns.
LEMMA ReturnsStepRecovers ==
  ASSUME RecoveryInv, BooksInv', ReturnStep
  PROVE  Recovery'
<1>0. UNCHANGED payoutVars
  BY DEF ReturnStep
<1>1. ASSUME NEW q \in Returns, NEW s \in Slices, NEW kind \in Resolutions,
             NEW units \in 1 .. Bought[s], RequestReturn(q, s, units, kind)
      PROVE  Recovery'
  BY <1>0, <1>1, RequestRecovers
<1>2. ASSUME NEW q \in Returns, Handling(q) \/ ApproveReplacement(q) PROVE Recovery'
  <2>1. ASSUME NEW from, NEW to \in ReturnStatus, Move(q, from, to), UNCHANGED wtask,
               "QC_PASSED" \notin from \/ ret[q].kind = "REPLACEMENT", "REFUNDED" \notin from,
               to # "REFUNDED"
        PROVE  Recovery'
    BY <1>0, <2>1, MoveRecovers
  <2>2. ApproveReturn(q) => Recovery'
    BY <2>1 DEF ApproveReturn, ReturnStatus
  <2>3. RejectReturn(q) => Recovery'
    BY <2>1 DEF RejectReturn, ReturnStatus
  <2>4. SchedulePickup(q) => Recovery'
    BY <2>1 DEF SchedulePickup, ReturnStatus
  <2>5. ReverseScan(q) => Recovery'
    BY <2>1 DEF ReverseScan, ReturnStatus
  <2>6. ReceiveReturn(q) => Recovery'
    BY <2>1 DEF ReceiveReturn, ReturnStatus
  <2>7. QcFail(q) => Recovery'
    BY <2>1 DEF QcFail, ReturnStatus
  <2>8. QcPass(q) => Recovery'
    BY <2>1 DEF QcPass, ReturnStatus
  <2>9. ShipReplacement(q) => Recovery'
    BY <2>1 DEF ShipReplacement, ReturnStatus
  <2>10. ApproveReplacement(q) => Recovery'
    BY <2>1 DEF ApproveReplacement, ReturnStatus
  <2> QED BY <1>2, <2>2, <2>3, <2>4, <2>5, <2>6, <2>7, <2>8, <2>9, <2>10 DEF Handling
<1>3. ASSUME NEW w \in Workers, Resume(w) \/ Complete(w) \/ AbandonReturn(w) PROVE Recovery'
  BY <1>0, <1>3, CompleteRecovers, FindRecovers, ReserveRecovers, PayRecovers,
     FinalizeReturnRecovers, CloseRecovers, AbandonRecovers
  DEF Resume, Complete
<1>4. ASSUME NEW r \in Refunds, RefundConfirmed(r) PROVE Recovery'
  BY <1>0, <1>4, ConfirmRecovers
<1> QED BY <1>1, <1>2, <1>3, <1>4 DEF ReturnStep, ReturnsNext, Customer

-----------------------------------------------------------------------------
\* What a step of the payouts leaves of the returns.
ReturnsStand ==
  /\ UNCHANGED <<refundState, retSt, ret, doubled, wtask, crashes>>
  /\ \A q \in Returns : /\ clawback'[q] = NoClawback <=> clawback[q] = NoClawback
                        /\ clawback'[q].amount = clawback[q].amount
                        /\ clawback'[q].status = "none" <=> clawback[q].status = "none"

\* A step of the payouts recovers, if slices it releases have nothing clawed back.
LEMMA ClericalFrom ==
  ASSUME RecoveryInv, BooksInv', ReturnsStand, loose \subseteq loose', TightItems',
         \A s \in settled \ settled' : s \notin loose' =>
           \A q \in On(s) : clawback[q] = NoClawback /\ ~ Completing(q),
         \A p \in Payouts : \A s \in payout'[p].items \ loose' :
           \/ s \in payout[p].items /\ payout'[p].netted[s] = payout[p].netted[s]
           \/ \E B : NettedBy(p, s, B)'
  PROVE  Recovery'
<1> USE DEF RecoveryInv, Recovery
<1>0. /\ UNCHANGED <<cod, pay, sliceSt, link, refSt, refOf, retSt, ret, doubled, wtask>>
      /\ \A q \in Returns : /\ clawback'[q] = NoClawback <=> clawback[q] = NoClawback
                            /\ clawback'[q].amount = clawback[q].amount
                            /\ clawback'[q].status = "none" <=> clawback[q].status = "none"
  BY DEF ReturnsStand, refundState
<1>1. PaidLate'
  BY <1>0 DEF PaidLate
<1>2. ClawbacksClosed'
  BY <1>0 DEF ClawbacksClosed
<1>3. DoubledLoose'
  BY <1>0 DEF DoubledLoose
<1>4. TightReturns'
  <2> SUFFICES ASSUME NEW q \in Returns, ret[q].slice \notin loose' PROVE Tight(q)'
    BY <1>0 DEF TightReturns
  <2>1. Tight(q)
    BY DEF TightReturns
  <2>2. clawback[q] # NoClawback => ret[q].slice \in settled'
    BY <2>1 DEF Tight, On
  <2>3. \A w \in Workers : Completes(w, q) /\ wtask[w].do # "idle" /\ wtask[w].seen =>
          ret[q].slice \in settled'
    BY <2>1 DEF Tight, On, Completes, Completing
  <2> QED BY <1>0, <2>1, <2>2, <2>3 DEF Tight, Completes
<1>5. Netted'
  <2> SUFFICES ASSUME NEW p \in Payouts, NEW s \in payout'[p].items \ loose'
               PROVE  \E B : NettedBy(p, s, B)'
    BY DEF Netted
  <2>1. CASE s \in payout[p].items /\ payout'[p].netted[s] = payout[p].netted[s]
    <3>1. PICK B : NettedBy(p, s, B)
      BY <2>1 DEF Netted
    <3>2. Amounts' = Amounts /\ ProcessedOn(s)' = ProcessedOn(s) /\ On(s)' = On(s)
      BY <1>0 DEF Amounts, ProcessedOn, RefundsOn, On
    <3>3. NettedBy(p, s, B)'
      BY <1>0, <2>1, <3>1, <3>2 DEF NettedBy, SumOver, On
    <3> QED BY <3>3
  <2> QED BY <2>1
<1> QED BY <1>1, <1>2, <1>3, <1>4, <1>5

\* What a run netted a slice by, when nothing raced, and what it did not.
LEMMA RunNets ==
  ASSUME RecoveryInv, NEW s \in Slices, s \notin settled, s \notin loose
  PROVE  /\ \A q \in On(s) : retSt[q] = "REFUNDED" =>
              link[q] \in ProcessedOn(s) /\ clawback[q] = NoClawback
         /\ \A w \in Workers : wtask[w].do # "idle" /\ wtask[w].ret \in On(s) => ~ wtask[w].seen
<1> USE DEF RecoveryInv, Recovery
<1>1. ASSUME NEW q \in On(s) PROVE q \in Returns /\ ret[q].slice = s /\ Tight(q)
  BY DEF On, TightReturns
<1>2. ASSUME NEW q \in On(s), retSt[q] = "REFUNDED"
      PROVE  link[q] \in ProcessedOn(s) /\ clawback[q] = NoClawback
  <2>1. /\ link[q] # 0 /\ refSt[link[q]] = "PROCESSED" /\ link[q] \in Refunds
        /\ clawback[q] = NoClawback
    BY <1>1, <1>2, RecoveryTyped DEF Tight
  <2>2. refOf[link[q]].ret = q
    BY <1>1, <2>1, RecoveryTyped DEF ReturnsInv, RowsLinked
  <2> QED BY <1>1, <2>1, <2>2 DEF ProcessedOn, RefundsOn
<1>3. \A w \in Workers : wtask[w].do # "idle" /\ wtask[w].ret \in On(s) => ~ wtask[w].seen
  BY <1>1 DEF Tight, Completes
<1> QED BY <1>2, <1>3

\* A run that is booked does,
LEMMA CommitRecovers ==
  ASSUME RecoveryInv, BooksInv', NEW c \in Clerks, clerk[c].do = "commit",
         ~ RunRaced(clerk[c]), NEW p \in Payouts, FreePayout(p), BookRun(clerk[c], p),
         UNCHANGED <<refundState, retSt, ret, doubled, wtask, crashes>>
  PROVE  Recovery'
<1> DEFINE t == clerk[c]
<1>0. /\ t.items \in SUBSET Slices /\ t.absorbed \in SUBSET Returns
      /\ t.items \cap settled = {}
      /\ \A q \in t.absorbed : clawback[q].status = "PENDING"
      /\ \A o \in Payouts \ {p} : payout'[o] = payout[o]
      /\ settled' = settled \cup t.items
      /\ loose' = loose \cup {s \in t.items : t.netted[s] # Refunded(s)}
  <2>1. TypeInv
    BY RecoveryTyped DEF RecoveryInv
  <2>2. t.items \in SUBSET Slices /\ t.absorbed \in SUBSET Returns
    BY <2>1, ClerkFacts DEF TypeInv, PayoutsTyped
  <2>3. /\ t.items \cap settled = {}
        /\ \A q \in t.absorbed : clawback[q].status = "PENDING"
    BY <2>2 DEF RunRaced
  <2>4. \A o \in Payouts \ {p} : payout'[o] = payout[o]
    BY <2>1 DEF BookRun, TypeInv, PayoutsTyped
  <2>5. /\ settled' = settled \cup t.items
        /\ loose' = loose \cup {s \in t.items : t.netted[s] # Refunded(s)}
    BY DEF BookRun
  <2> QED BY <2>2, <2>3, <2>4, <2>5
<1>1. payout'[p].items = t.items /\ payout'[p].netted = t.netted
  <2>1. TypeInv
    BY RecoveryTyped DEF RecoveryInv
  <2>2. payout'[p] = [status |-> "PROCESSING", items |-> t.items, netted |-> t.netted,
                      absorbed |-> t.absorbed]
    BY <2>1, RunBooked
  <2> QED BY <2>2
<1>2. ReturnsStand
  <2>0. clawback \in [Returns -> [status : {"none", "PENDING", "APPLIED"}, amount : Int]]
    BY RecoveryTyped DEF RecoveryInv, ReturnsInv, ReturnsTypeOK
  <2>1. \A q \in Returns : clawback'[q] =
          IF q \in t.absorbed THEN [clawback[q] EXCEPT !.status = "APPLIED"] ELSE clawback[q]
    <3>1. TypeInv
      BY RecoveryTyped DEF RecoveryInv
    <3> QED BY <3>1, RunBooked
  <2>2. \A q \in t.absorbed : /\ [clawback[q] EXCEPT !.status = "APPLIED"].status = "APPLIED"
                              /\ [clawback[q] EXCEPT !.status = "APPLIED"].amount
                                   = clawback[q].amount
    BY <1>0, <2>0
  <2>3. \A q \in t.absorbed : /\ clawback'[q].status = "APPLIED"
                              /\ clawback'[q].amount = clawback[q].amount
    BY <1>0, <2>1, <2>2
  <2>4. \A q \in Returns : q \in t.absorbed \/ clawback'[q] = clawback[q]
    BY <2>1
  <2>5. NoClawback.status = "none"
    BY DEF NoClawback
  <2> QED BY <1>0, <2>3, <2>4, <2>5 DEF ReturnsStand
<1> USE DEF RecoveryInv, Recovery
<1>3. TightItems'
  BY <1>0, <1>1 DEF TightItems
<1>4. ASSUME NEW s \in t.items \ loose' PROVE \E B : NettedBy(p, s, B)'
  <2>1. s \in Slices /\ s \notin settled /\ s \notin loose /\ t.netted[s] = Refunded(s)
    BY <1>0
  <2>2. /\ \A q \in On(s) : retSt[q] = "REFUNDED" =>
             link[q] \in ProcessedOn(s) /\ clawback[q] = NoClawback
        /\ \A w \in Workers : wtask[w].do # "idle" /\ wtask[w].ret \in On(s) => ~ wtask[w].seen
    BY <2>1, RunNets
  <2>3. PICK B : B = ProcessedOn(s)
    OBVIOUS
  <2>4. Amounts' = Amounts /\ ProcessedOn(s)' = B /\ On(s)' = On(s)
    BY <1>2, <2>3 DEF ReturnsStand, refundState, Amounts, ProcessedOn, RefundsOn, On
  <2>5. SumOver(B) = t.netted[s]
    BY <2>1, <2>3 DEF Refunded, ProcessedOn
  <2>6. SumOver(B)' = payout'[p].netted[s]
    BY <1>1, <2>4, <2>5 DEF SumOver
  <2>7. \A q \in On(s) : retSt'[q] = "REFUNDED" => (link'[q] \in B <=> clawback'[q] = NoClawback)
    BY <1>2, <2>2, <2>3 DEF ReturnsStand, refundState, On
  <2>8. \A w \in Workers : wtask'[w].do # "idle" /\ wtask'[w].ret \in On(s) => ~ wtask'[w].seen
    BY <1>2, <2>2 DEF ReturnsStand
  <2> QED BY <2>4, <2>6, <2>7, <2>8 DEF NettedBy
<1>5. \A o \in Payouts : \A s \in payout'[o].items \ loose' :
        \/ s \in payout[o].items /\ payout'[o].netted[s] = payout[o].netted[s]
        \/ \E B : NettedBy(o, s, B)'
  BY <1>0, <1>1, <1>4
<1> QED BY <1>0, <1>2, <1>3, <1>5, ClericalFrom

\* a payout marked paid,
LEMMA PaidRecovers ==
  ASSUME RecoveryInv, BooksInv', NEW c \in Clerks, WritePaid(c)
  PROVE  Recovery'
<1> USE DEF RecoveryInv, Recovery
<1> DEFINE t == clerk[c]
<1>0. /\ UNCHANGED <<refundState, retSt, ret, clawback, doubled, wtask, crashes>>
      /\ settled \subseteq settled' /\ loose \subseteq loose'
  BY DEF WritePaid
<1>1. \A p \in Payouts : /\ payout'[p].items = payout[p].items
                         /\ payout'[p].netted = payout[p].netted
  <2>1. payout \in [Payouts -> PayoutRow]
    BY RecoveryTyped DEF TypeInv, PayoutsTyped
  <2>2. \A p \in Payouts : payout'[p] =
          IF p = t.payout THEN [payout[p] EXCEPT !.status = "PAID"] ELSE payout[p]
    BY <2>1 DEF WritePaid
  <2> QED BY <2>1, <2>2 DEF PayoutRow
<1>2. ReturnsStand
  BY <1>0 DEF ReturnsStand
<1>3. TightItems'
  BY <1>0, <1>1 DEF TightItems
<1> QED BY <1>0, <1>1, <1>2, <1>3, ClericalFrom

\* and one marked failed, whose clawbacks are pending again.
LEMMA FailedRecovers ==
  ASSUME RecoveryInv, BooksInv', NEW c \in Clerks, WriteFailed(c)
  PROVE  Recovery'
<1> USE DEF RecoveryInv, Recovery
<1> DEFINE t == clerk[c]
<1>0. /\ payout \in [Payouts -> PayoutRow] /\ clerk \in [Clerks -> ClerkTask]
      /\ clawback \in [Returns -> [status : {"none", "PENDING", "APPLIED"}, amount : Int]]
  BY RecoveryTyped DEF TypeInv, PayoutsTyped, ReturnsInv, ReturnsTypeOK
<1>1. PICK p \in Payouts : p = t.payout
  BY <1>0, ClerkFacts DEF WriteFailed
<1>2. /\ t.do = "failed" /\ t.items \in SUBSET Slices /\ settled' = settled \ t.items
      /\ UNCHANGED <<refundState, retSt, ret, doubled, wtask, crashes>>
      /\ loose' = loose \cup {s \in t.items : Closed(p) \/
           \E q \in Returns : ret[q].slice = s /\ (clawback[q] # NoClawback \/ Completing(q))}
  BY <1>0, <1>1, ClerkFacts DEF WriteFailed
<1>3. payout'[p].items = {} /\ \A o \in Payouts \ {p} : payout'[o] = payout[o]
  BY <1>0, <1>1 DEF WriteFailed, NoPayout
<1>4. ReturnsStand
  <2>1. \A q \in Returns : clawback'[q] =
          IF q \in payout[p].absorbed THEN [clawback[q] EXCEPT !.status = "PENDING"]
                                      ELSE clawback[q]
    BY <1>0, <1>1 DEF WriteFailed, ReleaseClawbacks, Become
  <2>2. \A q \in Returns : q \in payout[p].absorbed => clawback[q].status = "APPLIED"
    BY DEF BooksInv, Books, ClawbacksApart, Absorbed
  <2>3. \A q \in Returns : /\ [clawback[q] EXCEPT !.status = "PENDING"].status = "PENDING"
                           /\ [clawback[q] EXCEPT !.status = "PENDING"].amount
                                = clawback[q].amount
    BY <1>0
  <2>4. ASSUME NEW q \in Returns, q \in payout[p].absorbed
        PROVE  clawback'[q].status = "PENDING" /\ clawback'[q].amount = clawback[q].amount
    <3>1. clawback'[q] = [clawback[q] EXCEPT !.status = "PENDING"]
      BY <2>1, <2>4
    <3> QED BY <2>3, <3>1
  <2>5. \A q \in Returns : q \in payout[p].absorbed \/ clawback'[q] = clawback[q]
    BY <2>1
  <2>6. NoClawback.status = "none"
    BY DEF NoClawback
  <2> QED BY <1>2, <2>2, <2>4, <2>5, <2>6 DEF ReturnsStand
<1>5. TightItems'
  <2> SUFFICES ASSUME NEW o \in Payouts, NEW s \in payout'[o].items \ loose' PROVE s \in settled'
    BY DEF TightItems
  <2>1. o # p /\ s \in payout[o].items /\ s \in settled
    BY <1>2, <1>3 DEF TightItems
  <2>2. s \in t.items => Closed(p)
    <3>1. ~ Closed(p) => payout[p].items = t.items
      BY <1>1, <1>2 DEF BooksInv, Books, ClerksKnow, Closed
    <3> QED BY <2>1, <3>1 DEF BooksInv, Books, ItemsApart
  <2> QED BY <1>2, <2>1, <2>2
<1>6. \A s \in settled \ settled' : s \notin loose' =>
        \A q \in On(s) : clawback[q] = NoClawback /\ ~ Completing(q)
  BY <1>2 DEF On
<1>7. \A o \in Payouts : \A s \in payout'[o].items \ loose' :
        s \in payout[o].items /\ payout'[o].netted[s] = payout[o].netted[s]
  BY <1>3
<1> QED BY <1>2, <1>4, <1>5, <1>6, <1>7, ClericalFrom

\* The invariant of the recovery is inductive.
LEMMA RecoveryKept ==
  ASSUME RecoveryInv, BooksInv', SettlementNext \/ UNCHANGED settlementVars
  PROVE  Recovery'
<1>1. CASE ReturnsNext /\ UNCHANGED payoutVars
  BY <1>1, ReturnsStepRecovers DEF ReturnStep
<1>2. ASSUME UNCHANGED <<returnVars, payout>> PROVE Recovery'
  <2>1. ReturnsStand /\ UNCHANGED <<payout, settled, loose>>
    BY <1>2 DEF returnVars, ReturnsStand
  <2>2. TightItems'
    BY <2>1 DEF RecoveryInv, Recovery, TightItems
  <2> QED BY <2>1, <2>2, ClericalFrom
<1>3. ASSUME NEW c \in Clerks, CommitRun(c) PROVE Recovery'
  BY <1>2, <1>3, CommitRecovers DEF CommitRun
<1>4. ASSUME NEW c \in Clerks, Clerical(c) PROVE Recovery'
  <2>1. CASE PreviewItems(c) \/ PreviewClawbacks(c)
    BY <1>2, <2>1 DEF PreviewItems, PreviewClawbacks
  <2>2. ASSUME NEW p \in Payouts, NEW do, ReadPayout(c, p, do) PROVE Recovery'
    BY <1>2, <2>2 DEF ReadPayout
  <2> QED BY <1>3, <1>4, <2>1, <2>2, PaidRecovers, FailedRecovers DEF Clerical
<1>5. CASE UNCHANGED settlementVars
  BY <1>2, <1>5 DEF settlementVars, payoutVars
<1> QED BY <1>1, <1>4, <1>5 DEF SettlementNext

\* It holds first,
LEMMA InitRecovery == PayoutsInit => RecoveryInv
<1> SUFFICES ASSUME PayoutsInit PROVE RecoveryInv
  OBVIOUS
<1>1. BooksInv
  BY InitBooks
<1>2. Recovery
  BY DEF PayoutsInit, ReturnsInit, Recovery, PaidLate, ClawbacksClosed, DoubledLoose,
         TightReturns, Tight, TightItems, Netted, NoPayout, NoClawback, Waiting
<1> QED BY <1>1, <1>2 DEF RecoveryInv

\* and every step keeps it.
LEMMA StepRecovery == RecoveryInv /\ [SettlementNext]_settlementVars => RecoveryInv'
BY RecoveryKept, StepBooks DEF RecoveryInv

-----------------------------------------------------------------------------
\* With its returns complete, what a slice's payout did not net is what was clawed back,
\* refund by refund.
LEMMA ClawedBack ==
  ASSUME RecoveryInv, NEW p \in Payouts, NEW s \in payout[p].items \ loose,
         \A q \in On(s) : retSt[q] # "QC_PASSED", NEW B, NettedBy(p, s, B)
  PROVE  LET K == {q \in On(s) : clawback[q] # NoClawback}
         IN  /\ ProcessedOn(s) \ B = {link[q] : q \in K}
             /\ \A q, o \in K : link[q] = link[o] => q = o
             /\ \A q \in K : Owed[q] \in Int /\ Amounts[link[q]] = Owed[q]
<1> USE DEF RecoveryInv, Recovery
<1> DEFINE K == {q \in On(s) : clawback[q] # NoClawback}
<1>0. ReturnsInv /\ RowsLinked /\ NatAmounts
  BY RecoveryTyped DEF ReturnsInv
<1>1. ASSUME NEW q \in K
      PROVE  /\ q \in Returns /\ link[q] \in ProcessedOn(s) \ B
             /\ refOf[link[q]].ret = q /\ clawback[q].amount = refOf[link[q]].amount
  <2>1. q \in Returns /\ ret[q].slice = s /\ retSt[q] = "REFUNDED" /\ Tight(q)
    BY DEF On, ClawbacksClosed, TightReturns
  <2>2. /\ link[q] \in Refunds /\ refSt[link[q]] = "PROCESSED"
        /\ clawback[q].amount = refOf[link[q]].amount
    BY <2>1, RecoveryTyped DEF Tight
  <2>3. refOf[link[q]].ret = q
    BY <1>0, <2>1, <2>2, Bounds DEF RowsLinked
  <2>4. link[q] \in ProcessedOn(s)
    BY <2>1, <2>2, <2>3 DEF ProcessedOn, RefundsOn
  <2>5. link[q] \notin B
    BY <2>1 DEF NettedBy, On
  <2> QED BY <2>1, <2>2, <2>3, <2>4, <2>5
<1>2. ASSUME NEW r \in ProcessedOn(s) \ B PROVE \E q \in K : link[q] = r
  <2>1. PICK q : q = refOf[r].ret
    OBVIOUS
  <2>2. r \in Refunds /\ refSt[r] # "none" /\ q \in On(s) /\ retSt[q] = "REFUNDED"
    BY <1>0, <2>1 DEF ProcessedOn, RefundsOn, On, RowsLinked, Refundable, Passed
  <2>3. q \in Returns \ doubled
    BY <2>2 DEF On, DoubledLoose
  <2>4. link[q] = r
    BY <2>1, <2>2, <2>3 DEF BooksInv, AloneInv, OneCompletion, Alone
  <2>5. q \in K
    BY <2>2, <2>4 DEF NettedBy
  <2> QED BY <2>4, <2>5
<1>3. ASSUME NEW q \in K PROVE Owed[q] \in Int /\ Amounts[link[q]] = Owed[q]
  <2>1. q \in Returns /\ link[q] \in Refunds /\ clawback[q].amount = refOf[link[q]].amount
    BY <1>1 DEF ProcessedOn, RefundsOn
  <2>2. clawback[q].amount \in Int
    BY <1>0, <2>1 DEF NatAmounts
  <2> QED BY <2>1, <2>2 DEF Owed, Amounts
<1>4. \A q, o \in K : link[q] = link[o] => q = o
  BY <1>1
<1>5. ProcessedOn(s) \ B = {link[q] : q \in K}
  BY <1>1, <1>2
<1> QED BY <1>3, <1>4, <1>5

\* It says that a payout's netting and the clawbacks recover what was refunded.
LEMMA RecoveryNetted == RecoveryInv => RecoveredOnce
<1> SUFFICES ASSUME RecoveryInv, NEW p \in Payouts, NEW s \in payout[p].items \ loose,
                    \A q \in Returns : ret[q].slice = s => retSt[q] # "QC_PASSED"
             PROVE  Refunded(s) = payout[p].netted[s] + OwedFor({q \in Returns : ret[q].slice = s})
  BY DEF RecoveredOnce
<1>0. NatAmounts
  BY RecoveryTyped DEF RecoveryInv, ReturnsInv
<1>1. PICK B : NettedBy(p, s, B)
  BY DEF RecoveryInv, Recovery, Netted
<1>2. PICK P, N, K, rest :
        /\ P = ProcessedOn(s) /\ N = On(s)
        /\ K = {q \in On(s) : clawback[q] # NoClawback}
        /\ rest = {q \in On(s) : clawback[q] = NoClawback}
  OBVIOUS
<1>3. PICK C : C = P \ B
  OBVIOUS
<1>4. PICK f, owed, g : f = Amounts /\ owed = Owed /\ g = link
  OBVIOUS
<1>5. /\ C = {g[q] : q \in K}
      /\ \A q, o \in K : g[q] = g[o] => q = o
      /\ \A q \in K : owed[q] \in Int /\ f[g[q]] = owed[q]
  <2>1. \A q \in On(s) : retSt[q] # "QC_PASSED"
    BY DEF On
  <2> QED BY <1>1, <1>2, <1>3, <1>4, <2>1, ClawedBack
<1>6. /\ P \in SUBSET Refunds /\ B \subseteq P
      /\ SumFunctionOnSet(f, B) = payout[p].netted[s]
      /\ SumFunctionOnSet(f, P) = Refunded(s)
  BY <1>1, <1>2, <1>4 DEF NettedBy, ProcessedOn, RefundsOn, SumOver, Refunded
<1>7. /\ N = K \cup rest /\ K \cap rest = {} /\ N \in SUBSET Returns
      /\ \A q \in rest : owed[q] = 0
      /\ OwedFor({q \in Returns : ret[q].slice = s}) = SumFunctionOnSet(owed, N)
  BY <1>2, <1>4 DEF On, Owed, OwedFor, NoClawback
<1>8. /\ IsFiniteSet(B) /\ IsFiniteSet(C) /\ IsFiniteSet(K) /\ IsFiniteSet(rest)
      /\ \A r \in P : f[r] \in Int
  <2>1. B \in SUBSET Refunds /\ C \in SUBSET Refunds
    BY <1>3, <1>6
  <2>2. K \in SUBSET Returns /\ rest \in SUBSET Returns
    BY <1>7
  <2>3. \A r \in P : f[r] \in Int
    BY <1>0, <1>4, <1>6 DEF NatAmounts, Amounts
  <2> QED BY <2>1, <2>2, <2>3, Bounds
<1>9. SumFunctionOnSet(f, P) = SumFunctionOnSet(f, B) + SumFunctionOnSet(f, C)
  <2>1. B \cup C = P /\ B \cap C = {}
    BY <1>3, <1>6
  <2> QED BY <1>8, <2>1, SumUnion
<1>10. SumFunctionOnSet(owed, K) = SumFunctionOnSet(f, C)
  BY <1>5, <1>8, SumImage
<1>11. SumFunctionOnSet(owed, N) = SumFunctionOnSet(owed, K) + SumFunctionOnSet(owed, rest)
  <2>1. \A q \in K \cup rest : owed[q] \in Int
    BY <1>5, <1>7
  <2> QED BY <1>7, <1>8, <2>1, SumUnion
<1>12. SumFunctionOnSet(owed, rest) = 0
  BY <1>7, <1>8, SumZero
<1>13. SumFunctionOnSet(f, C) \in Int
  <2>1. \A r \in C : f[r] \in Int
    BY <1>3, <1>8
  <2> QED BY <1>8, <2>1, SumType
<1> QED BY <1>6, <1>7, <1>9, <1>10, <1>11, <1>12, <1>13

\* What a buyer was refunded of a slice in a payout is recovered from the seller once, by
\* the payout's netting or by clawbacks, unless the payout and a return raced.
THEOREM SettlementRecoversOnce == SettlementSpec => []RecoveredOnce
BY InitRecovery, StepRecovery, RecoveryNetted, PTL DEF SettlementSpec
=============================================================================
