--------------------------- MODULE CheckoutProofs ---------------------------
(***************************************************************************)
(* Whatever the order in which verify calls, webhooks, dismissals and the  *)
(* reconciliation meet, no order is PAID without the buyer's money, for    *)
(* any number of orders, sessions and requests at the same time.  The      *)
(* invariant behind it: a handler that has decided to finalize holds a     *)
(* session the buyer paid in full, and that fact no step takes back.       *)
(* A failed payment's order is cancelled because a handler keeps it in its *)
(* task until it is (FailureInv); and with one checkout at a time an order *)
(* has one live session per price, because prices only rise and a checkout *)
(* carries a price that no live row of its order has (PriceInv).           *)
(***************************************************************************)
EXTENDS Checkout, SumTheorems

\* A session not opened yet has no row and was not paid.
UnopenedInv ==
  \A s \in Sessions : s > opened => row[s] = "none" /\ charge[s] = "unpaid"

\* What the handlers and the reconciliation have decided.
DecidedInv ==
  /\ \A w \in Workers :
       /\ task[w].do \in {"record", "check", "finalize", "failRow"} => task[w].session =< opened
       /\ task[w].do = "finalize" => PaidInFull(task[w].session)
  /\ sweep.do \in {"recheck", "finalize"} => PaidInFull(sweep.session)

Inv == TypeOK /\ UnopenedInv /\ DecidedInv /\ PaidIsBacked /\ CapturesAreInvoiced

LEMMA InitType == Init => TypeOK
BY CheckoutConstantsOK
   DEF Init, TypeOK, Sessions, RowStatus, PaymentStatus, Task, Sweep, Idle, NotSweeping

-----------------------------------------------------------------------------
(***************************************************************************)
(* Types.                                                                  *)
(***************************************************************************)
\* What the fields of a task and of the sweep are.
LEMMA TaskFields ==
  ASSUME TypeOK, NEW w \in Workers
  PROVE  /\ task[w].do \in {"reuse", "dismiss", "giveUp", "void", "open"}
              => task[w].order \in Orders
         /\ task[w].do = "open" => task[w].amount \in Nat
         /\ task[w].do \in {"record", "check", "finalize", "failRow"}
              => task[w].session \in Sessions
BY DEF TypeOK, Task, Idle

LEMMA SweepFields ==
  ASSUME TypeOK
  PROVE  /\ sweep.todo \subseteq Sessions
         /\ sweep.do \in {"recheck", "finalize"} => sweep.session \in Sessions
BY DEF TypeOK, Sweep

LEMMA OnwardType ==
  ASSUME NEW todo \in SUBSET Sessions PROVE Onward(todo) \in Sweep
BY DEF Onward, Sweep, NotSweeping

LEMMA FinalizeType ==
  ASSUME TypeOK, NEW s \in Sessions, Finalize(s)
  PROVE  /\ row' \in [Sessions -> RowStatus] /\ rank' \in [Sessions -> Nat]
         /\ aged' \in [Sessions -> BOOLEAN]
         /\ pay' \in [Orders -> PaymentStatus] /\ cancelled' \in [Orders -> BOOLEAN]
         /\ enqueued' \subseteq Orders
<1>1. orderOf[s] \in Orders
  BY DEF TypeOK
<1> QED BY <1>1 DEF TypeOK, Finalize, RowStatus, PaymentStatus, Settled

LEMMA CallType ==
  ASSUME TypeOK, NEW w \in Workers, Call(w) PROVE TypeOK'
<1>1. ASSUME NEW o \in Orders, InitiateCheckout(w, o) PROVE TypeOK'
  <2>1. [do |-> "reuse", order |-> o] \in Task
    BY DEF Task
  <2>2. pay' \in [Orders -> PaymentStatus]
    BY <1>1 DEF InitiateCheckout, TypeOK, PaymentStatus
  <2> QED BY <1>1, <2>1, <2>2 DEF InitiateCheckout, Start, TypeOK, gateway, rows
<1>2. ASSUME NEW o \in Orders, VerifyPayment(w, o) PROVE TypeOK'
  <2>1. \A s \in Sessions : [do |-> "check", session |-> s] \in Task
    BY DEF Task
  <2> QED BY <1>2, <2>1 DEF VerifyPayment, Start, TypeOK, gateway, rows, orders
<1>3. ASSUME NEW o \in Orders, CancelCheckout(w, o) PROVE TypeOK'
  <2>1. [do |-> "dismiss", order |-> o] \in Task
    BY DEF Task
  <2> QED BY <1>3, <2>1 DEF CancelCheckout, Start, TypeOK, gateway, rows, orders
<1>4. ASSUME NEW s \in Sessions, WebhookCaptured(w, s) \/ WebhookFailed(w, s) PROVE TypeOK'
  <2>1. \A do \in {"finalize", "failRow"} : [do |-> do, session |-> s] \in Task
    BY DEF Task
  <2> QED BY <1>4, <2>1 DEF WebhookCaptured, WebhookFailed, Start, TypeOK, gateway, rows, orders
<1> QED BY <1>1, <1>2, <1>3, <1>4 DEF Call

LEMMA HandleType ==
  ASSUME TypeOK, NEW w \in Workers, Handle(w) \/ Abandon(w) PROVE TypeOK'
<1> USE DEF gateway, rows, orders
<1>1. /\ Idle \in Task
      /\ \A o \in Orders, n \in Nat : [do |-> "open", order |-> o, amount |-> n] \in Task
      /\ \A o \in Orders : \A do \in {"giveUp", "void"} : [do |-> do, order |-> o] \in Task
      /\ \A s \in Sessions : \A do \in {"record", "finalize", "failRow"} :
           [do |-> do, session |-> s] \in Task
  BY DEF Task
<1>2. CASE FindSession(w) \/ CheckPayment(w) \/ GiveUp(w) \/ Abandon(w)
  <2>1. task' \in [Workers -> Task]
    <3>1. CASE FindSession(w)
      <4>1. task[w].order \in Orders /\ fee \in Nat
        BY <3>1, TaskFields DEF FindSession, Doing, TypeOK
      <4> QED BY <1>1, <3>1, <4>1 DEF FindSession, Then, TypeOK
    <3>2. CASE CheckPayment(w)
      <4>1. task[w].session \in Sessions
        BY <3>2, TaskFields DEF CheckPayment, Doing
      <4> QED BY <1>1, <3>2, <4>1 DEF CheckPayment, Then, TypeOK
    <3>3. CASE GiveUp(w)
      <4>1. task[w].order \in Orders
        BY <3>3, TaskFields DEF GiveUp, Doing
      <4> QED BY <1>1, <3>3, <4>1 DEF GiveUp, Then, TypeOK
    <3>4. CASE Abandon(w)
      BY <1>1, <3>4 DEF Abandon, Then, TypeOK
    <3> QED BY <1>2, <3>1, <3>2, <3>3, <3>4
  <2> QED BY <1>2, <2>1 DEF FindSession, CheckPayment, GiveUp, Abandon, Fault, TypeOK
<1>3. CASE CreateSession(w)
  <2>1. opened + 1 \in Sessions
    BY <1>3, CheckoutConstantsOK DEF CreateSession, TypeOK, Sessions
  <2>2. task[w].order \in Orders /\ task[w].amount \in Nat
    BY <1>3, TaskFields DEF CreateSession, Doing
  <2>3. task' \in [Workers -> Task]
    BY <1>1, <1>3, <2>1 DEF CreateSession, Then, TypeOK
  <2>4. opened' \in 0 .. MaxSessions
    BY <1>3, CheckoutConstantsOK DEF CreateSession, TypeOK
  <2> QED BY <1>3, <2>1, <2>2, <2>3, <2>4 DEF CreateSession, TypeOK
<1>4. CASE CreatePayment(w)
  <2>1. task[w].session \in Sessions
    BY <1>4, TaskFields DEF CreatePayment, Doing
  <2>2. 1 + Cardinality({t \in Sessions : row[t] # "none"}) \in Nat
    <3>1. IsFiniteSet(Sessions)
      BY FS_Interval, CheckoutConstantsOK DEF Sessions
    <3>2. IsFiniteSet({t \in Sessions : row[t] # "none"})
      BY <3>1, FS_Subset, Zenon
    <3>3. Cardinality({t \in Sessions : row[t] # "none"}) \in Nat
      BY <3>2, FS_CardinalityType, Zenon
    <3> QED BY <3>3
  <2>3. task' \in [Workers -> Task] /\ row' \in [Sessions -> RowStatus]
    BY <1>1, <1>4, <2>1 DEF CreatePayment, Then, TypeOK, RowStatus
  <2> QED BY <1>4, <2>1, <2>2, <2>3 DEF CreatePayment, TypeOK
<1>5. CASE FinalizeCapturedPayment(w)
  <2>1. task[w].session \in Sessions
    BY <1>5, TaskFields DEF FinalizeCapturedPayment, Doing
  <2>2. task' \in [Workers -> Task]
    BY <1>1, <1>5 DEF FinalizeCapturedPayment, Then, TypeOK
  <2> QED BY <1>5, <2>1, <2>2, FinalizeType DEF FinalizeCapturedPayment, TypeOK
<1>6. CASE FailPayment(w)
  <2>1. task[w].session \in Sessions
    BY <1>6, TaskFields DEF FailPayment, Doing
  <2>2. task' \in [Workers -> Task] /\ row' \in [Sessions -> RowStatus]
    BY <1>1, <1>6, <2>1 DEF FailPayment, Then, TypeOK, RowStatus
  <2> QED BY <1>6, <2>2 DEF FailPayment, TypeOK
<1>7. CASE DismissPayment(w)
  <2>1. task[w].order \in Orders
    BY <1>7, TaskFields DEF DismissPayment, Doing
  <2>2. task' \in [Workers -> Task]
    BY <1>1, <1>7, <2>1 DEF DismissPayment, Then, TypeOK
  <2> QED BY <1>7, <2>2 DEF DismissPayment, TypeOK
<1>8. CASE VoidOrder(w)
  <2>1. task' \in [Workers -> Task] /\ pay' \in [Orders -> PaymentStatus]
    BY <1>1, <1>8 DEF VoidOrder, Then, TypeOK, PaymentStatus
  <2> QED BY <1>8, <2>1 DEF VoidOrder, TypeOK
<1> QED BY <1>2, <1>3, <1>4, <1>5, <1>6, <1>7, <1>8 DEF Handle

LEMMA SweepType ==
  ASSUME TypeOK, Reconcile \/ SweepFails PROVE TypeOK'
<1> USE DEF gateway, rows, orders
<1>1. NotSweeping \in Sweep
  BY DEF NotSweeping, Sweep
<1>2. CASE StartSweep
  <2>1. Pending \subseteq Sessions /\ \A T \in Taken(Pending) : T \subseteq Sessions
    BY DEF Pending, Taken
  <2> QED BY <1>2, <2>1, OnwardType DEF StartSweep, TypeOK
<1>3. ASSUME NEW s \in Sessions, AskGateway(s) PROVE TypeOK'
  <2>1. sweep.todo \ {s} \subseteq Sessions
    BY SweepFields
  <2>2. [do |-> "recheck", todo |-> sweep.todo \ {s}, session |-> s] \in Sweep
    BY <2>1 DEF Sweep
  <2> QED BY <1>3, <2>1, <2>2, OnwardType DEF AskGateway, TypeOK
<1>4. CASE Recheck
  <2>1. sweep \in [do : {"recheck", "finalize"}, todo : SUBSET Sessions, session : Sessions]
    BY <1>4 DEF Recheck, TypeOK, Sweep
  <2>2. [sweep EXCEPT !.do = "finalize"] \in Sweep
    BY <2>1 DEF Sweep
  <2> QED BY <1>4, <2>2, OnwardType, SweepFields DEF Recheck, TypeOK
<1>5. CASE SweepFinalize
  <2>1. sweep.session \in Sessions /\ sweep' \in Sweep
    BY <1>5, SweepFields, OnwardType DEF SweepFinalize
  <2> QED BY <1>5, <2>1, FinalizeType DEF SweepFinalize, TypeOK
<1>6. CASE SweepFails
  <2>1. sweep' \in Sweep
    BY <1>1, <1>6, SweepFields, OnwardType DEF SweepFails
  <2> QED BY <1>6, <2>1 DEF SweepFails, Fault, TypeOK
<1> QED BY <1>2, <1>3, <1>4, <1>5, <1>6 DEF Reconcile

LEMMA EnvironmentType ==
  ASSUME TypeOK, Environment PROVE TypeOK'
<1> USE DEF gateway, rows, orders
<1>1. ASSUME NEW s \in Sessions, Pay(s) \/ Decline(s) \/ GrowOld(s) PROVE TypeOK'
  BY <1>1 DEF Pay, Decline, GrowOld, TypeOK
<1>2. ASSUME NEW s \in Sessions, Refund(s) PROVE TypeOK'
  <2>1. /\ charge' \in [Sessions -> {"unpaid", "short", "full", "returned"}]
        /\ row' \in [Sessions -> RowStatus]
        /\ pay' \in [Orders -> PaymentStatus]
    BY <1>2 DEF Refund, TypeOK, RowStatus, PaymentStatus, Settled
  <2> QED BY <1>2, <2>1 DEF Refund, TypeOK
<1>3. ASSUME NEW o \in Orders, CancelOrder(o) PROVE TypeOK'
  BY <1>3 DEF CancelOrder, TypeOK
<1>4. CASE Reprice
  BY <1>4 DEF Reprice, TypeOK
<1> QED BY <1>1, <1>2, <1>3, <1>4 DEF Environment

LEMMA TypeStep == TypeOK /\ [Next]_vars => TypeOK'
<1>1. TypeOK /\ UNCHANGED vars => TypeOK'
  BY DEF TypeOK, vars, gateway, rows, orders
<1> QED BY <1>1, CallType, HandleType, SweepType, EnvironmentType DEF Next

\* The orders, the rows, the gateway and the handlers keep their types.
THEOREM Typing == Spec => []TypeOK
<1> QED BY InitType, TypeStep, PTL DEF Spec

-----------------------------------------------------------------------------
(***************************************************************************)
(* Payments are backed by money, and captures have their events.           *)
(***************************************************************************)
Facts == UnopenedInv /\ PaidIsBacked /\ CapturesAreInvoiced

LEMMA InitInv == Init => Inv
<1>1. Init => UnopenedInv /\ DecidedInv /\ PaidIsBacked /\ CapturesAreInvoiced
  BY DEF Init, UnopenedInv, DecidedInv, PaidIsBacked, CapturesAreInvoiced, Settled,
         Idle, NotSweeping
<1> QED BY <1>1, InitType DEF Inv

\* A step that leaves the money and the rows alone, and makes no order PAID.
LEMMA FactsKept ==
  ASSUME Inv, UNCHANGED <<charge, opened, orderOf, row, enqueued>>,
         \A o \in Orders : pay'[o] \in Settled => pay[o] \in Settled
  PROVE  Facts'
BY DEF Inv, Facts, UnopenedInv, PaidIsBacked, CapturesAreInvoiced, PaidInFull

\* One worker takes a new task; no payment is taken back.
LEMMA DecidedKept ==
  ASSUME Inv, NEW w \in Workers, NEW t, task' = [task EXCEPT ![w] = t],
         opened \in 0 .. opened', opened' \in Nat,
         \A s \in Sessions : PaidInFull(s) => PaidInFull(s)',
         t.do \in {"record", "check", "finalize", "failRow"} => t.session =< opened',
         t.do = "finalize" => charge'[t.session] \in {"full", "returned"},
         UNCHANGED sweep
  PROVE  DecidedInv'
<1>1. \A v \in Workers : task'[v] = IF v = w THEN t ELSE task[v]
  BY DEF Inv, TypeOK
<1>2. ASSUME NEW v \in Workers
      PROVE  /\ task'[v].do \in {"record", "check", "finalize", "failRow"}
                  => task'[v].session =< opened'
             /\ task'[v].do = "finalize" => charge'[task'[v].session] \in {"full", "returned"}
  <2>1. CASE v = w
    BY <1>1, <2>1
  <2>2. CASE v # w
    <3>1. task[v].do \in {"record", "check", "finalize", "failRow"}
             => task[v].session \in Sessions /\ task[v].session \in Nat
      BY TaskFields DEF Inv, Sessions
    <3> QED BY <1>1, <2>2, <3>1 DEF Inv, DecidedInv, TypeOK, PaidInFull
  <2> QED BY <2>1, <2>2
<1>3. sweep.do \in {"recheck", "finalize"} => charge'[sweep.session] \in {"full", "returned"}
  BY SweepFields DEF Inv, DecidedInv, PaidInFull
<1> QED BY <1>2, <1>3 DEF DecidedInv, PaidInFull

\* A session with a row or a payment was opened.
LEMMA OpenedFirst ==
  ASSUME Inv, NEW s \in Sessions, row[s] # "none" \/ charge[s] # "unpaid"
  PROVE  s =< opened
BY CheckoutConstantsOK DEF Inv, UnopenedInv, TypeOK, Sessions

\* The transaction that finalizes a session paid in full.
LEMMA FinalizeFacts ==
  ASSUME Inv, NEW s \in Sessions, PaidInFull(s), Finalize(s), UNCHANGED gateway
  PROVE  Facts'
<1>1. /\ row' = [row EXCEPT ![s] = "CAPTURED"]
      /\ pay' = [pay EXCEPT ![orderOf[s]] = "PAID"]
      /\ enqueued' = enqueued \cup {orderOf[s]}
      /\ UNCHANGED <<charge, opened, orderOf>>
  BY DEF Finalize, gateway
<1>2. s =< opened
  BY OpenedFirst DEF PaidInFull
<1>3. UnopenedInv'
  BY <1>1, <1>2, CheckoutConstantsOK DEF Inv, UnopenedInv, TypeOK, Sessions
<1>4. PaidIsBacked'
  BY <1>1 DEF Inv, PaidIsBacked, PaidInFull, TypeOK
<1>5. CapturesAreInvoiced'
  BY <1>1 DEF Inv, CapturesAreInvoiced, TypeOK
<1> QED BY <1>3, <1>4, <1>5 DEF Facts

LEMMA CallFacts ==
  ASSUME Inv, NEW w \in Workers, Call(w) PROVE Facts' /\ DecidedInv'
<1>1. /\ UNCHANGED <<charge, opened, orderOf, row, enqueued, sweep>>
      /\ \A o \in Orders : pay'[o] \in Settled => pay[o] \in Settled
  <2>1. UNCHANGED <<charge, opened, orderOf, row, enqueued, sweep>>
    BY DEF Call, InitiateCheckout, VerifyPayment, CancelCheckout, WebhookCaptured,
           WebhookFailed, gateway, rows, orders
  <2>2. ASSUME NEW o \in Orders, InitiateCheckout(w, o), NEW x \in Orders
        PROVE  pay'[x] \in Settled => pay[x] \in Settled
    BY <2>2 DEF InitiateCheckout, Inv, TypeOK, Settled
  <2>3. (\A o \in Orders : ~InitiateCheckout(w, o)) => UNCHANGED pay
    BY DEF Call, VerifyPayment, CancelCheckout, WebhookCaptured, WebhookFailed, orders
  <2> QED BY <2>1, <2>2, <2>3
<1> DEFINE Fits(t) ==
      /\ task' = [task EXCEPT ![w] = t]
      /\ t.do \in {"check", "failRow", "finalize"}
           => t.session \in Sessions /\ row[t.session] # "none"
      /\ t.do = "finalize" => PaidInFull(t.session)
      /\ t.do # "record"
<1>2. \E t : Fits(t)
  <2>1. ASSUME NEW o \in Orders, InitiateCheckout(w, o) PROVE \E t : Fits(t)
    <3>1. Fits([do |-> "reuse", order |-> o])
      BY <2>1 DEF InitiateCheckout, Start
    <3> QED BY <3>1
  <2>2. ASSUME NEW o \in Orders, CancelCheckout(w, o) PROVE \E t : Fits(t)
    <3>1. Fits([do |-> "dismiss", order |-> o])
      BY <2>2 DEF CancelCheckout, Start
    <3> QED BY <3>1
  <2>3. ASSUME NEW o \in Orders, VerifyPayment(w, o) PROVE \E t : Fits(t)
    <3>1. PICK s \in Sessions : /\ row[s] # "none"
                                /\ task' = [task EXCEPT ![w] = [do |-> "check", session |-> s]]
      BY <2>3 DEF VerifyPayment, Start, IsLatest, RowsOf
    <3>2. Fits([do |-> "check", session |-> s])
      BY <3>1
    <3> QED BY <3>2
  <2>4. ASSUME NEW s \in Sessions, WebhookCaptured(w, s) PROVE \E t : Fits(t)
    <3>1. Fits([do |-> "finalize", session |-> s])
      BY <2>4 DEF WebhookCaptured, Start, Unsettled, AmountMatches, PaidInFull, Inv, TypeOK
    <3> QED BY <3>1
  <2>5. ASSUME NEW s \in Sessions, WebhookFailed(w, s) PROVE \E t : Fits(t)
    <3>1. Fits([do |-> "failRow", session |-> s])
      BY <2>5 DEF WebhookFailed, Start, Unsettled
    <3> QED BY <3>1
  <2> HIDE DEF Fits
  <2> QED BY <2>1, <2>2, <2>3, <2>4, <2>5 DEF Call
<1> PICK t : Fits(t)
  BY <1>2
<1>3. t.do \in {"check", "failRow", "finalize"} => t.session =< opened
  BY OpenedFirst
<1>4. opened \in 0 .. opened' /\ opened' \in Nat
  BY <1>1, CheckoutConstantsOK DEF Inv, TypeOK
<1>5. DecidedInv'
  BY <1>1, <1>3, <1>4, DecidedKept DEF PaidInFull
<1> QED BY <1>1, <1>5, FactsKept

\* A handler that only reads, or stops.
LEMMA QuietHandlers ==
  ASSUME Inv, NEW w \in Workers,
         FindSession(w) \/ CheckPayment(w) \/ DismissPayment(w) \/ GiveUp(w) \/ Abandon(w)
  PROVE  Facts' /\ DecidedInv'
<1>1. UNCHANGED <<charge, opened, orderOf, row, pay, enqueued, sweep>>
  BY DEF FindSession, CheckPayment, DismissPayment, GiveUp, Abandon, gateway, rows, orders
<1>2. opened \in 0 .. opened' /\ opened' \in Nat
  BY <1>1, CheckoutConstantsOK DEF Inv, TypeOK
<1> DEFINE Fits(t) ==
      /\ task' = [task EXCEPT ![w] = t]
      /\ t.do \in {"check", "failRow", "finalize"} => t.session =< opened
      /\ t.do = "finalize" => PaidInFull(t.session)
      /\ t.do # "record"
<1>3. \E t : Fits(t)
  <2>1. Fits(Idle) \/ ~(task' = [task EXCEPT ![w] = Idle])
    BY DEF Idle
  <2>2. CASE FindSession(w)
    <3>1. \A o, n : Fits([do |-> "open", order |-> o, amount |-> n])
                     \/ ~(task' = [task EXCEPT ![w] = [do |-> "open", order |-> o, amount |-> n]])
      OBVIOUS
    <3> HIDE DEF Fits
    <3> QED BY <2>1, <2>2, <3>1 DEF FindSession, Then
  <2>3. CASE CheckPayment(w)
    <3>1. task[w].session =< opened /\ task[w].session \in Sessions
      BY <2>3, TaskFields DEF CheckPayment, Doing, Inv, DecidedInv
    <3>2. PICK g \in Sessions :
            task' = [task EXCEPT ![w] =
                       IF FetchedOK(g, task[w].session)
                         THEN [do |-> "finalize", session |-> task[w].session] ELSE Idle]
      BY <2>3 DEF CheckPayment, Then
    <3>3. CASE FetchedOK(g, task[w].session)
      <4>1. PaidInFull(task[w].session)
        BY <3>1, <3>3 DEF FetchedOK, Captured, AmountMatches, PaidInFull
      <4>2. Fits([do |-> "finalize", session |-> task[w].session])
        BY <3>1, <3>2, <3>3, <4>1
      <4> QED BY <4>2
    <3>4. CASE ~FetchedOK(g, task[w].session)
      <4>1. task' = [task EXCEPT ![w] = Idle]
        BY <3>2, <3>4
      <4> HIDE DEF Fits
      <4> QED BY <2>1, <4>1
    <3> QED BY <3>3, <3>4
  <2>4. CASE DismissPayment(w)
    <3>1. \A o : Fits([do |-> "giveUp", order |-> o])
                  \/ ~(task' = [task EXCEPT ![w] = [do |-> "giveUp", order |-> o]])
      OBVIOUS
    <3>2. \A s \in Sessions : row[s] # "none" =>
            Fits([do |-> "failRow", session |-> s])
              \/ ~(task' = [task EXCEPT ![w] = [do |-> "failRow", session |-> s]])
      BY OpenedFirst
    <3> HIDE DEF Fits
    <3> QED BY <2>1, <2>4, <3>1, <3>2 DEF DismissPayment, Then, IsLatest, RowsOf
  <2>5. CASE GiveUp(w)
    <3>1. \A o : Fits([do |-> "void", order |-> o])
                  \/ ~(task' = [task EXCEPT ![w] = [do |-> "void", order |-> o]])
      OBVIOUS
    <3> HIDE DEF Fits
    <3> QED BY <2>1, <2>5, <3>1 DEF GiveUp, Then
  <2>6. CASE Abandon(w)
    <3> HIDE DEF Fits
    <3> QED BY <2>1, <2>6 DEF Abandon, Then
  <2> HIDE DEF Fits
  <2> QED BY <2>2, <2>3, <2>4, <2>5, <2>6
<1> PICK t : Fits(t)
  BY <1>3
<1>4. DecidedInv'
  BY <1>1, <1>2, DecidedKept DEF PaidInFull
<1> QED BY <1>1, <1>4, FactsKept

\* A handler that writes.
LEMMA CreateSessionKeeps ==
  ASSUME Inv, NEW w \in Workers, CreateSession(w) PROVE Facts' /\ DecidedInv'
<1> DEFINE s == opened + 1
<1>1. /\ opened' = s /\ s \in Sessions
      /\ \A x \in Sessions \ {s} : orderOf'[x] = orderOf[x]
      /\ task' = [task EXCEPT ![w] = [do |-> "record", session |-> s]]
      /\ UNCHANGED <<charge, row, pay, enqueued, sweep>>
  BY CheckoutConstantsOK DEF CreateSession, Then, rows, orders, Inv, TypeOK, Sessions
<1>2. row[s] = "none" /\ charge[s] = "unpaid"
  BY <1>1, CheckoutConstantsOK DEF Inv, UnopenedInv, TypeOK
<1>3. UnopenedInv'
  BY <1>1, CheckoutConstantsOK DEF Inv, UnopenedInv, TypeOK, Sessions
<1>4. PaidIsBacked'
  BY <1>1, <1>2 DEF Inv, PaidIsBacked, PaidInFull
<1>5. CapturesAreInvoiced'
  BY <1>1, <1>2 DEF Inv, CapturesAreInvoiced, Settled
<1>6. opened \in 0 .. opened' /\ opened' \in Nat /\ s =< opened'
  BY <1>1, CheckoutConstantsOK DEF Inv, TypeOK
<1>7. DecidedInv'
  <2> HIDE DEF s
  <2> QED BY <1>1, <1>6, DecidedKept DEF PaidInFull
<1> QED BY <1>3, <1>4, <1>5, <1>7 DEF Facts

LEMMA WritersKeep ==
  ASSUME Inv, NEW w \in Workers,
         CreatePayment(w) \/ FinalizeCapturedPayment(w) \/ FailPayment(w) \/ VoidOrder(w)
  PROVE  Facts' /\ DecidedInv'
<1>1. /\ UNCHANGED <<charge, opened, orderOf, sweep>>
      /\ opened \in 0 .. opened' /\ opened' \in Nat
  BY CheckoutConstantsOK
     DEF CreatePayment, FinalizeCapturedPayment, FailPayment, VoidOrder, gateway, Inv, TypeOK
<1>2. DecidedInv'
  <2>1. PICK t : task' = [task EXCEPT ![w] = t] /\ t.do \in {"idle", "giveUp"}
    <3>1. CASE FailPayment(w)
      <4>1. \A o : [do |-> "giveUp", order |-> o].do = "giveUp"
        OBVIOUS
      <4> QED BY <3>1, <4>1 DEF FailPayment, Then
    <3>2. CASE ~FailPayment(w)
      <4>1. Idle.do = "idle"
        BY DEF Idle
      <4> QED BY <3>2, <4>1 DEF CreatePayment, FinalizeCapturedPayment, VoidOrder, Then
    <3> QED BY <3>1, <3>2
  <2> QED BY <1>1, <2>1, DecidedKept DEF PaidInFull
<1>3. CASE FinalizeCapturedPayment(w)
  <2>1. task[w].session \in Sessions /\ PaidInFull(task[w].session)
    BY <1>3, TaskFields DEF FinalizeCapturedPayment, Doing, Inv, DecidedInv
  <2> QED BY <1>2, <1>3, <2>1, FinalizeFacts DEF FinalizeCapturedPayment
<1>4. CASE CreatePayment(w) \/ FailPayment(w)
  <2>1. task[w].session \in Sessions /\ task[w].session =< opened
    BY <1>4, TaskFields DEF CreatePayment, FailPayment, Doing, Inv, DecidedInv
  <2>2. UNCHANGED <<pay, enqueued>>
    BY <1>4 DEF CreatePayment, FailPayment, orders
  <2>3. \A x \in Sessions :
          \/ row'[x] = row[x]
          \/ x = task[w].session /\ row'[x] \in {"CREATED", "FAILED"}
          \/ x = task[w].session /\ orderOf[x] \in Cod
    BY <1>4 DEF CreatePayment, FailPayment, Inv, TypeOK
  <2>4. UnopenedInv'
    <3>1. \A x \in Sessions : x > opened => x # task[w].session
      BY <2>1, CheckoutConstantsOK DEF Inv, TypeOK, Sessions
    <3>2. \A x \in Sessions : x > opened => row[x] = "none" /\ charge[x] = "unpaid"
      BY DEF Inv, UnopenedInv
    <3> QED BY <1>1, <2>3, <3>1, <3>2 DEF UnopenedInv, Inv, TypeOK
  <2>5. PaidIsBacked'
    BY <1>1, <2>2, <2>3 DEF Inv, PaidIsBacked, PaidInFull
  <2>6. CapturesAreInvoiced'
    BY <1>1, <2>2, <2>3 DEF Inv, CapturesAreInvoiced, Settled
  <2> QED BY <1>2, <2>4, <2>5, <2>6 DEF Facts
<1>5. CASE VoidOrder(w)
  <2>1. /\ UNCHANGED <<row, enqueued>>
        /\ \A o \in Orders : pay'[o] \in Settled => pay[o] \in Settled
    BY <1>5 DEF VoidOrder, rows, Inv, TypeOK, Settled
  <2> QED BY <1>1, <1>2, <2>1, FactsKept
<1> QED BY <1>3, <1>4, <1>5

\* The handlers decide nothing while the reconciliation or the environment moves.
LEMMA TasksKept ==
  ASSUME Inv, UNCHANGED <<task, opened>>,
         \A s \in Sessions : PaidInFull(s) => charge'[s] \in {"full", "returned"},
         sweep'.do \in {"recheck", "finalize"} => charge'[sweep'.session] \in {"full", "returned"}
  PROVE  DecidedInv'
<1>1. \A w \in Workers : task[w].do = "finalize" => task[w].session \in Sessions
  BY TaskFields DEF Inv
<1> QED BY <1>1 DEF Inv, DecidedInv, PaidInFull

LEMMA SweepKeeps ==
  ASSUME Inv, Reconcile \/ SweepFails PROVE Facts' /\ DecidedInv'
<1>1. UNCHANGED <<charge, opened, orderOf, task>>
  BY DEF Reconcile, StartSweep, AskGateway, Recheck, SweepFinalize, SweepFails, gateway
<1>2. \A todo : Onward(todo).do \notin {"recheck", "finalize"}
  BY DEF Onward, NotSweeping
<1>3. sweep'.do \in {"recheck", "finalize"} => charge'[sweep'.session] \in {"full", "returned"}
  <2>1. CASE StartSweep
    <3>1. PICK todo \in Taken(Pending) : sweep' = Onward(todo)
      BY <2>1 DEF StartSweep
    <3> QED BY <1>2, <3>1
  <2>2. ASSUME NEW s \in Sessions, AskGateway(s)
        PROVE  sweep'.do \in {"recheck", "finalize"} => charge'[sweep'.session] \in {"full", "returned"}
    <3>1. CASE Captured(s) /\ AmountMatches(s, s)
      <4>1. sweep'.session = s /\ charge[s] = "full"
        BY <2>2, <3>1 DEF AskGateway, Captured, AmountMatches
      <4> QED BY <1>1, <4>1
    <3>2. CASE ~(Captured(s) /\ AmountMatches(s, s))
      BY <1>2, <2>2, <3>2 DEF AskGateway
    <3> QED BY <3>1, <3>2
  <2>3. CASE Recheck
    <3>1. CASE row[sweep.session] = "CAPTURED"
      BY <1>2, <2>3, <3>1 DEF Recheck
    <3>2. CASE row[sweep.session] # "CAPTURED"
      <4>1. sweep'.session = sweep.session
        BY <2>3, <3>2 DEF Recheck
      <4>2. PaidInFull(sweep.session)
        BY <2>3 DEF Recheck, Inv, DecidedInv
      <4> QED BY <1>1, <4>1, <4>2 DEF PaidInFull
    <3> QED BY <3>1, <3>2
  <2>4. CASE SweepFinalize
    BY <1>2, <2>4 DEF SweepFinalize
  <2>5. CASE SweepFails
    <3>1. sweep' = NotSweeping \/ \E todo : sweep' = Onward(todo)
      BY <2>5 DEF SweepFails
    <3>2. NotSweeping.do = "idle"
      BY DEF NotSweeping
    <3> QED BY <1>2, <3>1, <3>2
  <2> QED BY <2>1, <2>2, <2>3, <2>4, <2>5 DEF Reconcile
<1>4. DecidedInv'
  BY <1>1, <1>3, TasksKept DEF PaidInFull
<1>5. Facts'
  <2>1. CASE SweepFinalize
    <3>1. sweep.session \in Sessions /\ PaidInFull(sweep.session)
      BY <2>1, SweepFields DEF SweepFinalize, Inv, DecidedInv
    <3> QED BY <2>1, <3>1, FinalizeFacts DEF SweepFinalize
  <2>2. CASE ~SweepFinalize
    <3>1. UNCHANGED <<row, pay, enqueued>>
      BY <2>2 DEF Reconcile, StartSweep, AskGateway, Recheck, SweepFails, rows, orders
    <3> QED BY <1>1, <3>1, FactsKept
  <2> QED BY <2>1, <2>2
<1> QED BY <1>4, <1>5

LEMMA EnvironmentKeeps ==
  ASSUME Inv, Environment PROVE Facts' /\ DecidedInv'
<1>1. /\ UNCHANGED <<opened, orderOf, enqueued, task, sweep>>
      /\ \A s \in Sessions : PaidInFull(s) => charge'[s] \in {"full", "returned"}
  BY DEF Environment, Pay, Decline, GrowOld, Refund, CancelOrder, Reprice, gateway,
         orders, PaidInFull, Inv, TypeOK
<1>2. DecidedInv'
  <2>1. sweep.do \in {"recheck", "finalize"} =>
          sweep.session \in Sessions /\ PaidInFull(sweep.session)
    BY SweepFields DEF Inv, DecidedInv
  <2> QED BY <1>1, <2>1, TasksKept
<1>3. ASSUME NEW s \in Sessions, Pay(s) PROVE Facts'
  <2>1. /\ row[s] # "none"
        /\ \A x \in Sessions \ {s} : charge'[x] = charge[x]
        /\ UNCHANGED <<row, pay>>
    BY <1>3 DEF Pay, rows, orders, Inv, TypeOK
  <2>2. UnopenedInv'
    BY <1>1, <2>1 DEF Inv, UnopenedInv
  <2>3. PaidIsBacked' /\ CapturesAreInvoiced'
    BY <1>1, <2>1 DEF Inv, PaidIsBacked, CapturesAreInvoiced, PaidInFull
  <2> QED BY <2>2, <2>3 DEF Facts
<1>4. ASSUME NEW s \in Sessions, Refund(s) PROVE Facts'
  <2>1. /\ row[s] \in {"CAPTURED", "PARTIALLY_REFUNDED"} /\ orderOf[s] \notin Cod /\ charge[s] = "full"
        /\ row'[s] \in {"PARTIALLY_REFUNDED", "REFUNDED"}
        /\ \A x \in Sessions \ {s} : row'[x] = row[x] /\ charge'[x] = charge[x]
        /\ charge'[s] \in {"full", "returned"}
        /\ \A o \in Orders : o # orderOf[s] => pay'[o] = pay[o]
    BY <1>4 DEF Refund, Inv, TypeOK
  <2>2. UnopenedInv'
    BY <1>1, <2>1 DEF Inv, UnopenedInv
  <2>3. PaidIsBacked'
    BY <1>1, <2>1 DEF Inv, PaidIsBacked, PaidInFull
  <2>4. CapturesAreInvoiced'
    BY <1>1, <2>1 DEF Inv, CapturesAreInvoiced, Settled
  <2> QED BY <2>2, <2>3, <2>4 DEF Facts
<1>5. CASE ~\E s \in Sessions : Pay(s) \/ Refund(s)
  <2>1. UNCHANGED <<charge, row, pay>>
    BY <1>5 DEF Environment, Decline, GrowOld, CancelOrder, Reprice, gateway, rows, orders
  <2> QED BY <1>1, <1>2, <2>1, FactsKept
<1> QED BY <1>2, <1>3, <1>4, <1>5

LEMMA NextInv == Inv /\ [Next]_vars => Inv'
<1>1. ASSUME Inv, UNCHANGED vars PROVE Inv'
  BY <1>1 DEF Inv, vars, gateway, rows, orders, TypeOK, UnopenedInv, DecidedInv,
              PaidIsBacked, CapturesAreInvoiced, PaidInFull
<1>2. ASSUME Inv, NEW w \in Workers, Handle(w) PROVE Facts' /\ DecidedInv'
  BY <1>2, QuietHandlers, CreateSessionKeeps, WritersKeep DEF Handle
<1>3. ASSUME Inv, Next PROVE Inv'
  <2>1. TypeOK'
    BY <1>3, TypeStep DEF Inv
  <2>2. Facts' /\ DecidedInv'
    BY <1>2, <1>3, CallFacts, QuietHandlers, SweepKeeps, EnvironmentKeeps DEF Next
  <2> QED BY <2>1, <2>2 DEF Inv, Facts
<1> QED BY <1>1, <1>3

\* An order is PAID, and a gateway payment CAPTURED, only with the buyer's money:
\* in every interleaving of the verify calls, the webhooks, the dismissals, the
\* refunds and the reconciliation.
THEOREM Backed == Spec => []PaidIsBacked
<1>1. Inv => PaidIsBacked
  BY DEF Inv
<1> QED BY <1>1, InitInv, NextInv, PTL DEF Spec

\* No captured payment is without the invoice and cart events of its order.
THEOREM Invoiced == Spec => []CapturesAreInvoiced
<1>1. Inv => CapturesAreInvoiced
  BY DEF Inv
<1> QED BY <1>1, InitInv, NextInv, PTL DEF Spec

-----------------------------------------------------------------------------
(***************************************************************************)
(* What a failed payment leads to.                                         *)
(***************************************************************************)
\* The order was given up or paid, or a handler is about to give it up.
Settling(o) ==
  \/ cancelled[o] \/ pay[o] \in Settled
  \/ \E w \in Workers : task[w].do \in {"giveUp", "void"} /\ task[w].order = o

\* Every FAILED row's order is, unless a handler crashed.
FailureInv ==
  faults = 0 => \A s \in Sessions : row[s] = "FAILED" => Settling(orderOf[s])

\* It holds first.
LEMMA InitFailure == Init => FailureInv
BY DEF Init, FailureInv

\* A step that fails no payment and gives up no order.
LEMMA FailureKept ==
  ASSUME Inv, FailureInv, faults' = 0 => faults = 0, UNCHANGED orderOf,
         \A s \in Sessions : row'[s] = "FAILED" => row[s] = "FAILED",
         \A o \in Orders : Settling(o) => Settling(o)'
  PROVE  FailureInv'
BY DEF Inv, TypeOK, FailureInv

\* A worker that was giving up no order leaves the others' tasks.
LEMMA SettlingKept ==
  ASSUME Inv, NEW w \in Workers, NEW t, task' = [task EXCEPT ![w] = t],
         task[w].do \notin {"giveUp", "void"},
         \A o \in Orders : /\ cancelled[o] => cancelled'[o]
                           /\ pay[o] \in Settled => pay'[o] \in Settled
  PROVE  \A o \in Orders : Settling(o) => Settling(o)'
<1>1. \A v \in Workers \ {w} : task'[v] = task[v]
  BY DEF Inv, TypeOK
<1> QED BY <1>1 DEF Settling

\* A call keeps it,
LEMMA FailureCall ==
  ASSUME Inv, FailureInv, NEW w \in Workers, Call(w)
  PROVE  FailureInv'
<1>1. /\ UNCHANGED <<orderOf, row, cancelled, faults>> /\ task[w] = Idle
      /\ \E t : task' = [task EXCEPT ![w] = t]
  BY DEF Call, InitiateCheckout, VerifyPayment, CancelCheckout, WebhookCaptured, WebhookFailed,
         Start, gateway, rows, orders
<1>2. \A o \in Orders : pay[o] \in Settled => pay'[o] \in Settled
  <2>1. ASSUME NEW x \in Orders, InitiateCheckout(w, x), NEW o \in Orders, pay[o] \in Settled
        PROVE  pay'[o] \in Settled
    BY <2>1 DEF InitiateCheckout, Inv, TypeOK, Settled
  <2>2. (\A x \in Orders : ~InitiateCheckout(w, x)) => UNCHANGED pay
    BY DEF Call, VerifyPayment, CancelCheckout, WebhookCaptured, WebhookFailed, orders
  <2> QED BY <2>1, <2>2
<1>3. Idle.do \notin {"giveUp", "void"}
  BY DEF Idle
<1> QED BY <1>1, <1>2, <1>3, SettlingKept, FailureKept

\* so do the handlers' other steps,
LEMMA FailureHandled ==
  ASSUME Inv, FailureInv, NEW w \in Workers,
         \/ FindSession(w) \/ CreatePayment(w) \/ FinalizeCapturedPayment(w)
         \/ CheckPayment(w) \/ DismissPayment(w)
  PROVE  FailureInv'
<1>1. /\ UNCHANGED <<orderOf, cancelled, faults>> /\ task[w].do \notin {"giveUp", "void"}
      /\ \E t : task' = [task EXCEPT ![w] = t]
  BY DEF FindSession, CreatePayment, FinalizeCapturedPayment, CheckPayment, DismissPayment,
         Doing, Then, Finalize, gateway, orders
<1>2. /\ \A o \in Orders : pay[o] \in Settled => pay'[o] \in Settled
      /\ \A s \in Sessions : row'[s] = "FAILED" => row[s] = "FAILED"
  <2>1. CASE CreatePayment(w)
    BY <2>1 DEF CreatePayment, orders, Inv, TypeOK
  <2>2. CASE FinalizeCapturedPayment(w)
    BY <2>2 DEF FinalizeCapturedPayment, Finalize, Inv, TypeOK, Settled
  <2>3. CASE FindSession(w) \/ CheckPayment(w) \/ DismissPayment(w)
    BY <2>3 DEF FindSession, CheckPayment, DismissPayment, rows, orders
  <2> QED BY <2>1, <2>2, <2>3
<1> QED BY <1>1, <1>2, SettlingKept, FailureKept

\* and a session that is opened.
LEMMA FailureOpened ==
  ASSUME Inv, FailureInv, NEW w \in Workers, CreateSession(w)
  PROVE  FailureInv'
<1> DEFINE s == opened + 1
<1>0. s \in Sessions
  BY CheckoutConstantsOK DEF CreateSession, Inv, TypeOK, Sessions
<1>1. /\ \A x \in Sessions \ {s} : orderOf'[x] = orderOf[x]
      /\ UNCHANGED <<row, pay, cancelled, faults>> /\ task[w].do \notin {"giveUp", "void"}
      /\ \E t : task' = [task EXCEPT ![w] = t]
  <2>1. \A x \in Sessions \ {s} : orderOf'[x] = orderOf[x]
    BY DEF CreateSession, Inv, TypeOK
  <2> QED BY <2>1 DEF CreateSession, Doing, Then, rows, orders
<1>2. row[s] = "none"
  BY <1>0, CheckoutConstantsOK DEF Inv, UnopenedInv, TypeOK
<1>3. \A o \in Orders : Settling(o) => Settling(o)'
  <2> HIDE DEF s
  <2> QED BY <1>1, SettlingKept
<1>4. ASSUME faults' = 0, NEW x \in Sessions, row'[x] = "FAILED" PROVE Settling(orderOf[x])'
  <2>1. x # s /\ row[x] = "FAILED" /\ faults = 0
    BY <1>1, <1>2, <1>4
  <2>2. orderOf[x] \in Orders /\ Settling(orderOf[x])
    BY <2>1 DEF FailureInv, Inv, TypeOK
  <2>3. PICK o \in Orders : o = orderOf[x]
    BY <2>2
  <2>4. orderOf'[x] = o /\ Settling(o)'
    BY <1>1, <1>3, <2>1, <2>2, <2>3
  <2> QED BY <2>4 DEF Settling
<1> QED BY <1>4 DEF FailureInv

\* A payment that fails hands its order to GiveUp, and GiveUp to VoidOrder.
LEMMA FailureGivenUp ==
  ASSUME Inv, FailureInv, NEW w \in Workers, FailPayment(w) \/ GiveUp(w) \/ VoidOrder(w)
  PROVE  FailureInv'
<1>1. UNCHANGED <<orderOf, faults>> /\ \A v \in Workers \ {w} : task'[v] = task[v]
  BY DEF FailPayment, GiveUp, VoidOrder, Then, gateway, Inv, TypeOK
<1>2. CASE FailPayment(w)
  <2>1. PICK s \in Sessions : s = task[w].session /\ task[w].do = "failRow"
    BY <1>2, TaskFields DEF FailPayment, Doing, Inv
  <2>2. /\ \A x \in Sessions \ {s} : row'[x] = row[x]
        /\ UNCHANGED <<pay, cancelled>>
        /\ task'[w] = [do |-> "giveUp", order |-> orderOf[s]]
    BY <1>2, <2>1 DEF FailPayment, Then, orders, Inv, TypeOK
  <2>3. task'[w].do = "giveUp" /\ task'[w].order = orderOf[s]
    BY <2>2
  <2>4. \A o : Settling(o) => Settling(o)'
    BY <1>1, <2>1, <2>2 DEF Settling
  <2>5. Settling(orderOf[s])'
    BY <1>1, <2>3 DEF Settling
  <2> QED BY <1>1, <2>2, <2>4, <2>5 DEF FailureInv, Settling
<1>3. CASE GiveUp(w)
  <2>1. PICK o \in Orders : o = task[w].order /\ task[w].do = "giveUp"
    BY <1>3, TaskFields DEF GiveUp, Doing, Inv
  <2>2. UNCHANGED <<row, pay, cancelled>>
    BY <1>3 DEF GiveUp, rows, orders
  <2>3. \A x \in Orders \ {o} : Settling(x) => Settling(x)'
    BY <1>1, <2>1, <2>2 DEF Settling
  <2>4. Settling(o)'
    <3>1. CASE MayGiveUp(o)
      <4>1. task'[w] = [do |-> "void", order |-> o]
        BY <1>3, <2>1, <3>1 DEF GiveUp, Then, Inv, TypeOK
      <4>2. task'[w].do = "void" /\ task'[w].order = o
        BY <4>1
      <4> QED BY <4>2 DEF Settling
    <3>2. CASE ~MayGiveUp(o)
      BY <2>2, <3>2 DEF MayGiveUp, Settling, Settled
    <3> QED BY <3>1, <3>2
  <2> QED BY <1>1, <2>2, <2>3, <2>4, FailureKept
<1>4. CASE VoidOrder(w)
  <2>1. PICK o \in Orders : o = task[w].order /\ task[w].do = "void"
    BY <1>4, TaskFields DEF VoidOrder, Doing, Inv
  <2>2. /\ UNCHANGED row /\ cancelled'[o]
        /\ \A x \in Orders \ {o} : cancelled'[x] = cancelled[x] /\ pay'[x] = pay[x]
    BY <1>4, <2>1 DEF VoidOrder, rows, Inv, TypeOK
  <2>3. \A x \in Orders : Settling(x) => Settling(x)'
    BY <1>1, <2>1, <2>2 DEF Settling
  <2> QED BY <1>1, <2>2, <2>3, FailureKept
<1> QED BY <1>2, <1>3, <1>4

\* The reconciliation and the environment give up no handler's order.
LEMMA FailureOutside ==
  ASSUME Inv, FailureInv, Reconcile \/ SweepFails \/ Environment
  PROVE  FailureInv'
<1>1. UNCHANGED <<orderOf, task>>
  BY DEF Reconcile, StartSweep, AskGateway, Recheck, SweepFinalize, SweepFails, Environment,
         Pay, Decline, GrowOld, Refund, CancelOrder, Reprice, gateway
<1>2. faults' = 0 => faults = 0
  <2>1. SweepFails => faults' # 0
    BY DEF SweepFails, Fault, Inv, TypeOK
  <2>2. Reconcile \/ Environment => UNCHANGED faults
    BY DEF Reconcile, StartSweep, AskGateway, Recheck, SweepFinalize, Environment,
           Pay, Decline, GrowOld, Refund, CancelOrder, Reprice
  <2> QED BY <2>1, <2>2
<1>3. /\ \A o \in Orders : /\ cancelled[o] => cancelled'[o]
                           /\ pay[o] \in Settled => pay'[o] \in Settled
      /\ \A s \in Sessions : row'[s] = "FAILED" => row[s] = "FAILED"
  <2>1. CASE SweepFinalize
    BY <2>1 DEF SweepFinalize, Finalize, Inv, TypeOK, Settled
  <2>2. ASSUME NEW s \in Sessions, Refund(s)
        PROVE  /\ UNCHANGED cancelled
               /\ \A o \in Orders : pay[o] \in Settled => pay'[o] \in Settled
               /\ \A x \in Sessions : row'[x] = "FAILED" => row[x] = "FAILED"
    BY <2>2 DEF Refund, Inv, TypeOK, Settled
  <2>3. ASSUME NEW o \in Orders, CancelOrder(o)
        PROVE  UNCHANGED <<row, pay>> /\ \A x \in Orders : cancelled[x] => cancelled'[x]
    BY <2>3 DEF CancelOrder, rows, Inv, TypeOK
  <2>4. \/ SweepFinalize \/ (\E s \in Sessions : Refund(s)) \/ (\E o \in Orders : CancelOrder(o))
        \/ UNCHANGED <<row, pay, cancelled>>
    BY DEF Reconcile, StartSweep, AskGateway, Recheck, SweepFails, Environment, Pay, Decline,
           GrowOld, Reprice, rows, orders
  <2>5. SweepFinalize => UNCHANGED cancelled
    BY DEF SweepFinalize, Finalize
  <2> QED BY <2>1, <2>2, <2>3, <2>4, <2>5
<1>4. \A o \in Orders : Settling(o) => Settling(o)'
  BY <1>1, <1>3 DEF Settling
<1> QED BY <1>1, <1>2, <1>3, <1>4, FailureKept

\* So every step does.
LEMMA FailureNext == Inv /\ FailureInv /\ [Next]_vars => FailureInv'
<1> SUFFICES ASSUME Inv, FailureInv, [Next]_vars PROVE FailureInv'
  OBVIOUS
<1>1. ASSUME NEW w \in Workers, Handle(w) PROVE FailureInv'
  BY <1>1, FailureHandled, FailureOpened, FailureGivenUp DEF Handle
<1>2. ASSUME NEW w \in Workers, Abandon(w) PROVE FailureInv'
  BY <1>2 DEF Abandon, Fault, FailureInv, Inv, TypeOK
<1>3. CASE UNCHANGED vars
  BY <1>3 DEF vars, gateway, rows, orders, FailureInv, Settling
<1> QED BY <1>1, <1>2, <1>3, FailureCall, FailureOutside DEF Next

\* With the handlers done, nobody is about to give the order up any more.
LEMMA FailureMeans == FailureInv => FailureCancels
BY DEF FailureInv, FailureCancels, Settling, Idle

\* Unless a handler crashed, an order whose payment failed is cancelled or paid once the
\* handlers are done, however they overlapped.
THEOREM GivenUp == Spec => []FailureCancels
BY InitInv, NextInv, InitFailure, FailureNext, FailureMeans, PTL DEF Spec

-----------------------------------------------------------------------------
(***************************************************************************)
(* One checkout at a time.                                                 *)
(***************************************************************************)

\* The worker is in initiateCheckout.
InCheckout(w) == task[w].do \in {"reuse", "open", "record"}

\* At most one is.
AloneInv == \A v, w \in Workers : InCheckout(v) /\ InCheckout(w) => v = w

\* The sessions with a row.
Recorded == {s \in Sessions : row[s] # "none"}

\* What the handlers and the reconciliation hold has a row.
KnownInv ==
  /\ \A w \in Workers : task[w].do \in {"check", "finalize", "failRow"}
                          => task[w].session \in Recorded
  /\ sweep.todo \subseteq Recorded
  /\ sweep.do \in {"recheck", "finalize"} => sweep.session \in Recorded

\* No row is dearer than a, and no live one of the order has that price.
Fresh(o, a) ==
  \A s \in Recorded : /\ amount[s] =< a
                      /\ orderOf[s] = o /\ row[s] = "CREATED" => amount[s] # a

\* Later rows are not cheaper; a checkout carries a price no live row of its order has.
PriceInv ==
  /\ \A s \in Recorded : /\ amount[s] =< fee /\ rank[s] =< Cardinality(Recorded)
                         /\ row[s] = "CREATED" => orderOf[s] \notin Cod
  /\ \A s, t \in Recorded : rank[s] =< rank[t] => amount[s] =< amount[t]
  /\ \A w \in Workers :
       /\ task[w].do = "open" => task[w].amount =< fee /\ Fresh(task[w].order, task[w].amount)
       /\ task[w].do = "record" =>
            /\ task[w].session \notin Recorded /\ amount[task[w].session] =< fee
            /\ Fresh(orderOf[task[w].session], amount[task[w].session])
  /\ OneLiveSession

\* The invariant of one checkout at a time.
SessionInv == AloneInv /\ KnownInv /\ PriceInv

\* It holds first.
LEMMA InitSession == Init => SessionInv
<1> SUFFICES ASSUME Init PROVE SessionInv
  OBVIOUS
<1>1. Recorded = {}
  BY DEF Init, Recorded
<1>2. \A w \in Workers : task[w].do = "idle"
  BY DEF Init, Idle
<1>3. OneLiveSession
  BY DEF Init, OneLiveSession
<1>4. sweep.do = "idle" /\ sweep.todo = {}
  BY DEF Init, NotSweeping
<1> QED BY <1>1, <1>2, <1>3, <1>4 DEF SessionInv, AloneInv, InCheckout, KnownInv, PriceInv

\* There are finitely many.
LEMMA RecordedFinite ==
  /\ IsFiniteSet(Recorded) /\ Cardinality(Recorded) \in Nat
  /\ \A S \in SUBSET Recorded : IsFiniteSet(S)
<1>1. IsFiniteSet(Sessions)
  BY FS_Interval, CheckoutConstantsOK DEF Sessions
<1>2. Recorded \in SUBSET Sessions
  BY DEF Recorded
<1> HIDE DEF Recorded
<1>3. IsFiniteSet(Recorded)
  BY <1>1, <1>2, FS_Subset
<1> QED BY <1>3, FS_Subset, FS_CardinalityType

\* Rows that are live have a latest one.
LEMMA LatestExists ==
  ASSUME TypeOK, NEW S \in SUBSET Recorded, S # {}, \A s \in S : rank[s] =< Cardinality(Recorded)
  PROVE  \E s \in S : IsLatest(s, S)
<1>1. PICK n \in Nat : n = Cardinality(Recorded)
  BY RecordedFinite
<1>2. \A s \in S : rank[s] \in Nat /\ rank[s] =< n
  BY <1>1 DEF TypeOK, Recorded
<1> DEFINE B == {n - rank[s] : s \in S}
<1>3. B \in SUBSET Nat /\ B # {}
  BY <1>2
<1>4. PICK m \in B : \A k \in B : m =< k
  <2> HIDE DEF B
  <2> QED BY <1>3, LeastNat
<1>5. PICK s \in S : m = n - rank[s]
  BY <1>4
<1>6. \A t \in S : n - rank[s] =< n - rank[t]
  BY <1>4, <1>5
<1> QED BY <1>2, <1>5, <1>6 DEF IsLatest

\* A step that opens and records no session, and brings none back to life.
LEMMA PriceKept ==
  ASSUME Inv, PriceInv, UNCHANGED <<orderOf, amount, rank>>, fee' \in Nat, fee =< fee',
         \A s \in Sessions : /\ row'[s] = "none" <=> row[s] = "none"
                             /\ row'[s] = "CREATED" => row[s] = "CREATED",
         \A w \in Workers : task'[w].do \in {"open", "record"} => task'[w] = task[w]
  PROVE  PriceInv'
<1>1. Recorded' = Recorded
  BY DEF Recorded
<1>2. /\ \A s \in Sessions : amount[s] \in Nat /\ rank[s] \in Nat
      /\ fee \in Nat /\ Recorded \subseteq Sessions
  BY DEF Inv, TypeOK, Recorded
<1>3. \A o, a : Fresh(o, a) => Fresh(o, a)'
  BY <1>1, <1>2 DEF Fresh
<1>4. /\ \A s \in Recorded : /\ amount[s] =< fee' /\ rank[s] =< Cardinality(Recorded)
                             /\ row'[s] = "CREATED" => orderOf[s] \notin Cod
      /\ \A s, t \in Recorded : rank[s] =< rank[t] => amount[s] =< amount[t]
  BY <1>2 DEF PriceInv
<1>5. ASSUME NEW w \in Workers, task'[w].do = "open"
      PROVE  task'[w].amount =< fee' /\ Fresh(task[w].order, task[w].amount)'
  <2>1. PICK o, a : o = task[w].order /\ a = task[w].amount
    OBVIOUS
  <2>2. task'[w] = task[w] /\ a \in Nat /\ a =< fee /\ Fresh(o, a)'
    BY <1>3, <1>5, <2>1, TaskFields DEF PriceInv, Inv
  <2>3. task'[w].order = o /\ task'[w].amount = a /\ a =< fee'
    BY <1>2, <2>1, <2>2
  <2> QED BY <2>2, <2>3 DEF Fresh
<1>6. ASSUME NEW w \in Workers, task'[w].do = "record"
      PROVE  /\ task'[w].session \notin Recorded' /\ amount'[task'[w].session] =< fee'
             /\ Fresh(orderOf[task[w].session], amount[task[w].session])'
  <2>1. PICK s : s = task[w].session
    OBVIOUS
  <2>2. /\ task'[w] = task[w] /\ s \in Sessions /\ s \notin Recorded /\ amount[s] =< fee
        /\ Fresh(orderOf[s], amount[s])
    BY <1>6, <2>1, TaskFields DEF PriceInv, Inv
  <2>3. PICK o, a : o = orderOf[s] /\ a = amount[s]
    OBVIOUS
  <2>4. Fresh(o, a)'
    BY <1>3, <2>2, <2>3
  <2>5. task'[w].session = s /\ orderOf'[s] = o /\ amount'[s] = a /\ a =< fee'
    BY <1>2, <2>1, <2>2, <2>3
  <2>6. Fresh(orderOf[task[w].session], amount[task[w].session])'
    BY <2>4, <2>5 DEF Fresh
  <2> QED BY <1>1, <2>1, <2>2, <2>3, <2>5, <2>6
<1>7. OneLiveSession'
  BY DEF PriceInv, OneLiveSession
<1>8. \A w \in Workers :
       /\ task'[w].do = "open" =>
            task'[w].amount =< fee' /\ Fresh(task[w].order, task[w].amount)'
       /\ task'[w].do = "record" =>
            /\ task'[w].session \notin Recorded' /\ amount'[task'[w].session] =< fee'
            /\ Fresh(orderOf[task[w].session], amount[task[w].session])'
  BY <1>5, <1>6
<1> HIDE DEF Recorded, Fresh
<1> QED BY <1>1, <1>4, <1>7, <1>8 DEF PriceInv

\* One worker takes a new task; no row is taken away.
LEMMA KnownKept ==
  ASSUME Inv, KnownInv, NEW w \in Workers, NEW t, task' = [task EXCEPT ![w] = t],
         \A s \in Sessions : row'[s] = "none" => row[s] = "none",
         t.do \in {"check", "finalize", "failRow"} => t.session \in Recorded,
         UNCHANGED sweep
  PROVE  KnownInv'
<1>1. Recorded \subseteq Recorded'
  BY DEF Recorded
<1>2. \A v \in Workers : task'[v] = IF v = w THEN t ELSE task[v]
  BY DEF Inv, TypeOK
<1> QED BY <1>1, <1>2 DEF KnownInv

\* A checkout goes on, or begins when no other is under way.
LEMMA AloneKept ==
  ASSUME Inv, AloneInv, NEW w \in Workers, NEW t, task' = [task EXCEPT ![w] = t],
         t.do \in {"reuse", "open", "record"} =>
           InCheckout(w) \/ \A v \in Workers : ~InCheckout(v)
  PROVE  AloneInv'
<1>1. \A v \in Workers : task'[v] = IF v = w THEN t ELSE task[v]
  BY DEF Inv, TypeOK
<1> QED BY <1>1 DEF AloneInv, InCheckout

-----------------------------------------------------------------------------
\* A step of one worker that is no step of a checkout.
LEMMA SessionTurn ==
  ASSUME Inv, SessionInv, NEW w \in Workers, NEW t, task' = [task EXCEPT ![w] = t],
         UNCHANGED <<orderOf, amount, rank, fee, sweep>>,
         \A s \in Sessions : /\ row'[s] = "none" <=> row[s] = "none"
                             /\ row'[s] = "CREATED" => row[s] = "CREATED",
         t.do \notin {"open", "record"},
         t.do \in {"check", "finalize", "failRow"} => t.session \in Recorded,
         t.do = "reuse" => \A v \in Workers : ~InCheckout(v)
  PROVE  SessionInv'
<1>1. \A v \in Workers : task'[v] = IF v = w THEN t ELSE task[v]
  BY DEF Inv, TypeOK
<1>2. fee' \in Nat /\ fee =< fee'
  BY DEF Inv, TypeOK
<1>3. \A v \in Workers : task'[v].do \in {"open", "record"} => task'[v] = task[v]
  BY <1>1
<1>4. PriceInv'
  BY <1>2, <1>3, PriceKept DEF SessionInv
<1>5. KnownInv' /\ AloneInv'
  BY KnownKept, AloneKept DEF SessionInv
<1> QED BY <1>4, <1>5 DEF SessionInv

\* A checkout begins when none is under way.
LEMMA NoneUnderWay ==
  ASSUME MaxCheckouts =< 1, NEW w \in Workers, NEW o \in Orders, InitiateCheckout(w, o)
  PROVE  \A v \in Workers : ~InCheckout(v)
<1> DEFINE C == {v \in Workers : task[v].do \in {"reuse", "open", "record"}}
<1>1. IsFiniteSet(C)
  BY CheckoutConstantsOK, FS_Subset
<1>2. Cardinality(C) < MaxCheckouts
  BY DEF InitiateCheckout
<1>3. C = {}
  <2> HIDE DEF C
  <2>1. Cardinality(C) \in Nat /\ MaxCheckouts \in Nat
    BY <1>1, CheckoutConstantsOK, FS_CardinalityType
  <2>2. Cardinality(C) = 0
    BY <1>2, <2>1
  <2> QED BY <1>1, <2>2, FS_EmptySet
<1> QED BY <1>3 DEF InCheckout

\* A call keeps the invariant,
LEMMA SessionCall ==
  ASSUME MaxCheckouts =< 1, Inv, SessionInv, NEW w \in Workers, Call(w)
  PROVE  SessionInv'
<1>1. UNCHANGED <<orderOf, amount, rank, row, fee, sweep>>
  BY DEF Call, InitiateCheckout, VerifyPayment, CancelCheckout, WebhookCaptured,
         WebhookFailed, gateway, rows
<1>2. PICK t : /\ task' = [task EXCEPT ![w] = t]
               /\ t.do \notin {"open", "record"}
               /\ t.do \in {"check", "finalize", "failRow"} => t.session \in Recorded
               /\ t.do = "reuse" => \A v \in Workers : ~InCheckout(v)
  <2>1. ASSUME NEW o \in Orders, NEW do \in {"reuse", "dismiss"},
               Start(w, [do |-> do, order |-> o])
        PROVE  \E t : task' = [task EXCEPT ![w] = t] /\ t.do = do
    <3>1. PICK t : t = [do |-> do, order |-> o]
      OBVIOUS
    <3>2. t.do = do
      BY <3>1
    <3> QED BY <2>1, <3>1, <3>2 DEF Start
  <2>2. ASSUME NEW s \in Sessions, NEW do \in {"check", "finalize", "failRow"},
               Start(w, [do |-> do, session |-> s])
        PROVE  \E t : task' = [task EXCEPT ![w] = t] /\ t.do = do /\ t.session = s
    <3>1. PICK t : t = [do |-> do, session |-> s]
      OBVIOUS
    <3>2. t.do = do /\ t.session = s
      BY <3>1
    <3> QED BY <2>2, <3>1, <3>2 DEF Start
  <2>3. ASSUME NEW o \in Orders, InitiateCheckout(w, o)
        PROVE  /\ \A v \in Workers : ~InCheckout(v)
               /\ \E t : task' = [task EXCEPT ![w] = t] /\ t.do = "reuse"
    BY <2>1, <2>3, NoneUnderWay DEF InitiateCheckout
  <2>4. ASSUME NEW o \in Orders, CancelCheckout(w, o)
        PROVE  \E t : task' = [task EXCEPT ![w] = t] /\ t.do = "dismiss"
    BY <2>1, <2>4 DEF CancelCheckout
  <2>5. ASSUME NEW o \in Orders, VerifyPayment(w, o)
        PROVE  \E t : task' = [task EXCEPT ![w] = t] /\ t.do = "check" /\ t.session \in Recorded
    <3>1. PICK s \in Sessions : row[s] # "none" /\ Start(w, [do |-> "check", session |-> s])
      BY <2>5 DEF VerifyPayment, IsLatest, RowsOf
    <3>2. PICK t : task' = [task EXCEPT ![w] = t] /\ t.do = "check" /\ t.session = s
      BY <2>2, <3>1
    <3> QED BY <3>1, <3>2 DEF Recorded
  <2>6. ASSUME NEW s \in Sessions, WebhookCaptured(w, s) \/ WebhookFailed(w, s)
        PROVE  \E t : /\ task' = [task EXCEPT ![w] = t] /\ t.do \in {"finalize", "failRow"}
                      /\ t.session \in Recorded
    <3>1. s \in Recorded
      BY <2>6 DEF WebhookCaptured, WebhookFailed, Unsettled, Recorded
    <3>2. CASE WebhookCaptured(w, s)
      <4>1. PICK t : task' = [task EXCEPT ![w] = t] /\ t.do = "finalize" /\ t.session = s
        BY <2>2, <3>2 DEF WebhookCaptured
      <4> QED BY <3>1, <4>1
    <3>3. CASE WebhookFailed(w, s)
      <4>1. PICK t : task' = [task EXCEPT ![w] = t] /\ t.do = "failRow" /\ t.session = s
        BY <2>2, <3>3 DEF WebhookFailed
      <4> QED BY <3>1, <4>1
    <3> QED BY <2>6, <3>2, <3>3
  <2> QED BY <2>3, <2>4, <2>5, <2>6 DEF Call
<1> QED BY <1>1, <1>2, SessionTurn

\* so do the handlers outside a checkout.
LEMMA SessionHandled ==
  ASSUME Inv, SessionInv, NEW w \in Workers,
         \/ FinalizeCapturedPayment(w) \/ CheckPayment(w) \/ FailPayment(w)
         \/ DismissPayment(w) \/ GiveUp(w) \/ VoidOrder(w) \/ Abandon(w)
  PROVE  SessionInv'
<1>1. UNCHANGED <<orderOf, amount, rank, fee, sweep>>
  BY DEF FinalizeCapturedPayment, CheckPayment, FailPayment, DismissPayment, GiveUp, VoidOrder,
         Abandon, Finalize, gateway, rows
<1>2. task[w].do \in {"check", "finalize", "failRow"} =>
        task[w].session \in Recorded /\ task[w].session \in Sessions
  BY TaskFields DEF Inv, SessionInv, KnownInv
<1>3. \A s \in Sessions : /\ row'[s] = "none" <=> row[s] = "none"
                          /\ row'[s] = "CREATED" => row[s] = "CREATED"
  <2>1. CASE FinalizeCapturedPayment(w)
    BY <1>2, <2>1 DEF FinalizeCapturedPayment, Finalize, Doing, Recorded, Inv, TypeOK
  <2>2. CASE FailPayment(w)
    BY <1>2, <2>2 DEF FailPayment, Doing, Recorded, Inv, TypeOK
  <2>3. CASE ~FinalizeCapturedPayment(w) /\ ~FailPayment(w)
    BY <2>3 DEF CheckPayment, DismissPayment, GiveUp, VoidOrder, Abandon, rows
  <2> QED BY <2>1, <2>2, <2>3
<1>4. PICK t : /\ task' = [task EXCEPT ![w] = t]
               /\ \/ t.do \in {"idle", "giveUp", "void"}
                  \/ t.do \in {"finalize", "failRow"} /\ t.session \in Recorded
  <2>1. Then(w, Idle) => \E t : task' = [task EXCEPT ![w] = t] /\ t.do = "idle"
    <3>1. Idle.do = "idle"
      BY DEF Idle
    <3> QED BY <3>1 DEF Then
  <2>2. ASSUME NEW o, NEW do \in {"giveUp", "void"}, Then(w, [do |-> do, order |-> o])
        PROVE  \E t : task' = [task EXCEPT ![w] = t] /\ t.do = do
    <3>1. PICK t : t = [do |-> do, order |-> o]
      OBVIOUS
    <3>2. t.do = do
      BY <3>1
    <3> QED BY <2>2, <3>1, <3>2 DEF Then
  <2>3. ASSUME NEW s \in Recorded, NEW do \in {"finalize", "failRow"},
               Then(w, [do |-> do, session |-> s])
        PROVE  \E t : task' = [task EXCEPT ![w] = t] /\ t.do = do /\ t.session \in Recorded
    <3>1. PICK t : t = [do |-> do, session |-> s]
      OBVIOUS
    <3>2. t.do = do /\ t.session = s
      BY <3>1
    <3> QED BY <2>3, <3>1, <3>2 DEF Then
  <2>4. CASE FinalizeCapturedPayment(w) \/ VoidOrder(w) \/ Abandon(w)
    BY <2>1, <2>4 DEF FinalizeCapturedPayment, VoidOrder, Abandon
  <2>5. CASE CheckPayment(w)
    <3>1. task[w].session \in Recorded
      BY <1>2, <2>5 DEF CheckPayment, Doing
    <3>2. Then(w, Idle) \/ Then(w, [do |-> "finalize", session |-> task[w].session])
      BY <2>5 DEF CheckPayment
    <3> QED BY <2>1, <2>3, <3>1, <3>2
  <2>6. CASE FailPayment(w)
    BY <2>2, <2>6 DEF FailPayment
  <2>7. CASE DismissPayment(w)
    <3>1. \/ Then(w, [do |-> "giveUp", order |-> task[w].order]) \/ Then(w, Idle)
          \/ \E s \in Recorded : Then(w, [do |-> "failRow", session |-> s])
      BY <2>7 DEF DismissPayment, IsLatest, RowsOf, Recorded
    <3> QED BY <2>1, <2>2, <2>3, <3>1
  <2>8. CASE GiveUp(w)
    <3>1. Then(w, [do |-> "void", order |-> task[w].order]) \/ Then(w, Idle)
      BY <2>8 DEF GiveUp
    <3> QED BY <2>1, <2>2, <3>1
  <2> QED BY <2>4, <2>5, <2>6, <2>7, <2>8
<1> QED BY <1>1, <1>3, <1>4, SessionTurn

\* The reconciliation and the environment.
LEMMA SessionOutside ==
  ASSUME Inv, SessionInv, Reconcile \/ SweepFails \/ Environment
  PROVE  SessionInv'
<1>1. UNCHANGED <<orderOf, amount, rank, task>> /\ fee' \in Nat /\ fee =< fee'
  <2>1. UNCHANGED <<orderOf, amount, rank, task>> /\ (fee' = fee \/ fee' = fee + 1)
    BY DEF Reconcile, StartSweep, AskGateway, Recheck, SweepFinalize, Finalize, SweepFails,
           Environment, Pay, Decline, GrowOld, Refund, CancelOrder, Reprice, gateway, rows
  <2> QED BY <2>1 DEF Inv, TypeOK
<1>2. KnownInv /\ sweep.todo \subseteq Recorded
  BY DEF SessionInv, KnownInv
<1>3. \A s \in Sessions : /\ row'[s] = "none" <=> row[s] = "none"
                          /\ row'[s] = "CREATED" => row[s] = "CREATED"
  <2>1. CASE SweepFinalize
    <3>1. sweep.session \in Sessions /\ row[sweep.session] # "none"
      BY <1>2, <2>1, SweepFields DEF SweepFinalize, KnownInv, Recorded, Inv
    <3> QED BY <2>1, <3>1 DEF SweepFinalize, Finalize, Inv, TypeOK
  <2>2. ASSUME NEW x \in Sessions, Refund(x), NEW s \in Sessions
        PROVE  /\ row'[s] = "none" <=> row[s] = "none"
               /\ row'[s] = "CREATED" => row[s] = "CREATED"
    BY <2>2 DEF Refund, Inv, TypeOK
  <2>3. SweepFinalize \/ (\E s \in Sessions : Refund(s)) \/ UNCHANGED row
    BY DEF Reconcile, StartSweep, AskGateway, Recheck, SweepFails, Environment, Pay, Decline,
           GrowOld, CancelOrder, Reprice, rows
  <2> QED BY <2>1, <2>2, <2>3
<1>4. Recorded' = Recorded
  BY <1>3 DEF Recorded
<1>5. PriceInv' /\ AloneInv'
  BY <1>1, <1>3, PriceKept DEF SessionInv, AloneInv, InCheckout
<1>6. /\ sweep'.todo \subseteq Recorded
      /\ sweep'.do \in {"recheck", "finalize"} => sweep'.session \in Recorded
  <2>1. \A S \in SUBSET Recorded : /\ Onward(S).todo \subseteq Recorded
                                   /\ Onward(S).do \notin {"recheck", "finalize"}
    BY DEF Onward, NotSweeping
  <2>2. NotSweeping.todo = {} /\ NotSweeping.do = "idle"
    BY DEF NotSweeping
  <2>3. CASE StartSweep
    <3>1. \A T \in Taken(Pending) : T \in SUBSET Recorded
      BY DEF Taken, Pending, Recorded
    <3> QED BY <2>1, <2>3, <3>1 DEF StartSweep
  <2>4. ASSUME NEW s \in Sessions, AskGateway(s)
        PROVE  /\ sweep'.todo \subseteq Recorded
               /\ sweep'.do \in {"recheck", "finalize"} => sweep'.session \in Recorded
    <3>1. s \in Recorded /\ sweep.todo \ {s} \in SUBSET Recorded
      BY <1>2, <2>4 DEF AskGateway
    <3>2. CASE Captured(s) /\ AmountMatches(s, s)
      <4>1. sweep'.todo = sweep.todo \ {s} /\ sweep'.session = s
        BY <2>4, <3>2 DEF AskGateway
      <4> QED BY <3>1, <4>1
    <3>3. CASE ~(Captured(s) /\ AmountMatches(s, s))
      BY <2>1, <2>4, <3>1, <3>3 DEF AskGateway
    <3> QED BY <3>2, <3>3
  <2>5. CASE Recheck
    <3>1. CASE row[sweep.session] = "CAPTURED"
      BY <1>2, <2>1, <2>5, <3>1 DEF Recheck
    <3>2. CASE row[sweep.session] # "CAPTURED"
      <4>1. sweep'.todo = sweep.todo /\ sweep'.session = sweep.session
        BY <2>5, <3>2 DEF Recheck
      <4>2. sweep.session \in Recorded
        BY <1>2, <2>5 DEF Recheck, KnownInv
      <4> QED BY <1>2, <4>1, <4>2
    <3> QED BY <3>1, <3>2
  <2>6. CASE SweepFinalize
    BY <1>2, <2>1, <2>6 DEF SweepFinalize
  <2>7. CASE SweepFails
    <3>1. \A s : sweep.todo \ {s} \in SUBSET Recorded
      BY <1>2
    <3>2. sweep' = NotSweeping \/ \E S \in SUBSET Recorded : sweep' = Onward(S)
      BY <1>2, <2>7, <3>1 DEF SweepFails
    <3> QED BY <2>1, <2>2, <3>2
  <2>8. CASE Environment
    <3>1. UNCHANGED sweep
      BY <2>8 DEF Environment, Pay, Decline, GrowOld, Refund, CancelOrder, Reprice
    <3> QED BY <1>2, <3>1 DEF KnownInv
  <2> QED BY <2>3, <2>4, <2>5, <2>6, <2>7, <2>8 DEF Reconcile
<1>7. KnownInv'
  BY <1>1, <1>2, <1>4, <1>6 DEF KnownInv
<1> QED BY <1>5, <1>7 DEF SessionInv

\* The checkout finds no session to use again: no live row has the current price.
LEMMA FindKeeps ==
  ASSUME Inv, SessionInv, NEW w \in Workers, FindSession(w)
  PROVE  SessionInv'
<1>1. PICK o \in Orders : o = task[w].order /\ task[w].do = "reuse"
  BY TaskFields DEF FindSession, Doing, Inv
<1>2. UNCHANGED <<orderOf, amount, rank, row, fee, sweep>> /\ InCheckout(w)
  BY <1>1 DEF FindSession, gateway, rows, InCheckout
<1>3. CASE Reusable(o)
  <2>1. task' = [task EXCEPT ![w] = Idle] /\ Idle.do = "idle"
    BY <1>1, <1>3 DEF FindSession, Then, Idle
  <2> QED BY <1>2, <2>1, SessionTurn
<1>4. CASE ~Reusable(o)
  <2>1. PICK t : t = [do |-> "open", order |-> o, amount |-> fee]
    OBVIOUS
  <2>2. t.do = "open" /\ t.order = o /\ t.amount = fee
    BY <2>1
  <2>3. task' = [task EXCEPT ![w] = t]
    BY <1>1, <1>4, <2>1 DEF FindSession, Then
  <2>4. KnownInv' /\ AloneInv'
    BY <1>2, <2>2, <2>3, KnownKept, AloneKept DEF SessionInv
  <2>5. Fresh(o, fee)
    <3> DEFINE live == {s \in RowsOf(o) : row[s] = "CREATED"}
    <3>1. \A s \in Recorded : /\ amount[s] =< fee /\ rank[s] =< Cardinality(Recorded)
                              /\ row[s] = "CREATED" => orderOf[s] \notin Cod
      BY DEF SessionInv, PriceInv
    <3>2. SUFFICES ASSUME NEW s \in Recorded, orderOf[s] = o, row[s] = "CREATED", amount[s] = fee
                   PROVE  FALSE
      BY <3>1 DEF Fresh
    <3>3. s \in live /\ live \in SUBSET Recorded /\ o \notin Cod
      BY <3>1, <3>2 DEF RowsOf, Recorded
    <3>4. PICK l \in live : IsLatest(l, live)
      <4> HIDE DEF live, Recorded
      <4>1. \A x \in live : rank[x] =< Cardinality(Recorded)
        BY <3>1, <3>3
      <4>2. TypeOK /\ live # {}
        BY <3>3 DEF Inv
      <4> QED BY <3>3, <4>1, <4>2, LatestExists
    <3>5. rank[s] =< rank[l] /\ l \in Recorded
      BY <3>3, <3>4 DEF IsLatest
    <3>6. amount[s] =< amount[l] /\ amount[l] =< fee
      BY <3>1, <3>5 DEF SessionInv, PriceInv
    <3>7. amount[l] = fee
      BY <3>2, <3>5, <3>6 DEF Inv, TypeOK, Recorded
    <3> QED BY <1>4, <3>3, <3>4, <3>7 DEF Reusable
  <2>6. PriceInv'
    <3>1. Recorded' = Recorded /\ \A x, a : Fresh(x, a) => Fresh(x, a)'
      BY <1>2 DEF Recorded, Fresh
    <3>2. \A v \in Workers : task'[v] = IF v = w THEN t ELSE task[v]
      BY <2>3 DEF Inv, TypeOK
    <3>3. ASSUME NEW v \in Workers, task'[v].do = "open"
          PROVE  task'[v].amount =< fee' /\ Fresh(task[v].order, task[v].amount)'
      <4>1. CASE v = w
        <5>1. task'[v].amount = fee' /\ task'[v].order = o
          BY <1>2, <2>2, <3>2, <4>1
        <5> QED BY <1>2, <2>5, <3>1, <5>1 DEF Fresh, Inv, TypeOK
      <4>2. CASE v # w
        <5>1. PICK x, a : x = task[v].order /\ a = task[v].amount
          OBVIOUS
        <5>2. task'[v].order = x /\ task'[v].amount = a /\ a =< fee /\ Fresh(x, a)'
          BY <3>1, <3>2, <3>3, <4>2, <5>1 DEF SessionInv, PriceInv
        <5> QED BY <1>2, <5>2 DEF Fresh
      <4> QED BY <4>1, <4>2
    <3>4. ASSUME NEW v \in Workers, task'[v].do = "record"
          PROVE  /\ task'[v].session \notin Recorded' /\ amount'[task'[v].session] =< fee'
                 /\ Fresh(orderOf[task[v].session], amount[task[v].session])'
      <4>1. v # w /\ task'[v] = task[v]
        BY <2>2, <3>2, <3>4
      <4>2. PICK s : s = task[v].session
        OBVIOUS
      <4>3. s \notin Recorded /\ amount[s] =< fee /\ Fresh(orderOf[s], amount[s])
        BY <3>4, <4>1, <4>2 DEF SessionInv, PriceInv
      <4>4. task'[v].session = s
        BY <4>1, <4>2
      <4> QED BY <1>2, <3>1, <4>3, <4>4 DEF Fresh
    <3>5. OneLiveSession'
      BY <1>2 DEF SessionInv, PriceInv, OneLiveSession
    <3>6. /\ \A s \in Recorded : /\ amount[s] =< fee /\ rank[s] =< Cardinality(Recorded)
                                 /\ row[s] = "CREATED" => orderOf[s] \notin Cod
          /\ \A s, x \in Recorded : rank[s] =< rank[x] => amount[s] =< amount[x]
      BY DEF SessionInv, PriceInv
    <3> HIDE DEF Recorded, Fresh
    <3> QED BY <1>2, <3>1, <3>3, <3>4, <3>5, <3>6 DEF PriceInv
  <2> QED BY <2>4, <2>6 DEF SessionInv
<1> QED BY <1>3, <1>4

\* The gateway opens the session at the price the checkout read.
LEMMA OpenKeeps ==
  ASSUME Inv, SessionInv, NEW w \in Workers, CreateSession(w)
  PROVE  SessionInv'
<1>1. PICK o \in Orders, a \in Nat : o = task[w].order /\ a = task[w].amount
  BY TaskFields DEF CreateSession, Doing, Inv
<1>2. PICK s : s = opened + 1
  OBVIOUS
<1>3. s \in Sessions /\ s \notin Recorded
  <2>1. s \in Sessions
    BY <1>2, CheckoutConstantsOK DEF CreateSession, Inv, TypeOK, Sessions
  <2>2. row[s] = "none"
    BY <1>2, <2>1, CheckoutConstantsOK DEF Inv, UnopenedInv, TypeOK
  <2> QED BY <2>1, <2>2 DEF Recorded
<1>4. /\ orderOf'[s] = o /\ amount'[s] = a
      /\ \A x \in Sessions \ {s} : orderOf'[x] = orderOf[x] /\ amount'[x] = amount[x]
  BY <1>1, <1>2, <1>3 DEF CreateSession, Inv, TypeOK
<1>5. UNCHANGED <<rank, row, fee, sweep>> /\ InCheckout(w) /\ task[w].do = "open"
  BY DEF CreateSession, Doing, InCheckout, rows
<1>6. PICK t : t = [do |-> "record", session |-> s]
  OBVIOUS
<1>7. t.do = "record" /\ t.session = s /\ task' = [task EXCEPT ![w] = t]
  BY <1>2, <1>6 DEF CreateSession, Then
<1>8. KnownInv' /\ AloneInv'
  BY <1>5, <1>7, KnownKept, AloneKept DEF SessionInv
<1>9. \A v \in Workers : task'[v].do \in {"open", "record"} => v = w
  <2>1. \A v \in Workers : task'[v] = IF v = w THEN t ELSE task[v]
    BY <1>7 DEF Inv, TypeOK
  <2> QED BY <1>5, <2>1 DEF SessionInv, AloneInv, InCheckout
<1>10. a =< fee /\ Fresh(o, a)
  BY <1>1, <1>5 DEF SessionInv, PriceInv
<1>11. /\ Recorded' = Recorded /\ s \notin Recorded /\ Recorded \subseteq Sessions \ {s}
       /\ Fresh(o, a)'
  <2>1. Recorded' = Recorded /\ Recorded \subseteq Sessions \ {s}
    BY <1>3, <1>5 DEF Recorded
  <2>2. Fresh(o, a)'
    BY <1>4, <1>5, <1>10, <2>1 DEF Fresh
  <2> QED BY <1>3, <2>1, <2>2
<1>12. ASSUME NEW v \in Workers, task'[v].do = "record"
       PROVE  /\ task'[v].session \notin Recorded' /\ amount'[task'[v].session] =< fee'
              /\ Fresh(orderOf[task[v].session], amount[task[v].session])'
  <2>1. task'[v].session = s
    BY <1>7, <1>9, <1>12 DEF Inv, TypeOK
  <2> QED BY <1>4, <1>5, <1>10, <1>11, <2>1 DEF Fresh
<1>13. \A v \in Workers : task'[v].do # "open"
  BY <1>7, <1>9 DEF Inv, TypeOK
<1>14. OneLiveSession'
  BY <1>4, <1>5, <1>11 DEF SessionInv, PriceInv, OneLiveSession, Recorded
<1>15. /\ \A x \in Recorded : /\ amount'[x] =< fee /\ rank[x] =< Cardinality(Recorded)
                              /\ row[x] = "CREATED" => orderOf'[x] \notin Cod
       /\ \A x, y \in Recorded : rank[x] =< rank[y] => amount'[x] =< amount'[y]
  BY <1>4, <1>11 DEF SessionInv, PriceInv
<1>16. PriceInv'
  <2> HIDE DEF Recorded, Fresh
  <2> QED BY <1>5, <1>11, <1>12, <1>13, <1>14, <1>15 DEF PriceInv
<1> QED BY <1>8, <1>16 DEF SessionInv

\* Its row is the latest, and the only live one of its order at that price.
LEMMA RecordKeeps ==
  ASSUME Inv, SessionInv, NEW w \in Workers, CreatePayment(w)
  PROVE  SessionInv'
<1>1. PICK s \in Sessions : s = task[w].session /\ task[w].do = "record"
  BY TaskFields DEF CreatePayment, Doing, Inv
<1>2. /\ s \notin Recorded /\ amount[s] =< fee /\ Fresh(orderOf[s], amount[s])
      /\ InCheckout(w)
  BY <1>1 DEF SessionInv, PriceInv, InCheckout
<1>3. UNCHANGED <<orderOf, amount, fee, sweep>> /\ task' = [task EXCEPT ![w] = Idle]
  BY DEF CreatePayment, Then, gateway
<1>4. /\ row'[s] = IF orderOf[s] \in Cod THEN "CAPTURED" ELSE "CREATED"
      /\ \A x \in Sessions \ {s} : row'[x] = row[x] /\ rank'[x] = rank[x]
  BY <1>1 DEF CreatePayment, Inv, TypeOK
<1>5. rank'[s] = 1 + Cardinality(Recorded)
  BY <1>1 DEF CreatePayment, Inv, TypeOK, Recorded
<1>6. Recorded' = Recorded \cup {s}
  BY <1>4 DEF Recorded
<1>7. Cardinality(Recorded') = Cardinality(Recorded) + 1
  <2> HIDE DEF Recorded
  <2> QED BY <1>2, <1>6, RecordedFinite, FS_AddElement
<1>8. KnownInv' /\ AloneInv'
  <2>1. Idle.do = "idle"
    BY DEF Idle
  <2>2. \A x \in Sessions : row'[x] = "none" => row[x] = "none"
    BY <1>4
  <2> QED BY <1>3, <2>1, <2>2, KnownKept, AloneKept DEF SessionInv
<1>9. \A v \in Workers : task'[v].do \notin {"open", "record"}
  <2>1. \A v \in Workers : task'[v] = IF v = w THEN Idle ELSE task[v]
    BY <1>3 DEF Inv, TypeOK
  <2> QED BY <1>2, <2>1 DEF SessionInv, AloneInv, InCheckout, Idle
<1>10. PICK n \in Nat : n = Cardinality(Recorded)
  BY RecordedFinite
<1>11. \A x \in Recorded : /\ x \in Sessions /\ x # s /\ rank[x] \in Nat /\ rank[x] =< n
                           /\ amount[x] \in Nat /\ amount[x] =< fee /\ amount[x] =< amount[s]
                           /\ orderOf[x] = orderOf[s] /\ row[x] = "CREATED" => amount[x] # amount[s]
  BY <1>2, <1>10 DEF SessionInv, PriceInv, Fresh, Recorded, Inv, TypeOK
<1>12. \A x \in Recorded' : /\ amount[x] =< fee /\ rank'[x] =< n + 1
                            /\ row'[x] = "CREATED" => orderOf[x] \notin Cod
  <2>1. amount[s] =< fee /\ rank'[s] =< n + 1
        /\ (row'[s] = "CREATED" => orderOf[s] \notin Cod)
    BY <1>2, <1>4, <1>5, <1>10
  <2>2. \A x \in Recorded : /\ amount[x] =< fee /\ rank'[x] =< n + 1
                            /\ row'[x] = "CREATED" => orderOf[x] \notin Cod
    BY <1>4, <1>11 DEF SessionInv, PriceInv
  <2> QED BY <1>6, <2>1, <2>2
<1>13. \A x, y \in Recorded' : rank'[x] =< rank'[y] => amount[x] =< amount[y]
  <2>1. \A x, y \in Recorded : rank'[x] =< rank'[y] => amount[x] =< amount[y]
    BY <1>4, <1>11 DEF SessionInv, PriceInv
  <2>2. \A x \in Recorded : rank'[x] =< n /\ rank'[x] \in Nat /\ amount[x] =< amount[s]
    BY <1>4, <1>11
  <2>3. amount[s] =< amount[s]
    BY DEF Inv, TypeOK
  <2> QED BY <1>5, <1>6, <1>10, <2>1, <2>2, <2>3
<1>14. OneLiveSession'
  <2> SUFFICES ASSUME NEW x \in Sessions, NEW y \in Sessions, row'[x] = "CREATED",
                      row'[y] = "CREATED", orderOf[x] = orderOf[y], amount[x] = amount[y]
               PROVE  x = y
    BY <1>3 DEF OneLiveSession
  <2>1. x \in Recorded \/ x = s
    BY <1>4 DEF Recorded
  <2>2. y \in Recorded \/ y = s
    BY <1>4 DEF Recorded
  <2>3. CASE x = s \/ y = s
    BY <1>4, <1>11, <2>1, <2>2, <2>3
  <2>4. CASE x # s /\ y # s
    BY <1>4, <2>4 DEF SessionInv, PriceInv, OneLiveSession
  <2> QED BY <2>3, <2>4
<1>15. PriceInv'
  <2>1. Cardinality(Recorded') = n + 1
    BY <1>7, <1>10
  <2> HIDE DEF Recorded, Fresh
  <2> QED BY <1>3, <1>9, <1>12, <1>13, <1>14, <2>1 DEF PriceInv
<1> QED BY <1>8, <1>15 DEF SessionInv

\* So every step keeps it.
LEMMA SessionNext ==
  ASSUME MaxCheckouts =< 1, Inv, SessionInv, [Next]_vars
  PROVE  SessionInv'
<1>1. ASSUME NEW w \in Workers, Handle(w) \/ Abandon(w) PROVE SessionInv'
  BY <1>1, SessionHandled, FindKeeps, OpenKeeps, RecordKeeps DEF Handle
<1>2. CASE UNCHANGED vars
  <2>1. /\ UNCHANGED <<orderOf, amount, rank, row, fee, sweep, task>>
    BY <1>2 DEF vars, gateway, rows
  <2>2. Recorded' = Recorded
    BY <2>1 DEF Recorded
  <2>3. PriceInv'
    BY <2>1, PriceKept DEF Inv, TypeOK, SessionInv
  <2> QED BY <2>1, <2>2, <2>3 DEF SessionInv, AloneInv, InCheckout, KnownInv
<1> QED BY <1>1, <1>2, SessionCall, SessionOutside DEF Next

\* "Reuse that session instead of opening a second one": with one checkout at a time, an
\* order never has two live sessions of the same price, through every crash of a handler,
\* change of price and overlap with the rest.
THEOREM Reused == MaxCheckouts =< 1 => (Spec => []OneLiveSession)
<1> SUFFICES ASSUME MaxCheckouts =< 1 PROVE Spec => []OneLiveSession
  OBVIOUS
<1>1. Inv /\ SessionInv /\ [Next]_vars => Inv' /\ SessionInv'
  BY NextInv, SessionNext
<1>2. SessionInv => OneLiveSession
  BY DEF SessionInv, PriceInv
<1> QED BY <1>1, <1>2, InitInv, InitSession, PTL DEF Spec
=============================================================================
