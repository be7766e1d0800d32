--------------------------- MODULE OutboxPromise ----------------------------
(***************************************************************************)
(* What the transactional outbox promises the services that use it.  An    *)
(* event is owed from the transaction that enqueues it, its side effect is *)
(* performed only while it is open, at least once before it is settled,    *)
(* and a settled event stays settled unless a dispatcher reopens it.       *)
(***************************************************************************)
EXTENDS Naturals

CONSTANT Events

VARIABLES
  promise,    \* event -> "none", "owed", "parked" or "settled"
  effects     \* event -> times its side effect was performed

vars == <<promise, effects>>

Init ==
  /\ promise = [e \in Events |-> "none"]
  /\ effects = [e \in Events |-> 0]

Become(e, from, to) ==
  /\ promise[e] \in from
  /\ promise' = [promise EXCEPT ![e] = to]
  /\ UNCHANGED effects

Owe(e)  == Become(e, {"none"}, "owed")
Park(e) == Become(e, {"owed", "parked"}, "parked")

Perform(e) ==
  /\ promise[e] \in {"owed", "parked"}
  /\ effects' = [effects EXCEPT ![e] = @ + 1]
  /\ UNCHANGED promise

Settle(e) == effects[e] > 0 /\ Become(e, {"owed", "parked"}, "settled")

\* A dispatcher whose enqueue failed, or a failed attempt, returns the event.
Reopen(e) == Become(e, {"parked", "settled"}, "owed")

Next ==
  \E e \in Events : Owe(e) \/ Perform(e) \/ Settle(e) \/ Park(e) \/ Reopen(e)

Spec == Init /\ [][Next]_vars
=============================================================================
