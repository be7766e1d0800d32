---------------------------- MODULE OutboxProofs ----------------------------
(***************************************************************************)
(* The outbox implements OutboxPromise, for any number of events, of       *)
(* instances, of attempts and of faults.  The invariant behind it: a busy  *)
(* processor holds the only live job of its event, so nobody else can have *)
(* marked the event DONE while its handler runs.                           *)
(***************************************************************************)
EXTENDS Outbox, TLAPS

Busy(i)    == worker[i] # Free
Working(i) == worker[i].step \in {"run", "record", "retry"}

JobInv ==
  /\ OneExecutor
  /\ \A i \in Instances : Busy(i) => job[worker[i].event] = "active"
  /\ \A i \in Instances : Working(i) => status[worker[i].event] \notin {"NONE", "DONE"}
  /\ \A i \in Instances : At(i, "record") => effects[worker[i].event] > 0
  /\ \A i \in Instances : \A e \in relay[i].batch : status[e] # "NONE"
  /\ \A e \in Unroutable : job[e] = "none" /\ status[e] # "DONE"

Inv == TypeOK /\ JobInv

LEMMA InitInv == Init => Inv
BY OutboxConstantsOK
   DEF Init, Inv, TypeOK, JobInv, OneExecutor, Busy, Working, At, Free, Resting,
       Relay, Worker, Statuses

\* A busy processor's task.
LEMMA BusyFields ==
  ASSUME TypeOK, NEW i \in Instances, worker[i] # Free
  PROVE  /\ worker[i].event \in Events /\ worker[i].seen \in Nat
         /\ worker[i].step \in {"run", "record", "retry", "ack"}
BY DEF TypeOK, Worker

LEMMA TypeStep == TypeOK /\ [Next]_vars => TypeOK'
<1> SUFFICES ASSUME TypeOK, [Next]_vars PROVE TypeOK'
  OBVIOUS
<1> USE DEF TypeOK
<1>1. ASSUME NEW e \in Events, Enqueue(e) \/ BecomeDue(e) \/ GrowOld(e) PROVE TypeOK'
  BY <1>1 DEF Enqueue, BecomeDue, GrowOld, Statuses
<1>2. ASSUME NEW i \in Instances, ReclaimStale(i) PROVE TypeOK'
  <2>1. relay' \in [Instances -> Relay]
    BY <1>2 DEF ReclaimStale, Relay
  <2>2. status' \in [Events -> Statuses]
    BY <1>2 DEF ReclaimStale, Statuses
  <2> QED BY <1>2, <2>1, <2>2 DEF ReclaimStale
<1>3. ASSUME NEW i \in Instances, Claim(i) PROVE TypeOK'
  <2>1. PICK claimed \in SUBSET Claimable :
          /\ status' = [e \in Events |-> IF e \in claimed THEN "PROCESSING" ELSE status[e]]
          /\ old' = [e \in Events |-> old[e] /\ e \notin claimed]
          /\ relay' = [relay EXCEPT ![i] = IF claimed = {} THEN Resting
                                           ELSE [step |-> "add", batch |-> claimed]]
          /\ UNCHANGED <<attempts, due, job, worker, effects, lost, faults>>
    BY <1>3 DEF Claim
  <2>2. claimed \subseteq Events
    BY DEF Claimable
  <2>3. relay' \in [Instances -> Relay]
    BY <2>1, <2>2 DEF Relay, Resting
  <2>4. status' \in [Events -> Statuses]
    BY <2>1 DEF Statuses
  <2> QED BY <2>1, <2>3, <2>4
<1>4. ASSUME NEW i \in Instances, NEW e \in Events,
             Dispatch(i, e) \/ Unknown(i, e) \/ AddFails(i, e)
      PROVE  TypeOK'
  <2>1. relay[i].batch \subseteq Events
    BY DEF Relay
  <2>2. relay' \in [Instances -> Relay]
    BY <1>4, <2>1 DEF Dispatch, Unknown, AddFails, Relay, Rest, Resting
  <2>3. status' \in [Events -> Statuses] /\ faults' \in Nat
    BY <1>4 DEF Dispatch, Unknown, AddFails, Statuses, Fault, row
  <2>4. job' \in [Events -> {"none", "waiting", "active"}]
    BY <1>4 DEF Dispatch, Unknown, AddFails
  <2> QED BY <1>4, <2>2, <2>3, <2>4 DEF Dispatch, Unknown, AddFails, row
<1>5. ASSUME NEW i \in Instances, Undo(i) PROVE TypeOK'
  <2>1. relay[i].event \in Events /\ relay[i].batch \subseteq Events
    BY <1>5 DEF Undo, Relay
  <2>2. relay' \in [Instances -> Relay]
    BY <1>5, <2>1 DEF Undo, Relay, Rest, Resting
  <2> QED BY <1>5, <2>1, <2>2 DEF Undo, Statuses
<1>6. ASSUME NEW i \in Instances, PollFails(i) PROVE TypeOK'
  BY <1>6 DEF PollFails, Relay, Resting, Fault, row
<1>7. ASSUME NEW i \in Instances, NEW e \in Events, Begin(i, e) PROVE TypeOK'
  <2>1. worker' \in [Instances -> Worker]
    BY <1>7 DEF Begin, Worker
  <2> QED BY <1>7, <2>1 DEF Begin, row
<1>8. ASSUME NEW i \in Instances,
             HandlerSucceeds(i) \/ HandlerFails(i) \/ Record(i) \/ Retry(i) \/ Ack(i)
               \/ RecordFails(i) \/ RetryFails(i)
      PROVE  TypeOK'
  <2>1. worker[i].step \in {"run", "record", "retry", "ack"} /\ worker[i] # Free
    <3>1. worker[i].step \in {"run", "record", "retry", "ack"}
      BY <1>8 DEF HandlerSucceeds, HandlerFails, Record, Retry, Ack, RecordFails,
                  RetryFails, At
    <3> QED BY <3>1 DEF Free
  <2>2. worker[i].event \in Events /\ worker[i].seen \in Nat /\ worker[i].seen + 1 \in Nat
    BY <2>1, BusyFields
  <2>3. \A step \in {"run", "record", "retry", "ack"} :
          GoTo(i, step) => worker' \in [Instances -> Worker]
    <3> SUFFICES ASSUME NEW step \in {"run", "record", "retry", "ack"}, GoTo(i, step)
                 PROVE  worker' \in [Instances -> Worker]
      OBVIOUS
    <3>1. [worker[i] EXCEPT !.step = step] \in Worker
      BY <2>1 DEF Worker
    <3> QED BY <3>1 DEF GoTo
  <2>4. worker' \in [Instances -> Worker]
    BY <1>8, <2>3 DEF HandlerSucceeds, HandlerFails, Record, Retry, Ack, RecordFails,
                      RetryFails, Worker
  <2>5. CASE HandlerSucceeds(i) \/ HandlerFails(i) \/ RetryFails(i)
    BY <2>2, <2>4, <2>5 DEF HandlerSucceeds, HandlerFails, RetryFails, Fault, row
  <2>6. CASE Record(i) \/ RecordFails(i)
    BY <2>2, <2>4, <2>6 DEF Record, RecordFails, Fault, Forget, row, Statuses
  <2>7. CASE Retry(i)
    <3>1. due' \in [Events -> BOOLEAN]
      BY <2>2, <2>7, Zenon DEF Retry
    <3>2. status' \in [Events -> Statuses] /\ attempts' \in [Events -> Nat]
      BY <2>2, <2>7 DEF Retry, Statuses
    <3> QED BY <2>4, <2>7, <3>1, <3>2 DEF Retry
  <2>8. CASE Ack(i)
    BY <2>2, <2>4, <2>8 DEF Ack, row
  <2> QED BY <1>8, <2>5, <2>6, <2>7, <2>8
<1>9. ASSUME NEW i \in Instances, Crash(i) PROVE TypeOK'
  <2>1. relay' \in [Instances -> Relay] /\ worker' \in [Instances -> Worker]
    BY <1>9 DEF Crash, Relay, Resting, Worker
  <2>2. CASE worker[i] = Free
    BY <1>9, <2>1, <2>2 DEF Crash, Fault, row
  <2>3. CASE worker[i] # Free
    BY <1>9, <2>1, <2>3, BusyFields DEF Crash, Fault, Forget, row
  <2> QED BY <2>2, <2>3
<1>10. CASE UNCHANGED vars
  BY <1>10 DEF vars, row
<1> QED BY <1>1, <1>2, <1>3, <1>4, <1>5, <1>6, <1>7, <1>8, <1>9, <1>10
        DEF Next, Poll, Work, Break

\* The tables, the queue and the instances keep their types.
THEOREM Typing == Spec => []TypeOK
<1>1. Init => TypeOK
  BY InitInv DEF Inv
<1> QED BY <1>1, TypeStep, PTL DEF Spec

-----------------------------------------------------------------------------
LEMMA EnqueueKeeps ==
  ASSUME Inv, NEW e \in Events, Enqueue(e) \/ BecomeDue(e) \/ GrowOld(e)
  PROVE  JobInv'
<1>1. \A x \in Events : status'[x] = status[x] \/ (status[x] = "NONE" /\ status'[x] = "PENDING")
  BY DEF Enqueue, BecomeDue, GrowOld, Inv, TypeOK
<1>2. UNCHANGED <<job, worker, relay, effects>>
  BY DEF Enqueue, BecomeDue, GrowOld
<1>3. /\ \A i \in Instances : Working(i) => worker[i].event \in Events
      /\ \A i \in Instances : relay[i].batch \subseteq Events
  BY BusyFields DEF Inv, TypeOK, Working, Relay, Free
<1> QED BY <1>1, <1>2, <1>3, OutboxConstantsOK
        DEF Inv, JobInv, OneExecutor, Busy, Working, At

\* Reclaiming and claiming only exchange PENDING and PROCESSING.
LEMMA ClaimKeeps ==
  ASSUME Inv, NEW i \in Instances, ReclaimStale(i) \/ Claim(i)
  PROVE  JobInv'
<1>1. \A x \in Events : \/ status'[x] = status[x]
                        \/ {status[x], status'[x]} \subseteq {"PENDING", "PROCESSING"}
  BY DEF ReclaimStale, Claim, Claimable
<1>2. UNCHANGED <<job, worker, effects>>
  BY DEF ReclaimStale, Claim
<1>3. \A j \in Instances : Working(j) => worker[j].event \in Events
  BY BusyFields DEF Inv, TypeOK, Working, Free
<1>4. \A j \in Instances : \A e \in relay'[j].batch :
        e \in relay[j].batch \/ status[e] = "PENDING"
  <2>1. CASE ReclaimStale(i)
    BY <2>1 DEF ReclaimStale, Inv, TypeOK, Relay
  <2>2. CASE Claim(i)
    <3>1. PICK claimed \in SUBSET Claimable :
            relay' = [relay EXCEPT ![i] = IF claimed = {} THEN Resting
                                          ELSE [step |-> "add", batch |-> claimed]]
      BY <2>2 DEF Claim
    <3> QED BY <3>1 DEF Claimable, Resting, Inv, TypeOK
  <2> QED BY <2>1, <2>2
<1>5. \A j \in Instances : \A e \in relay'[j].batch : e \in Events
  <2>1. TypeOK'
    BY TypeStep DEF Inv, Next, Poll
  <2> QED BY <2>1 DEF TypeOK, Relay
<1>6. \A j \in Instances : \A e \in relay'[j].batch : status'[e] # "NONE"
  BY <1>1, <1>4, <1>5 DEF Inv, JobInv
<1> QED BY <1>1, <1>2, <1>3, <1>6, OutboxConstantsOK
        DEF Inv, JobInv, OneExecutor, Busy, Working, At

\* Adding a job never touches a live one.
LEMMA AddKeeps ==
  ASSUME Inv, NEW i \in Instances, NEW e \in Events, Dispatch(i, e) \/ AddFails(i, e)
  PROVE  JobInv'
<1>1. UNCHANGED <<status, worker, effects>>
  BY DEF Dispatch, AddFails, row
<1>2. \A x \in Events : job[x] = "active" => job'[x] = "active"
  BY DEF Dispatch, AddFails, Inv, TypeOK
<1>3. \A x \in Unroutable : job'[x] = job[x]
  BY OutboxConstantsOK DEF Dispatch, AddFails, Inv, TypeOK
<1>4. \A j \in Instances : relay'[j].batch \subseteq relay[j].batch
  BY DEF Dispatch, AddFails, Inv, TypeOK, Rest, Resting
<1>5. \A j \in Instances : Busy(j) => worker[j].event \in Events
  BY BusyFields DEF Inv, TypeOK, Busy
<1> QED BY <1>1, <1>2, <1>3, <1>4, <1>5 DEF Inv, JobInv, OneExecutor, Busy, Working, At

\* A row that is parked or put back is one a claim has seen.
LEMMA ResetKeeps ==
  ASSUME Inv, NEW i \in Instances,
         Undo(i) \/ PollFails(i) \/ \E e \in Events : Unknown(i, e)
  PROVE  JobInv'
<1>1. UNCHANGED <<job, worker, effects>>
  BY DEF Undo, PollFails, Unknown
<1>2. \A x \in Events : status'[x] = status[x] \/ status'[x] \in {"PENDING", "FAILED"}
  BY DEF Undo, PollFails, Unknown, Inv, TypeOK, row
<1>3. \A j \in Instances : relay'[j].batch \subseteq relay[j].batch
  BY DEF Undo, PollFails, Unknown, Inv, TypeOK, Rest, Resting
<1>4. \A j \in Instances : Busy(j) => worker[j].event \in Events
  BY BusyFields DEF Inv, TypeOK, Busy
<1>5. \A j \in Instances : relay[j].batch \subseteq Events
  BY DEF Inv, TypeOK, Relay
<1> QED BY <1>1, <1>2, <1>3, <1>4, <1>5, OutboxConstantsOK
        DEF Inv, JobInv, OneExecutor, Busy, Working, At, Free

\* A job that waits has no processor: the one that takes it is alone with it.
LEMMA BeginKeeps ==
  ASSUME Inv, NEW i \in Instances, NEW e \in Events, Begin(i, e)
  PROVE  JobInv'
<1>1. \A j \in Instances : Busy(j) => j # i /\ worker[j].event \in Events \ {e}
  BY BusyFields DEF Begin, Inv, TypeOK, JobInv, Busy
<1>2. \A j \in Instances \ {i} : worker'[j] = worker[j]
  BY DEF Begin, Inv, TypeOK
<1>3. /\ worker'[i].event = e
      /\ worker'[i].step = IF status[e] \in {"NONE", "DONE"} THEN "ack" ELSE "run"
  BY DEF Begin, Inv, TypeOK
<1>4. job'[e] = "active" /\ \A x \in Events \ {e} : job'[x] = job[x]
  BY DEF Begin, Inv, TypeOK
<1>5. UNCHANGED <<status, relay, effects>>
  BY DEF Begin, row
<1>6. e \notin Unroutable
  BY DEF Begin, Inv, JobInv
<1>7. OneExecutor'
  BY <1>1, <1>2, <1>3 DEF Inv, JobInv, OneExecutor, Busy
<1>8. \A j \in Instances : Busy(j)' => job'[worker'[j].event] = "active"
  BY <1>1, <1>2, <1>3, <1>4 DEF Inv, JobInv, Busy
<1>9. \A j \in Instances : Working(j)' => status'[worker'[j].event] \notin {"NONE", "DONE"}
  BY <1>2, <1>3, <1>5 DEF Inv, JobInv, Working
<1>10. \A j \in Instances : At(j, "record")' => effects'[worker'[j].event] > 0
  BY <1>2, <1>3, <1>5 DEF Inv, JobInv, At
<1> QED BY <1>4, <1>5, <1>6, <1>7, <1>8, <1>9, <1>10, OutboxConstantsOK
        DEF Inv, JobInv

\* Going to the next step keeps the event a processor works on.
LEMMA GoToFields ==
  ASSUME TypeOK, NEW i \in Instances, Busy(i),
         NEW step \in {"record", "retry", "ack"}, GoTo(i, step)
  PROVE  /\ worker'[i].event = worker[i].event /\ worker'[i].step = step
         /\ \A j \in Instances \ {i} : worker'[j] = worker[j]
<1>1. worker[i] \in [step : {"run", "record", "retry", "ack"}, event : Events, seen : Nat]
  BY DEF TypeOK, Busy, Worker
<1>2. worker'[i] = [worker[i] EXCEPT !.step = step]
  BY DEF TypeOK, GoTo
<1> QED BY <1>1, <1>2 DEF TypeOK, GoTo

\* While a processor works on its event nobody else writes DONE.
LEMMA WorkKeeps ==
  ASSUME Inv, NEW i \in Instances,
         HandlerSucceeds(i) \/ HandlerFails(i) \/ Record(i) \/ RecordFails(i)
           \/ Retry(i) \/ RetryFails(i)
  PROVE  JobInv'
<1> DEFINE e == worker[i].event
<1>1. Working(i) /\ Busy(i)
  <2>1. worker[i].step \in {"run", "record", "retry"}
    BY DEF HandlerSucceeds, HandlerFails, Record, RecordFails, Retry, RetryFails, At
  <2> QED BY <2>1 DEF Working, Busy, Free
<1>2. /\ e \in Events /\ e \notin Unroutable
      /\ \A j \in Instances \ {i} : Busy(j) => worker[j].event \in Events \ {e}
  BY <1>1, BusyFields DEF Inv, JobInv, TypeOK, OneExecutor, Busy
<1> PICK step \in {"record", "retry", "ack"} : GoTo(i, step)
  BY DEF HandlerSucceeds, HandlerFails, Record, RecordFails, Retry, RetryFails
<1>3. \A j \in Instances \ {i} : worker'[j] = worker[j]
  BY <1>1, GoToFields DEF Inv
<1>4. worker'[i].event = e /\ worker'[i].step \in {"record", "retry", "ack"}
  BY <1>1, GoToFields DEF Inv
<1>5. UNCHANGED <<job, relay>>
  BY DEF HandlerSucceeds, HandlerFails, Record, RecordFails, Retry, RetryFails
<1>6. \A x \in Events \ {e} : status'[x] = status[x] /\ effects'[x] = effects[x]
  BY DEF HandlerSucceeds, HandlerFails, Record, RecordFails, Retry, RetryFails, row,
         Inv, TypeOK
<1>7. /\ status'[e] # "NONE"
      /\ worker'[i].step # "ack" => status'[e] = status[e]
  <2>1. status[e] # "NONE"
    BY <1>1 DEF Inv, JobInv
  <2>2. CASE HandlerSucceeds(i) \/ HandlerFails(i) \/ RecordFails(i) \/ RetryFails(i)
    BY <2>1, <2>2 DEF HandlerSucceeds, HandlerFails, RecordFails, RetryFails, row
  <2>3. CASE Record(i) \/ Retry(i)
    <3>1. status'[e] \in {"DONE", "FAILED", "PENDING"}
      BY <1>2, <2>3 DEF Record, Retry, Inv, TypeOK
    <3>2. worker'[i].step = "ack"
      BY <1>1, <2>3, GoToFields DEF Record, Retry, Inv
    <3> QED BY <3>1, <3>2
  <2> QED BY <2>2, <2>3
<1>8. worker'[i].step = "record" => effects'[e] > 0
  <2>1. CASE HandlerSucceeds(i)
    BY <1>2, <2>1 DEF HandlerSucceeds, Inv, TypeOK
  <2>2. CASE ~HandlerSucceeds(i)
    <3>1. GoTo(i, "retry") \/ GoTo(i, "ack")
      BY <2>2 DEF HandlerFails, Record, RecordFails, Retry, RetryFails
    <3> QED BY <1>1, <3>1, GoToFields DEF Inv
  <2> QED BY <2>1, <2>2
<1> HIDE DEF e
<1>9. \A j \in Instances : Working(j)' => status'[worker'[j].event] \notin {"NONE", "DONE"}
  BY <1>1, <1>2, <1>3, <1>4, <1>6, <1>7
     DEF Inv, JobInv, Working, Busy, Free, e
<1>10. \A j \in Instances : At(j, "record")' => effects'[worker'[j].event] > 0
  BY <1>2, <1>3, <1>4, <1>6, <1>8 DEF Inv, JobInv, At, Busy, Free
<1>11. \A j \in Instances : \A x \in relay'[j].batch : status'[x] # "NONE"
  BY <1>5, <1>6, <1>7 DEF Inv, JobInv, TypeOK, Relay
<1>12. \A j \in Instances : Busy(j)' <=> Busy(j)
  BY <1>1, <1>3, <1>4 DEF Busy, Free
<1>13. \A j \in Instances : worker'[j].event = worker[j].event
  BY <1>3, <1>4 DEF e
<1>14. \A x \in Unroutable : job'[x] = "none" /\ status'[x] # "DONE"
  BY <1>2, <1>5, <1>6, OutboxConstantsOK DEF Inv, JobInv
<1> QED BY <1>5, <1>9, <1>10, <1>11, <1>12, <1>13, <1>14
        DEF Inv, JobInv, OneExecutor, Busy

LEMMA ReleaseKeeps ==
  ASSUME Inv, NEW i \in Instances, Ack(i) \/ Crash(i)
  PROVE  JobInv'
<1>1. \A j \in Instances \ {i} : worker'[j] = worker[j]
  BY DEF Ack, Crash, Inv, TypeOK
<1>2. worker'[i] = Free
  BY DEF Ack, Crash, Inv, TypeOK
<1>3. UNCHANGED <<status, effects>>
  BY DEF Ack, Crash, row
<1>4. \A j \in Instances : relay'[j].batch \subseteq relay[j].batch
  BY DEF Ack, Crash, Inv, TypeOK, Resting
<1>5. \A x \in Events : job'[x] # job[x] => Busy(i) /\ x = worker[i].event
  <2>1. job \in [Events -> {"none", "waiting", "active"}]
    BY DEF Inv, TypeOK
  <2>2. CASE Ack(i)
    <3>1. Busy(i)
      BY <2>2 DEF Ack, At, Free, Busy
    <3>2. job' = [job EXCEPT ![worker[i].event] = "none"]
      BY <2>2 DEF Ack
    <3> QED BY <2>1, <3>1, <3>2
  <2>3. CASE Crash(i) /\ ~Busy(i)
    BY <2>3 DEF Crash, Busy
  <2>4. CASE Crash(i) /\ Busy(i)
    <3>1. PICK j \in {"waiting", "none"} : job' = [job EXCEPT ![worker[i].event] = j]
      BY <2>4 DEF Crash, Busy
    <3> QED BY <2>1, <2>4, <3>1
  <2> QED BY <2>2, <2>3, <2>4
<1>6. \A j \in Instances : Busy(j) =>
        /\ worker[j].event \in Events
        /\ worker[j].event \notin Unroutable
        /\ j # i => ~(Busy(i) /\ worker[j].event = worker[i].event)
  BY BusyFields DEF Inv, TypeOK, JobInv, OneExecutor, Busy
<1>7. ~Working(i)' /\ ~At(i, "record")' /\ ~Busy(i)'
  BY <1>2 DEF Working, At, Busy, Free
<1>8. \A j \in Instances : Busy(j)' => job'[worker'[j].event] = "active"
  BY <1>1, <1>5, <1>6, <1>7 DEF Inv, JobInv, Busy
<1>9. \A x \in Unroutable : job'[x] = "none"
  BY <1>5, <1>6, OutboxConstantsOK DEF Inv, JobInv
<1> QED BY <1>1, <1>3, <1>4, <1>7, <1>8, <1>9
        DEF Inv, JobInv, OneExecutor, Busy, Working, At

LEMMA NextInv == Inv /\ [Next]_vars => Inv'
<1> SUFFICES ASSUME Inv, [Next]_vars PROVE JobInv'
  BY TypeStep DEF Inv
<1>1. CASE UNCHANGED vars
  BY <1>1 DEF vars, row, Inv, JobInv, OneExecutor, Busy, Working, At
<1>2. ASSUME NEW i \in Instances, Poll(i) PROVE JobInv'
  BY <1>2, ClaimKeeps, ResetKeeps, AddKeeps DEF Poll
<1>3. ASSUME NEW i \in Instances, Work(i) PROVE JobInv'
  BY <1>3, WorkKeeps, ReleaseKeeps DEF Work
<1>4. ASSUME NEW i \in Instances, Break(i) PROVE JobInv'
  BY <1>4, AddKeeps, ResetKeeps, WorkKeeps, ReleaseKeeps DEF Break
<1> QED BY <1>1, <1>2, <1>3, <1>4, EnqueueKeeps, BeginKeeps DEF Next

\* Two processors never run the handler of one event at the same time.
THEOREM NeverTwice == Spec => []OneExecutor
<1>1. Inv => OneExecutor
  BY DEF Inv, JobInv
<1> QED BY <1>1, InitInv, NextInv, PTL DEF Spec

-----------------------------------------------------------------------------
(***************************************************************************)
(* The refinement.  A step that writes one row's status is a step of the   *)
(* promise, and so is a handler's success; all the others stutter.         *)
(***************************************************************************)
\* Which changes of a row's status the promise allows.
Allowed(e, from, to) ==
  \/ PromiseOf(from) = PromiseOf(to)
  \/ from = "NONE" /\ to = "PENDING"
  \/ from \notin {"NONE", "DONE"} /\ to = "FAILED"
  \/ from \notin {"NONE", "DONE"} /\ to = "DONE" /\ effects[e] > 0
  \/ from \in {"DONE", "FAILED"} /\ to \in {"PENDING", "PROCESSING"}

LEMMA StatusStep ==
  ASSUME NEW e \in Events, NEW to \in Statuses, TypeOK, Allowed(e, status[e], to),
         status' = [status EXCEPT ![e] = to], UNCHANGED effects
  PROVE  [Promise!Next]_Promise!vars
<1> DEFINE p == [x \in Events |-> PromiseOf(status[x])]
           q == PromiseOf(to)
<1>1. status[e] \in Statuses
  BY DEF TypeOK
<1>2. [x \in Events |-> PromiseOf(status'[x])] = [p EXCEPT ![e] = q]
  BY DEF TypeOK
<1>3. CASE PromiseOf(status[e]) = q
  BY <1>2, <1>3 DEF Promise!vars
<1>4. CASE status[e] = "NONE" /\ to = "PENDING"
  <2>1. Promise!Owe(e)
    BY <1>2, <1>4 DEF Promise!Owe, Promise!Become, PromiseOf
  <2> QED BY <2>1 DEF Promise!Next
<1>5. CASE status[e] \notin {"NONE", "DONE"} /\ to = "FAILED"
  <2>1. Promise!Park(e)
    BY <1>1, <1>2, <1>5 DEF Promise!Park, Promise!Become, PromiseOf, Statuses
  <2> QED BY <2>1 DEF Promise!Next
<1>6. CASE status[e] \notin {"NONE", "DONE"} /\ to = "DONE" /\ effects[e] > 0
  <2>1. Promise!Settle(e)
    BY <1>1, <1>2, <1>6 DEF Promise!Settle, Promise!Become, PromiseOf, Statuses
  <2> QED BY <2>1 DEF Promise!Next
<1>7. CASE status[e] \in {"DONE", "FAILED"} /\ to \in {"PENDING", "PROCESSING"}
  <2>1. Promise!Reopen(e)
    BY <1>1, <1>2, <1>7 DEF Promise!Reopen, Promise!Become, PromiseOf, Statuses
  <2> QED BY <2>1 DEF Promise!Next
<1> QED BY <1>3, <1>4, <1>5, <1>6, <1>7 DEF Allowed

LEMMA Stutter ==
  ASSUME UNCHANGED effects,
         \A e \in Events : PromiseOf(status'[e]) = PromiseOf(status[e])
  PROVE  [Promise!Next]_Promise!vars
BY DEF Promise!vars

\* A handler that succeeds performs an open event.
LEMMA PerformStep ==
  ASSUME Inv, NEW i \in Instances, HandlerSucceeds(i)
  PROVE  [Promise!Next]_Promise!vars
<1> DEFINE e == worker[i].event
<1>1. e \in Events /\ status[e] \in Statuses \ {"NONE", "DONE"}
  BY BusyFields DEF HandlerSucceeds, At, Inv, TypeOK, JobInv, Working, Free
<1>2. PromiseOf(status[e]) \in {"owed", "parked"}
  BY <1>1 DEF PromiseOf, Statuses
<1>3. /\ effects' = [effects EXCEPT ![e] = @ + 1]
      /\ status' = status
  BY DEF HandlerSucceeds, row
<1>4. Promise!Perform(e)
  BY <1>1, <1>2, <1>3 DEF Promise!Perform
<1> QED BY <1>1, <1>4 DEF Promise!Next

LEMMA PollStep ==
  ASSUME Inv, NEW i \in Instances, Poll(i)
  PROVE  [Promise!Next]_Promise!vars
<1>1. CASE ReclaimStale(i) \/ Claim(i)
  <2>1. \A e \in Events : \/ status'[e] = status[e]
                        \/ {status[e], status'[e]} \subseteq {"PENDING", "PROCESSING"}
    BY <1>1 DEF ReclaimStale, Claim, Claimable
  <2>2. UNCHANGED effects
    BY <1>1 DEF ReclaimStale, Claim
  <2> QED BY <2>1, <2>2, Stutter DEF PromiseOf
<1>2. CASE Undo(i)
  <2>1. relay[i].event \in Events /\ status[relay[i].event] \in Statuses
    BY <1>2 DEF Undo, Inv, TypeOK, Relay
  <2>2. Allowed(relay[i].event, status[relay[i].event], "PENDING")
    BY <2>1 DEF Allowed, PromiseOf, Statuses
  <2> QED BY <1>2, <2>1, <2>2, StatusStep DEF Undo, Inv, Statuses
<1>3. ASSUME NEW e \in Events, Dispatch(i, e) PROVE [Promise!Next]_Promise!vars
  BY <1>3, Stutter DEF Dispatch, row
<1>4. ASSUME NEW e \in Events, Unknown(i, e) PROVE [Promise!Next]_Promise!vars
  <2>1. status[e] \notin {"NONE", "DONE"}
    BY <1>4 DEF Unknown, Inv, JobInv
  <2>2. Allowed(e, status[e], "FAILED")
    BY <2>1 DEF Allowed
  <2> QED BY <1>4, <2>2, StatusStep DEF Unknown, Inv, Statuses
<1> QED BY <1>1, <1>2, <1>3, <1>4 DEF Poll

LEMMA WorkStep ==
  ASSUME Inv, NEW i \in Instances, Work(i)
  PROVE  [Promise!Next]_Promise!vars
<1> DEFINE e == worker[i].event
<1>1. CASE HandlerSucceeds(i)
  BY <1>1, PerformStep
<1>2. CASE HandlerFails(i) \/ Ack(i)
  BY <1>2, Stutter DEF HandlerFails, Ack, row
<1>3. CASE Record(i)
  <2>1. e \in Events /\ status[e] \notin {"NONE", "DONE"} /\ effects[e] > 0
    BY <1>3, BusyFields DEF Record, At, Inv, TypeOK, JobInv, Working, Free
  <2>2. Allowed(e, status[e], "DONE")
    BY <2>1 DEF Allowed
  <2> QED BY <1>3, <2>1, <2>2, StatusStep DEF Record, Inv, Statuses
<1>4. CASE Retry(i)
  <2>1. e \in Events /\ status[e] \in Statuses \ {"NONE", "DONE"}
    BY <1>4, BusyFields DEF Retry, At, Inv, TypeOK, JobInv, Working, Free
  <2>2. PICK to \in {"FAILED", "PENDING"} : status' = [status EXCEPT ![e] = to]
    BY <1>4 DEF Retry
  <2>3. Allowed(e, status[e], to)
    BY <2>1 DEF Allowed, PromiseOf, Statuses
  <2>4. to \in Statuses /\ TypeOK
    BY DEF Statuses, Inv
  <2>5. UNCHANGED effects
    BY <1>4 DEF Retry
  <2> HIDE DEF e
  <2> QED BY <2>1, <2>2, <2>3, <2>4, <2>5, StatusStep
<1> QED BY <1>1, <1>2, <1>3, <1>4 DEF Work

LEMMA PromiseStep == Inv /\ [Next]_vars => [Promise!Next]_Promise!vars
<1> SUFFICES ASSUME Inv, [Next]_vars PROVE [Promise!Next]_Promise!vars
  OBVIOUS
<1>1. ASSUME NEW e \in Events, Enqueue(e) PROVE [Promise!Next]_Promise!vars
  <2>1. Allowed(e, status[e], "PENDING")
    BY <1>1 DEF Enqueue, Allowed
  <2> QED BY <1>1, <2>1, StatusStep DEF Enqueue, Inv, Statuses
<1>2. ASSUME NEW e \in Events, BecomeDue(e) \/ GrowOld(e)
      PROVE  [Promise!Next]_Promise!vars
  BY <1>2, Stutter DEF BecomeDue, GrowOld
<1>3. ASSUME NEW i \in Instances, Break(i) PROVE [Promise!Next]_Promise!vars
  BY <1>3, Stutter DEF Break, AddFails, PollFails, RecordFails, RetryFails, Crash, row
<1>4. ASSUME NEW i \in Instances, NEW e \in Events, Begin(i, e)
      PROVE  [Promise!Next]_Promise!vars
  BY <1>4, Stutter DEF Begin, row
<1>5. CASE UNCHANGED vars
  BY <1>5, Stutter DEF vars, row
<1> QED BY <1>1, <1>2, <1>3, <1>4, <1>5, PollStep, WorkStep DEF Next

\* The table, the queue, the relays and the processors implement the promise:
\* an effect is performed only between enqueue and DONE, an event is settled
\* only after its effect, and only a relay or a retry reopens it.
THEOREM Implements == Spec => KeepsPromise
<1>1. Init => Promise!Init
  BY DEF Init, Promise!Init, PromiseOf
<1> QED BY <1>1, InitInv, NextInv, PromiseStep, PTL DEF Spec, KeepsPromise, Promise!Spec

-----------------------------------------------------------------------------
(***************************************************************************)
(* The account of the effects.                                             *)
(***************************************************************************)
Marked(e) == status[e] = "DONE" \/ Recording(e)

\* A step that performs and loses nothing, and leaves every mark as it was.
LEMMA AccountKept ==
  ASSUME RepeatsExplained, UNCHANGED <<effects, lost>>,
         \A e \in Events : Marked(e)' <=> Marked(e)
  PROVE  RepeatsExplained'
BY DEF RepeatsExplained, Marked

\* A step that changes the account of one event only.
LEMMA AccountOne ==
  ASSUME TypeOK, RepeatsExplained, NEW e \in Events,
         \A x \in Events \ {e} : /\ effects'[x] = effects[x] /\ lost'[x] = lost[x]
                                 /\ Marked(x)' <=> Marked(x),
         \/ /\ effects'[e] = effects[e] + 1 /\ lost'[e] = lost[e]
            /\ ~Marked(e) /\ Marked(e)'
         \/ /\ effects'[e] = effects[e] /\ lost'[e] = lost[e] + 1
            /\ Marked(e) /\ ~Marked(e)'
         \/ /\ effects'[e] = effects[e] /\ lost'[e] = lost[e]
            /\ Marked(e)' <=> Marked(e)
  PROVE  RepeatsExplained'
<1> SUFFICES ASSUME NEW x \in Events
             PROVE  effects'[x] = (IF Marked(x)' THEN 1 ELSE 0) + lost'[x]
  BY DEF RepeatsExplained, Marked
<1>1. effects[x] = (IF Marked(x) THEN 1 ELSE 0) + lost[x] /\ lost[x] \in Nat
  BY DEF RepeatsExplained, Marked, TypeOK
<1>2. CASE x # e
  <2>1. /\ effects'[x] = effects[x] /\ lost'[x] = lost[x]
        /\ Marked(x)' <=> Marked(x)
    BY <1>2 DEF Marked, Recording, At
  <2> QED BY <1>1, <2>1
<1>3. CASE x = e
  BY <1>1, <1>3 DEF Marked, Recording, At
<1> QED BY <1>2, <1>3

\* Only the processor that works on an event can be recording it.
LEMMA OwnRecording ==
  ASSUME Inv, NEW i \in Instances, Busy(i)
  PROVE  Recording(worker[i].event) <=> At(i, "record")
<1>1. \A j \in Instances : At(j, "record") => Busy(j)
  BY DEF At, Busy, Free
<1> QED BY <1>1 DEF Recording, Inv, JobInv, OneExecutor, Busy

\* A step of one processor leaves what the others record.
LEMMA OthersRecord ==
  ASSUME Inv, NEW i \in Instances, NEW e \in Events, Busy(i), worker[i].event = e,
         \A j \in Instances \ {i} : worker'[j] = worker[j],
         worker'[i] = Free \/ worker'[i].event = e
  PROVE  /\ \A x \in Events \ {e} : Recording(x)' <=> Recording(x)
         /\ Recording(e)' <=> At(i, "record")'
<1>1. \A j \in Instances : At(j, "record") => Busy(j)
  BY DEF At, Busy, Free
<1>2. ~(Free.step = "record")
  BY DEF Free
<1>3. ASSUME NEW x \in Events \ {e} PROVE Recording(x)' <=> Recording(x)
  BY <1>2 DEF Recording, At
<1>4. \A j \in Instances \ {i} : At(j, "record")' => worker'[j].event # e
  BY <1>1 DEF Inv, JobInv, OneExecutor, Busy, At
<1>5. Recording(e)' <=> At(i, "record")'
  BY <1>2, <1>4 DEF Recording, At
<1> QED BY <1>3, <1>5

LEMMA WorkAccount ==
  ASSUME Inv, RepeatsExplained, NEW i \in Instances,
         HandlerSucceeds(i) \/ HandlerFails(i) \/ Record(i) \/ RecordFails(i)
           \/ Retry(i) \/ RetryFails(i)
  PROVE  RepeatsExplained'
<1>1. worker[i].step \in {"run", "record", "retry"} /\ Busy(i) /\ Working(i)
  <2>1. worker[i].step \in {"run", "record", "retry"}
    BY DEF HandlerSucceeds, HandlerFails, Record, RecordFails, Retry, RetryFails, At
  <2> QED BY <2>1 DEF Working, Busy, Free
<1>2. PICK e \in Events : worker[i].event = e
  BY <1>1, BusyFields DEF Inv, Busy
<1>3. status[e] # "DONE" /\ (Recording(e) <=> At(i, "record"))
  BY <1>1, <1>2, OwnRecording DEF Inv, JobInv
<1>4. PICK step \in {"record", "retry", "ack"} : GoTo(i, step)
  BY DEF HandlerSucceeds, HandlerFails, Record, RecordFails, Retry, RetryFails
<1>5. /\ \A j \in Instances \ {i} : worker'[j] = worker[j]
      /\ worker'[i].event = e /\ worker'[i].step = step
  BY <1>1, <1>2, <1>4, GoToFields DEF Inv
<1>6. /\ \A x \in Events \ {e} : Recording(x)' <=> Recording(x)
      /\ Recording(e)' <=> At(i, "record")'
  BY <1>1, <1>2, <1>5, OthersRecord
<1>7. Recording(e)' <=> step = "record"
  BY <1>5, <1>6 DEF At
<1>8. \A x \in Events \ {e} : /\ effects'[x] = effects[x] /\ lost'[x] = lost[x]
                              /\ status'[x] = status[x]
  BY <1>2 DEF HandlerSucceeds, HandlerFails, Record, RecordFails, Retry, RetryFails,
              Forget, row, Inv, TypeOK
<1>9. \A x \in Events \ {e} : /\ effects'[x] = effects[x] /\ lost'[x] = lost[x]
                              /\ Marked(x)' <=> Marked(x)
  BY <1>6, <1>8 DEF Marked
<1>10. CASE HandlerSucceeds(i)
  <2>1. /\ effects'[e] = effects[e] + 1 /\ lost'[e] = lost[e] /\ status'[e] = status[e]
        /\ ~At(i, "record")
    BY <1>2, <1>10 DEF HandlerSucceeds, row, Inv, TypeOK, At
  <2>2. step = "record"
    BY <1>1, <1>5, <1>10, GoToFields DEF HandlerSucceeds, Inv
  <2>3. ~Marked(e) /\ Marked(e)'
    BY <1>3, <1>7, <2>1, <2>2 DEF Marked
  <2> QED BY <1>9, <2>1, <2>3, AccountOne DEF Inv
<1>11. CASE Record(i)
  <2>1. /\ effects'[e] = effects[e] /\ lost'[e] = lost[e] /\ status'[e] = "DONE"
        /\ At(i, "record")
    BY <1>2, <1>11 DEF Record, Inv, TypeOK
  <2>2. Marked(e) /\ Marked(e)'
    BY <1>3, <2>1 DEF Marked
  <2> QED BY <1>9, <2>1, <2>2, AccountOne DEF Inv
<1>12. CASE RecordFails(i)
  <2>1. /\ effects'[e] = effects[e] /\ lost'[e] = lost[e] + 1 /\ status'[e] = status[e]
        /\ At(i, "record") /\ GoTo(i, "retry")
    BY <1>2, <1>12 DEF RecordFails, Forget, row, Inv, TypeOK
  <2>2. step # "record"
    BY <1>1, <1>5, <2>1, GoToFields DEF Inv
  <2>3. Marked(e) /\ ~Marked(e)'
    BY <1>3, <1>7, <2>1, <2>2 DEF Marked
  <2> QED BY <1>9, <2>1, <2>3, AccountOne DEF Inv
<1>13. CASE HandlerFails(i) \/ Retry(i) \/ RetryFails(i)
  <2>1. /\ effects'[e] = effects[e] /\ lost'[e] = lost[e] /\ status'[e] # "DONE"
        /\ ~At(i, "record") /\ (GoTo(i, "retry") \/ GoTo(i, "ack"))
    BY <1>2, <1>3, <1>13 DEF HandlerFails, Retry, RetryFails, row, Inv, TypeOK, At
  <2>2. step # "record"
    BY <1>1, <1>5, <2>1, GoToFields DEF Inv
  <2>3. ~Marked(e) /\ ~Marked(e)'
    BY <1>3, <1>7, <2>1, <2>2 DEF Marked
  <2> QED BY <1>9, <2>1, <2>3, AccountOne DEF Inv
<1> QED BY <1>10, <1>11, <1>12, <1>13

\* A crash right after the handler loses the mark, any other crash nothing.
LEMMA ReleaseAccount ==
  ASSUME Inv, RepeatsExplained, NEW i \in Instances, Ack(i) \/ Crash(i)
  PROVE  RepeatsExplained'
<1>1. /\ \A j \in Instances \ {i} : worker'[j] = worker[j]
      /\ worker'[i] = Free
      /\ UNCHANGED <<status, effects>>
  BY DEF Ack, Crash, row, Inv, TypeOK
<1>2. CASE ~Busy(i)
  <2>1. Crash(i) /\ UNCHANGED <<lost, worker>>
    <3>1. ~Ack(i)
      BY <1>2 DEF Ack, At, Free, Busy
    <3>2. worker' = worker
      BY <1>1, <1>2, <3>1 DEF Crash, Busy, Inv, TypeOK
    <3> QED BY <1>2, <3>1, <3>2 DEF Crash, Busy
  <2> QED BY <1>1, <2>1 DEF RepeatsExplained, Recording, At
<1>3. CASE Busy(i)
  <2>1. PICK e \in Events : worker[i].event = e
    BY <1>3, BusyFields DEF Inv, Busy
  <2>2. /\ \A x \in Events \ {e} : Recording(x)' <=> Recording(x)
        /\ Recording(e)' <=> At(i, "record")'
    BY <1>1, <1>3, <2>1, OthersRecord
  <2>3. ~Recording(e)'
    BY <1>1, <2>2 DEF At, Free
  <2>4. Recording(e) <=> At(i, "record")
    BY <1>3, <2>1, OwnRecording
  <2>5. \A x \in Events \ {e} : /\ effects'[x] = effects[x] /\ lost'[x] = lost[x]
                                /\ Marked(x)' <=> Marked(x)
    <3>1. \A x \in Events \ {e} : lost'[x] = lost[x]
      BY <2>1 DEF Ack, Crash, Forget, Inv, TypeOK
    <3> QED BY <1>1, <2>2, <3>1 DEF Marked
  <2>6. CASE At(i, "record")
    <3>1. lost'[e] = lost[e] + 1
      BY <1>3, <2>1, <2>6 DEF Ack, Crash, Forget, Inv, TypeOK, At, Busy
    <3>2. status[e] # "DONE"
      BY <2>1, <2>6 DEF Inv, JobInv, Working, At
    <3>3. Marked(e) /\ ~Marked(e)'
      BY <1>1, <2>3, <2>4, <2>6, <3>2 DEF Marked
    <3> QED BY <1>1, <2>5, <3>1, <3>3, AccountOne DEF Inv
  <2>7. CASE ~At(i, "record")
    <3>1. lost' = lost
      BY <1>3, <2>7 DEF Ack, Crash, Busy
    <3>2. Marked(e)' <=> Marked(e)
      BY <1>1, <2>3, <2>4, <2>7 DEF Marked
    <3> QED BY <1>1, <2>5, <3>1, <3>2, AccountOne DEF Inv
  <2> QED BY <2>6, <2>7
<1> QED BY <1>2, <1>3

\* Putting a DONE row back loses its mark.
LEMMA UndoAccount ==
  ASSUME Inv, RepeatsExplained, NEW i \in Instances, Undo(i)
  PROVE  RepeatsExplained'
<1>1. PICK e \in Events : relay[i].event = e
  BY DEF Undo, Inv, TypeOK, Relay, Resting
<1>2. \A x \in Events : Recording(x)' <=> Recording(x)
  BY DEF Undo, Recording, At
<1>3. \A x \in Events \ {e} : /\ effects'[x] = effects[x] /\ lost'[x] = lost[x]
                              /\ status'[x] = status[x]
  BY <1>1 DEF Undo, Inv, TypeOK
<1>4. \A x \in Events \ {e} : /\ effects'[x] = effects[x] /\ lost'[x] = lost[x]
                              /\ Marked(x)' <=> Marked(x)
  BY <1>2, <1>3 DEF Marked
<1>5. effects'[e] = effects[e] /\ status'[e] = "PENDING"
  BY <1>1 DEF Undo, Inv, TypeOK
<1>6. Recording(e) => status[e] # "DONE"
  BY DEF Recording, Inv, JobInv, Working, At
<1>7. CASE status[e] = "DONE"
  <2>1. lost'[e] = lost[e] + 1
    BY <1>1, <1>7 DEF Undo, Inv, TypeOK
  <2>2. Marked(e) /\ ~Marked(e)'
    BY <1>2, <1>5, <1>6, <1>7 DEF Marked
  <2> QED BY <1>4, <1>5, <2>1, <2>2, AccountOne DEF Inv
<1>8. CASE status[e] # "DONE"
  <2>1. lost'[e] = lost[e]
    BY <1>1, <1>8 DEF Undo, Inv, TypeOK
  <2>2. Marked(e)' <=> Marked(e)
    BY <1>2, <1>5, <1>8 DEF Marked
  <2> QED BY <1>4, <1>5, <2>1, <2>2, AccountOne DEF Inv
<1> QED BY <1>7, <1>8

\* The producer, time and the rest of the relay neither perform nor mark.
LEMMA RelayAccount ==
  ASSUME Inv, RepeatsExplained,
         \/ \E e \in Events : Enqueue(e) \/ BecomeDue(e) \/ GrowOld(e)
         \/ \E i \in Instances : ReclaimStale(i) \/ Claim(i) \/ PollFails(i)
         \/ \E i \in Instances, e \in Events :
              Dispatch(i, e) \/ Unknown(i, e) \/ AddFails(i, e)
  PROVE  RepeatsExplained'
<1>1. UNCHANGED <<worker, effects, lost>>
  BY DEF Enqueue, BecomeDue, GrowOld, ReclaimStale, Claim, PollFails, Dispatch,
         Unknown, AddFails
<1>2. \A x \in Events : status'[x] = "DONE" <=> status[x] = "DONE"
  <2>1. ASSUME NEW e \in Events, Enqueue(e) \/ BecomeDue(e) \/ GrowOld(e)
        PROVE  \A x \in Events : status'[x] = "DONE" <=> status[x] = "DONE"
    BY <2>1 DEF Enqueue, BecomeDue, GrowOld, Inv, TypeOK
  <2>2. ASSUME NEW i \in Instances, ReclaimStale(i) \/ Claim(i) \/ PollFails(i)
        PROVE  \A x \in Events : status'[x] = "DONE" <=> status[x] = "DONE"
    BY <2>2 DEF ReclaimStale, Claim, PollFails, Claimable, row
  <2>3. ASSUME NEW i \in Instances, NEW e \in Events,
               Dispatch(i, e) \/ Unknown(i, e) \/ AddFails(i, e)
        PROVE  \A x \in Events : status'[x] = "DONE" <=> status[x] = "DONE"
    BY <2>3, OutboxConstantsOK DEF Dispatch, Unknown, AddFails, Inv, TypeOK, JobInv, row
  <2> QED BY <2>1, <2>2, <2>3
<1>3. \A x \in Events : Marked(x)' <=> Marked(x)
  BY <1>1, <1>2 DEF Marked, Recording, At
<1> QED BY <1>1, <1>3, AccountKept

\* A processor that takes a job has performed nothing yet.
LEMMA BeginAccount ==
  ASSUME Inv, RepeatsExplained, NEW i \in Instances, NEW e \in Events, Begin(i, e)
  PROVE  RepeatsExplained'
<1>1. UNCHANGED <<status, effects, lost>>
  BY DEF Begin, row
<1>2. /\ \A j \in Instances \ {i} : worker'[j] = worker[j]
      /\ worker'[i].step # "record" /\ worker[i].step # "record"
  BY DEF Begin, Inv, TypeOK, Free
<1>3. \A x \in Events : Recording(x)' <=> Recording(x)
  BY <1>2 DEF Recording, At
<1> QED BY <1>1, <1>3, AccountKept DEF Marked

LEMMA AccountInit == Init => RepeatsExplained
BY DEF Init, RepeatsExplained, Recording, At, Free

LEMMA AccountNext == Inv /\ RepeatsExplained /\ [Next]_vars => RepeatsExplained'
<1> SUFFICES ASSUME Inv, RepeatsExplained, [Next]_vars PROVE RepeatsExplained'
  OBVIOUS
<1>1. ASSUME NEW i \in Instances, Poll(i) PROVE RepeatsExplained'
  BY <1>1, UndoAccount, RelayAccount DEF Poll
<1>2. ASSUME NEW i \in Instances, Work(i) \/ Break(i) PROVE RepeatsExplained'
  BY <1>2, WorkAccount, ReleaseAccount, RelayAccount DEF Work, Break
<1>3. CASE \E e \in Events : Enqueue(e) \/ BecomeDue(e) \/ GrowOld(e)
  BY <1>3, RelayAccount
<1>4. CASE \E i \in Instances, e \in Events : Begin(i, e)
  BY <1>4, BeginAccount
<1>5. CASE UNCHANGED vars
  BY <1>5 DEF vars, RepeatsExplained, Recording, At, row
<1> QED BY <1>1, <1>2, <1>3, <1>4, <1>5 DEF Next

\* Every performance of a side effect is the one being recorded, the one the
\* DONE mark stands for, or one whose mark was lost to a crash, a database
\* error or a relay that put the row back: nothing else repeats an effect.
THEOREM EffectsAccounted == Spec => []RepeatsExplained
<1> QED BY InitInv, NextInv, AccountInit, AccountNext, PTL DEF Spec

-----------------------------------------------------------------------------
(***************************************************************************)
(* Parked events.                                                          *)
(***************************************************************************)
LEMMA ParkedStep == Inv /\ ParkedWhenSpent /\ [Next]_vars => ParkedWhenSpent'
<1> SUFFICES ASSUME Inv, ParkedWhenSpent, [Next]_vars PROVE ParkedWhenSpent'
  OBVIOUS
<1> USE DEF row
<1>1. ASSUME NEW e \in Events, Enqueue(e) \/ BecomeDue(e) \/ GrowOld(e)
      PROVE  ParkedWhenSpent'
  BY <1>1 DEF Enqueue, BecomeDue, GrowOld, ParkedWhenSpent, Inv, TypeOK
<1>2. ASSUME NEW i \in Instances, ReclaimStale(i) \/ Claim(i) \/ Undo(i)
      PROVE  ParkedWhenSpent'
  <2>1. \A e \in Events : status'[e] = "FAILED" => status[e] = "FAILED"
    BY <1>2 DEF ReclaimStale, Claim, Undo, Inv, TypeOK
  <2>2. attempts' = attempts
    BY <1>2 DEF ReclaimStale, Claim, Undo
  <2> QED BY <2>1, <2>2 DEF ParkedWhenSpent
<1>3. ASSUME NEW i \in Instances, NEW e \in Events,
             Dispatch(i, e) \/ Unknown(i, e) \/ AddFails(i, e) \/ Begin(i, e)
      PROVE  ParkedWhenSpent'
  <2>1. \A x \in Events : status'[x] = "FAILED" => status[x] = "FAILED" \/ x \in Unroutable
    BY <1>3 DEF Dispatch, Unknown, AddFails, Begin, Inv, TypeOK
  <2>2. attempts' = attempts
    BY <1>3 DEF Dispatch, Unknown, AddFails, Begin
  <2> QED BY <2>1, <2>2 DEF ParkedWhenSpent
<1>4. ASSUME NEW i \in Instances, Retry(i) PROVE ParkedWhenSpent'
  <2>1. worker[i].event \in Events /\ worker[i].seen + 1 \in Nat
    BY <1>4, BusyFields DEF Retry, At, Free, Inv
  <2>2. PICK e, n : /\ e \in Events /\ n \in Nat
                    /\ attempts' = [attempts EXCEPT ![e] = n]
                    /\ status' = [status EXCEPT ![e] =
                                    IF n >= MaxAttempts THEN "FAILED" ELSE "PENDING"]
    BY <1>4, <2>1 DEF Retry
  <2>3. \A x \in Events \ {e} : status'[x] = status[x] /\ attempts'[x] = attempts[x]
    BY <2>2 DEF Inv, TypeOK
  <2>4. status'[e] = "FAILED" => attempts'[e] >= MaxAttempts
    BY <2>2 DEF Inv, TypeOK
  <2> QED BY <2>3, <2>4 DEF ParkedWhenSpent
<1>5. ASSUME NEW i \in Instances,
             \/ HandlerSucceeds(i) \/ HandlerFails(i) \/ Ack(i)
             \/ PollFails(i) \/ RecordFails(i) \/ RetryFails(i) \/ Crash(i)
      PROVE  ParkedWhenSpent'
  <2>1. UNCHANGED <<status, attempts>>
    BY <1>5 DEF HandlerSucceeds, HandlerFails, Ack, PollFails, RecordFails, RetryFails, Crash
  <2> QED BY <2>1 DEF ParkedWhenSpent
<1>6. ASSUME NEW i \in Instances, Record(i) PROVE ParkedWhenSpent'
  <2>1. \A e \in Events : status'[e] = "FAILED" => status[e] = "FAILED"
    BY <1>6 DEF Record, Inv, TypeOK
  <2>2. attempts' = attempts
    BY <1>6 DEF Record
  <2> QED BY <2>1, <2>2 DEF ParkedWhenSpent
<1>7. CASE UNCHANGED vars
  BY <1>7 DEF vars, ParkedWhenSpent
<1> QED BY <1>1, <1>2, <1>3, <1>4, <1>5, <1>6, <1>7 DEF Next, Poll, Work, Break

\* No event is given up before its attempts are used up, unless no queue
\* exists for it, through every lost, repeated and late delivery.
THEOREM ParkedLast == Spec => []ParkedWhenSpent
<1>1. Init => ParkedWhenSpent
  BY DEF Init, ParkedWhenSpent
<1> QED BY <1>1, InitInv, NextInv, ParkedStep, PTL DEF Spec
=============================================================================
