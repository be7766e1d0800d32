------------------------------- MODULE Outbox -------------------------------
(***************************************************************************)
(* The transactional outbox: OutboxService.enqueue, the relay that polls   *)
(* the OutboxEvent table and feeds BullMQ, and OutboxExecutionService that *)
(* every queue processor runs its handler through.                         *)
(*                                                                         *)
(* Each application instance runs one relay (guarded by `running`) and one *)
(* processor.  The table and the queue are shared.  A statement against    *)
(* either is one step, so a crash, a slow handler or another instance can  *)
(* come between any two.  Time is abstract: a row's nextRunAt passes, and  *)
(* five minutes pass since a row was last written, at any moment.          *)
(***************************************************************************)
EXTENDS Integers, FiniteSets

CONSTANTS
  Events,        \* outbox rows, named by their dedupeKey
  Unroutable,    \* rows whose queue name the relay does not know
  Instances,     \* application instances
  BatchSize,     \* rows one poll claims
  MaxAttempts,   \* OutboxEvent.maxAttempts
  AddsMayLand,   \* an add that throws may have reached Redis all the same
  MaxFaults      \* bound: crashes, Redis and database errors in a behaviour

ASSUME OutboxConstantsOK ==
  /\ Unroutable \subseteq Events
  /\ BatchSize \in Nat \ {0}
  /\ MaxAttempts \in Nat \ {0}
  /\ AddsMayLand \in BOOLEAN
  /\ MaxFaults \in Nat

VARIABLES
  status,     \* OutboxEvent.status, "NONE" when there is no row
  attempts,   \* OutboxEvent.attempts
  due,        \* nextRunAt <= now
  old,        \* updatedAt is more than five minutes ago
  job,        \* the BullMQ job with jobId = the row's id
  relay,      \* each instance's poll: its step, the rows still to enqueue
  worker,     \* each instance's processor: its step, its event, attempts seen
  effects,    \* times the event's side effect was performed
  lost,       \* history: effects whose DONE mark was not written, or undone
  faults

row  == <<status, attempts, due, old>>
vars == <<row, job, relay, worker, effects, lost, faults>>

Statuses == {"NONE", "PENDING", "PROCESSING", "DONE", "FAILED"}

Resting == [step |-> "idle", batch |-> {}]
Free    == [step |-> "idle"]

\* "undo": the add for the event failed and its row is still to be reset.
Relay ==
  [step : {"idle", "claim", "add"}, batch : SUBSET Events]
    \cup [step : {"undo"}, batch : SUBSET Events, event : Events]
Worker ==
  {Free} \cup
    [step : {"run", "record", "retry", "ack"}, event : Events, seen : Nat]

Init ==
  /\ status = [e \in Events |-> "NONE"]
  /\ attempts = [e \in Events |-> 0]
  /\ due = [e \in Events |-> FALSE]
  /\ old = [e \in Events |-> FALSE]
  /\ job = [e \in Events |-> "none"]
  /\ relay = [i \in Instances |-> Resting]
  /\ worker = [i \in Instances |-> Free]
  /\ effects = [e \in Events |-> 0]
  /\ lost = [e \in Events |-> 0]
  /\ faults = 0

Fault == faults < MaxFaults /\ faults' = faults + 1

(***************************************************************************)
(* The producer, inside its business transaction.  A row with the same     *)
(* dedupeKey makes the insert a no-op.                                     *)
(***************************************************************************)
Enqueue(e) ==
  /\ status[e] = "NONE"
  /\ status' = [status EXCEPT ![e] = "PENDING"]
  /\ due' = [due EXCEPT ![e] = TRUE]
  /\ UNCHANGED <<attempts, old, job, relay, worker, effects, lost, faults>>

(***************************************************************************)
(* Time.                                                                   *)
(***************************************************************************)
BecomeDue(e) ==
  /\ status[e] = "PENDING" /\ ~due[e]
  /\ due' = [due EXCEPT ![e] = TRUE]
  /\ UNCHANGED <<status, attempts, old, job, relay, worker, effects, lost, faults>>

GrowOld(e) ==
  /\ status[e] = "PROCESSING" /\ ~old[e]
  /\ old' = [old EXCEPT ![e] = TRUE]
  /\ UNCHANGED <<status, attempts, due, job, relay, worker, effects, lost, faults>>

(***************************************************************************)
(* The relay.  reclaimStale and the claim are two transactions; then each  *)
(* claimed row is added to its queue, one call at a time.                  *)
(***************************************************************************)
\* Slip: stale rows are left alone.
ReclaimNothing(i) ==
  /\ relay[i].step = "idle"
  /\ relay' = [relay EXCEPT ![i].step = "claim"]
  /\ UNCHANGED <<row, job, worker, effects, lost, faults>>

ReclaimStale(i) ==
  LET stale == {e \in Events : status[e] = "PROCESSING" /\ old[e]}
  IN  /\ relay[i].step = "idle"
      /\ status' = [e \in Events |-> IF e \in stale THEN "PENDING" ELSE status[e]]
      /\ old' = [e \in Events |-> old[e] /\ e \notin stale]
      /\ relay' = [relay EXCEPT ![i].step = "claim"]
      /\ UNCHANGED <<attempts, due, job, worker, effects, lost, faults>>

Claimable == {e \in Events : status[e] = "PENDING" /\ due[e]}

\* The earliest BatchSize due rows; which ones those are is left open.
Claim(i) ==
  \E claimed \in SUBSET Claimable :
    /\ relay[i].step = "claim"
    /\ \/ claimed = Claimable /\ Cardinality(claimed) =< BatchSize
       \/ Cardinality(claimed) = BatchSize
    /\ status' = [e \in Events |-> IF e \in claimed THEN "PROCESSING" ELSE status[e]]
    /\ old' = [e \in Events |-> old[e] /\ e \notin claimed]
    /\ relay' = [relay EXCEPT ![i] =
                   IF claimed = {} THEN Resting ELSE [step |-> "add", batch |-> claimed]]
    /\ UNCHANGED <<attempts, due, job, worker, effects, lost, faults>>

Rest(batch) == IF batch = {} THEN Resting ELSE [step |-> "add", batch |-> batch]

\* Slip: the job is added without its jobId.
DispatchAgain(i, e) ==
  /\ relay[i].step = "add" /\ e \in relay[i].batch \ Unroutable
  /\ job' = [job EXCEPT ![e] = "waiting"]
  /\ relay' = [relay EXCEPT ![i] = Rest(@.batch \ {e})]
  /\ UNCHANGED <<row, worker, effects, lost, faults>>

\* queue.add is a no-op while a job with that id is live.
Dispatch(i, e) ==
  /\ relay[i].step = "add" /\ e \in relay[i].batch \ Unroutable
  /\ job' = [job EXCEPT ![e] = IF @ = "none" THEN "waiting" ELSE @]
  /\ relay' = [relay EXCEPT ![i] = Rest(@.batch \ {e})]
  /\ UNCHANGED <<row, worker, effects, lost, faults>>

Unknown(i, e) ==
  /\ relay[i].step = "add" /\ e \in relay[i].batch \cap Unroutable
  /\ status' = [status EXCEPT ![e] = "FAILED"]
  /\ relay' = [relay EXCEPT ![i] = Rest(@.batch \ {e})]
  /\ UNCHANGED <<attempts, due, old, job, worker, effects, lost, faults>>

\* The add throws; the row is still to be reset.
AddFails(i, e) ==
  /\ relay[i].step = "add" /\ e \in relay[i].batch \ Unroutable
  /\ \/ UNCHANGED job
     \/ /\ AddsMayLand
        /\ job' = [job EXCEPT ![e] = IF @ = "none" THEN "waiting" ELSE @]
  /\ relay' = [relay EXCEPT ![i] =
                 [step |-> "undo", batch |-> @.batch \ {e}, event |-> e]]
  /\ Fault
  /\ UNCHANGED <<row, worker, effects, lost>>

\* The row goes back to PENDING, whatever it is by now.
Undo(i) ==
  LET e == relay[i].event
  IN  /\ relay[i].step = "undo"
      /\ status' = [status EXCEPT ![e] = "PENDING"]
      /\ lost' = [lost EXCEPT ![e] = IF status[e] = "DONE" THEN @ + 1 ELSE @]
      /\ relay' = [relay EXCEPT ![i] = Rest(@.batch)]
      /\ UNCHANGED <<attempts, due, old, job, worker, effects, faults>>

\* A database error ends the poll; what it claimed stays PROCESSING.
PollFails(i) ==
  /\ relay[i].step # "idle"
  /\ relay' = [relay EXCEPT ![i] = Resting]
  /\ Fault
  /\ UNCHANGED <<row, job, worker, effects, lost>>

(***************************************************************************)
(* The processor.  One job at a time; the job stays live until the call    *)
(* returns and BullMQ removes it.                                          *)
(***************************************************************************)
\* Slip: the status is not looked at.
BeginBlind(i, e) ==
  /\ worker[i] = Free /\ job[e] = "waiting"
  /\ job' = [job EXCEPT ![e] = "active"]
  /\ worker' = [worker EXCEPT ![i] = [step |-> "run", event |-> e, seen |-> attempts[e]]]
  /\ UNCHANGED <<row, relay, effects, lost, faults>>

Begin(i, e) ==
  /\ worker[i] = Free /\ job[e] = "waiting"
  /\ job' = [job EXCEPT ![e] = "active"]
  /\ worker' = [worker EXCEPT ![i] =
       [step |-> IF status[e] \in {"NONE", "DONE"} THEN "ack" ELSE "run",
        event |-> e, seen |-> attempts[e]]]
  /\ UNCHANGED <<row, relay, effects, lost, faults>>

At(i, step) == worker[i].step = step
GoTo(i, step) == worker' = [worker EXCEPT ![i].step = step]

HandlerSucceeds(i) ==
  /\ At(i, "run")
  /\ effects' = [effects EXCEPT ![worker[i].event] = @ + 1]
  /\ GoTo(i, "record")
  /\ UNCHANGED <<row, job, relay, lost, faults>>

\* Slip: the handler's error is swallowed.
HandlerSwallows(i) ==
  /\ At(i, "run")
  /\ GoTo(i, "record")
  /\ UNCHANGED <<row, job, relay, effects, lost, faults>>

HandlerFails(i) ==
  /\ At(i, "run")
  /\ GoTo(i, "retry")
  /\ UNCHANGED <<row, job, relay, effects, lost, faults>>

Record(i) ==
  /\ At(i, "record")
  /\ status' = [status EXCEPT ![worker[i].event] = "DONE"]
  /\ GoTo(i, "ack")
  /\ UNCHANGED <<attempts, due, old, job, relay, effects, lost, faults>>

Forget(e) == lost' = [lost EXCEPT ![e] = @ + 1]

\* The write of DONE is inside the same try as the handler: if it throws, the
\* attempt counts as failed.
RecordFails(i) ==
  /\ At(i, "record")
  /\ Forget(worker[i].event)
  /\ GoTo(i, "retry")
  /\ Fault
  /\ UNCHANGED <<row, job, relay, effects>>

\* Slip: the event is parked one attempt early.
RetryOnceLess(i) ==
  LET e == worker[i].event
      n == worker[i].seen + 1
  IN  /\ At(i, "retry")
      /\ attempts' = [attempts EXCEPT ![e] = n]
      /\ status' = [status EXCEPT ![e] = IF n + 1 >= MaxAttempts THEN "FAILED" ELSE "PENDING"]
      /\ due' = [due EXCEPT ![e] = IF n + 1 >= MaxAttempts THEN @ ELSE FALSE]
      /\ GoTo(i, "ack")
      /\ UNCHANGED <<old, job, relay, effects, lost, faults>>

\* Slip: the attempts are counted down.
RetryDown(i) ==
  LET e == worker[i].event
      n == worker[i].seen - 1
  IN  /\ At(i, "retry")
      /\ attempts' = [attempts EXCEPT ![e] = n]
      /\ status' = [status EXCEPT ![e] = IF n =< 0 THEN "FAILED" ELSE "PENDING"]
      /\ due' = [due EXCEPT ![e] = IF n =< 0 THEN @ ELSE FALSE]
      /\ GoTo(i, "ack")
      /\ UNCHANGED <<old, job, relay, effects, lost, faults>>

\* onFailure: one attempt more than the one read, then back off or park.
Retry(i) ==
  LET e == worker[i].event
      n == worker[i].seen + 1
  IN  /\ At(i, "retry")
      /\ attempts' = [attempts EXCEPT ![e] = n]
      /\ status' = [status EXCEPT ![e] = IF n >= MaxAttempts THEN "FAILED" ELSE "PENDING"]
      /\ due' = [due EXCEPT ![e] = IF n >= MaxAttempts THEN @ ELSE FALSE]
      /\ GoTo(i, "ack")
      /\ UNCHANGED <<old, job, relay, effects, lost, faults>>

RetryFails(i) ==
  /\ At(i, "retry")
  /\ GoTo(i, "ack")
  /\ Fault
  /\ UNCHANGED <<row, job, relay, effects, lost>>

\* removeOnComplete, removeOnFail: the job's id is free again.
Ack(i) ==
  /\ At(i, "ack")
  /\ job' = [job EXCEPT ![worker[i].event] = "none"]
  /\ worker' = [worker EXCEPT ![i] = Free]
  /\ UNCHANGED <<row, relay, effects, lost, faults>>

\* The instance dies.  A job it was running is found stalled and put back, or
\* has stalled too often and is dropped.
Crash(i) ==
  /\ relay[i] # Resting \/ worker[i] # Free
  /\ Fault
  /\ relay' = [relay EXCEPT ![i] = Resting]
  /\ worker' = [worker EXCEPT ![i] = Free]
  /\ IF worker[i] = Free
       THEN UNCHANGED <<job, lost>>
       ELSE /\ \E j \in {"waiting", "none"} :
                  job' = [job EXCEPT ![worker[i].event] = j]
            /\ IF At(i, "record") THEN Forget(worker[i].event) ELSE UNCHANGED lost
  /\ UNCHANGED <<row, effects>>

-----------------------------------------------------------------------------
Poll(i) ==
  \/ ReclaimStale(i) \/ Claim(i) \/ Undo(i)
  \/ \E e \in Events : Dispatch(i, e) \/ Unknown(i, e)

Work(i) ==
  HandlerSucceeds(i) \/ HandlerFails(i) \/ Record(i) \/ Retry(i) \/ Ack(i)

Break(i) ==
  \/ \E e \in Events : AddFails(i, e)
  \/ PollFails(i) \/ RecordFails(i) \/ RetryFails(i) \/ Crash(i)

Next ==
  \/ \E e \in Events : Enqueue(e) \/ BecomeDue(e) \/ GrowOld(e)
  \/ \E i \in Instances : Poll(i) \/ Work(i) \/ Break(i)
  \/ \E i \in Instances, e \in Events : Begin(i, e)

Spec == Init /\ [][Next]_vars

\* The cron fires every ten seconds, calls return or throw, time passes, and
\* the queue hands out its jobs in order.
Fairness ==
  /\ \A e \in Events : WF_vars(BecomeDue(e)) /\ WF_vars(GrowOld(e))
  /\ \A i \in Instances : WF_vars(Poll(i)) /\ WF_vars(Work(i))
  /\ \A e \in Events : SF_vars(\E i \in Instances : Begin(i, e))

FairSpec == Spec /\ Fairness

-----------------------------------------------------------------------------
TypeOK ==
  /\ status \in [Events -> Statuses]
  /\ attempts \in [Events -> Nat]
  /\ due \in [Events -> BOOLEAN]
  /\ old \in [Events -> BOOLEAN]
  /\ job \in [Events -> {"none", "waiting", "active"}]
  /\ relay \in [Instances -> Relay]
  /\ worker \in [Instances -> Worker]
  /\ effects \in [Events -> Nat]
  /\ lost \in [Events -> Nat]
  /\ faults \in Nat

\* The job's id keeps an event to one processor at a time, through reclaims,
\* repeated claims, failed adds and crashes: a handler never races itself.
OneExecutor ==
  \A i, j \in Instances :
    worker[i] # Free /\ worker[j] # Free /\ worker[i].event = worker[j].event
      => i = j

\* Each performance of the side effect is accounted for: it is being recorded,
\* it is the one the DONE mark records, or its mark was lost to a crash, to a
\* database error or to a relay whose add failed.  Nothing else repeats it:
\* neither reclaiming a slow row nor claiming it twice does.
Recording(e) == \E i \in Instances : At(i, "record") /\ worker[i].event = e

RepeatsExplained ==
  \A e \in Events :
    effects[e] = (IF status[e] = "DONE" \/ Recording(e) THEN 1 ELSE 0) + lost[e]

\* An event is parked only after its attempts were used up, or because no
\* queue exists for it.
ParkedWhenSpent ==
  \A e \in Events :
    status[e] = "FAILED" => attempts[e] >= MaxAttempts \/ e \in Unroutable

PromiseOf(s) ==
  CASE s = "NONE"   -> "none"
    [] s = "DONE"   -> "settled"
    [] s = "FAILED" -> "parked"
    [] OTHER        -> "owed"

Promise == INSTANCE OutboxPromise WITH
  promise <- [e \in Events |-> PromiseOf(status[e])]

\* The rows, the relay and the processors together keep the outbox's promise.
KeepsPromise == Promise!Spec

\* Every enqueued event is eventually performed or parked, whatever fails on
\* the way.
Settles ==
  \A e \in Events : status[e] = "PENDING" ~> status[e] \in {"DONE", "FAILED"}

=============================================================================
