------------------------------ MODULE Payouts ------------------------------
(***************************************************************************)
(* Settlement with a seller: PayoutService beside ReturnsService.  A       *)
(* payout run previews what each delivered slice is worth net of processed *)
(* refunds, absorbs the clawbacks that fit, and books both in a            *)
(* transaction whose every write is conditional; a payout is then marked   *)
(* paid or failed by a finance clerk.  Returns go on meanwhile, so a       *)
(* preview, and the payout status a completion read, can be stale.         *)
(*                                                                         *)
(* One seller; a unit of goods refunded is a unit of the seller's share    *)
(* lost.  TCS withheld from a payout is left out.                          *)
(***************************************************************************)
EXTENDS Returns

CONSTANTS
  Payouts,  \* the payouts that may be created, numbered
  Clerks    \* payout operations under way at the same time

ASSUME PayoutsConstantsOK == IsFiniteSet(Payouts) /\ Payouts \subseteq Nat

VARIABLES
  payout,  \* Payout: its status, items, what each item was netted by, and clawbacks
  clerk,   \* what each clerk has read and is about to write
  paidFor, \* history: the payouts marked PAID that listed a slice
  overlap  \* history: payouts two clerks closed at the same time

payoutVars == <<payout, clerk, paidFor, overlap>>
settlementVars == <<returnVars, payoutVars>>

NoPayout == [status |-> "none", items |-> {}, netted |-> [s \in Slices |-> 0], absorbed |-> {}]
Off == [do |-> "idle"]

ClerkTask ==
  {Off}
    \cup [do : {"absorb"}, items : SUBSET Slices, netted : [Slices -> Nat]]
    \cup [do : {"commit"}, items : SUBSET Slices, netted : [Slices -> Nat],
          absorbed : SUBSET Returns]
    \cup [do : {"paid", "failed"}, payout : Payouts, items : SUBSET Slices]

PayoutsInit ==
  /\ ReturnsInit
  /\ payout = [p \in Payouts |-> NoPayout]
  /\ clerk = [c \in Clerks |-> Off]
  /\ paidFor = [s \in Slices |-> {}]
  /\ overlap = {}

Listed(s) == \E p \in Payouts : s \in payout[p].items

\* The processed refunds attributed to a slice.
Refunded(s) == SumOver({r \in RefundsOn(s) : refSt[r] = "PROCESSED"})

Owed == [q \in Returns |-> clawback[q].amount]
OwedFor(Q) == SumFunctionOnSet(Owed, Q)
Pending == {q \in Returns : clawback[q].status = "PENDING"}

(***************************************************************************)
(* createPayoutRun: two reads, outside a transaction, then one transaction.*)
(***************************************************************************)
Eligible == {s \in Slices : /\ sliceSt[s] = "DELIVERED" /\ s \notin settled /\ ~Listed(s)
                            /\ Refunded(s) < Bought[s]}

PreviewItems(c) ==
  /\ clerk[c] = Off /\ Eligible # {}
  /\ clerk' = [clerk EXCEPT ![c] =
       [do |-> "absorb", items |-> Eligible, netted |-> [s \in Slices |-> Refunded(s)]]]
  /\ UNCHANGED <<returnVars, payout, paidFor, overlap>>

\* Clawbacks are absorbed whole, oldest first, up to the first that does not fit.
\* No order of creation is kept: any stands for it.
Absorbs(Q, room) ==
  /\ OwedFor(Q) =< room
  /\ Q = Pending \/ \E q \in Pending \ Q : OwedFor(Q \cup {q}) > room

PreviewClawbacks(c) ==
  LET t == clerk[c]
      room == SumFunctionOnSet([s \in Slices |-> Bought[s] - t.netted[s]], t.items)
  IN  /\ t.do = "absorb"
      /\ \E Q \in SUBSET Pending :
           /\ Absorbs(Q, room)
           /\ clerk' = [clerk EXCEPT ![c] =
                [do |-> "commit", items |-> t.items, netted |-> t.netted, absorbed |-> Q]]
      /\ UNCHANGED <<returnVars, payout, paidFor, overlap>>

Become(Q, status) == [q \in Returns |->
  IF q \in Q THEN [clawback[q] EXCEPT !.status = status] ELSE clawback[q]]

\* Everything the transaction does once its guards hold.  A refund that was
\* processed since the preview leaves the slice loose.
BookRun(t, p) ==
  /\ payout' = [payout EXCEPT ![p] =
       [status |-> "PROCESSING", items |-> t.items, netted |-> t.netted,
        absorbed |-> t.absorbed]]
  /\ settled' = settled \cup t.items
  /\ clawback' = Become(t.absorbed, "APPLIED")
  /\ loose' = loose \cup {s \in t.items : t.netted[s] # Refunded(s)}

FreePayout(p) == /\ payout[p].status = "none"
                 /\ \A o \in Payouts : o < p => payout[o].status # "none"

\* Slip: only the clawbacks are guarded, and an order may be in two payouts.
RacedOnClawbacks(t) == \E q \in t.absorbed : clawback[q].status # "PENDING"

\* PayoutRaceError, or P2002 on PayoutItem.sellerOrderId: the seller is skipped.
RunRaced(t) ==
  \/ \E s \in t.items : s \in settled \/ Listed(s)
  \/ \E q \in t.absorbed : clawback[q].status # "PENDING"

CommitRun(c) ==
  LET t == clerk[c]
  IN  /\ t.do = "commit"
      /\ clerk' = [clerk EXCEPT ![c] = Off]
      /\ \/ RunRaced(t) /\ UNCHANGED <<returnVars, payout>>
         \/ /\ ~RunRaced(t)
            /\ \E p \in Payouts : FreePayout(p) /\ BookRun(t, p)
            /\ UNCHANGED <<refundState, retSt, ret, doubled, wtask, crashes>>
      /\ UNCHANGED <<paidFor, overlap>>

(***************************************************************************)
(* markPayoutPaid and markPayoutFailed: the status and the items are read, *)
(* then written without a condition.                                       *)
(***************************************************************************)
ReadPayout(c, p, do) ==
  /\ clerk[c] = Off /\ payout[p].status = "PROCESSING"
  /\ clerk' = [clerk EXCEPT ![c] = [do |-> do, payout |-> p, items |-> payout[p].items]]
  /\ UNCHANGED <<returnVars, payout, paidFor, overlap>>

Closed(p) == payout[p].status # "PROCESSING"
NoteOverlap(p) == overlap' = IF Closed(p) THEN overlap \cup {p} ELSE overlap

WritePaid(c) ==
  LET t == clerk[c]
  IN  /\ t.do = "paid"
      /\ payout' = [payout EXCEPT ![t.payout].status = "PAID"]
      /\ settled' = settled \cup t.items
      /\ paidFor' = [s \in Slices |->
           IF s \in t.items THEN paidFor[s] \cup {t.payout} ELSE paidFor[s]]
      /\ NoteOverlap(t.payout)
      /\ loose' = IF Closed(t.payout) THEN loose \cup t.items ELSE loose
      /\ clerk' = [clerk EXCEPT ![c] = Off]
      /\ UNCHANGED <<refundState, retSt, ret, clawback, doubled, wtask, crashes>>

\* Slip: the clawbacks a failed payout absorbed stay APPLIED to it.
KeepApplied(p) == UNCHANGED clawback

\* Slip: they fail with it.
FailClawbacks(p) == clawback' = Become(payout[p].absorbed, "FAILED")

ReleaseClawbacks(p) == clawback' = Become(payout[p].absorbed, "PENDING")

\* A slice on which a clawback stands, or is about to, is then both netted and clawed back.
WriteFailed(c) ==
  LET t == clerk[c]
      p == t.payout
  IN  /\ t.do = "failed"
      /\ payout' = [payout EXCEPT ![p] = [NoPayout EXCEPT !.status = "FAILED"]]
      /\ settled' = settled \ t.items
      /\ ReleaseClawbacks(p)
      /\ loose' = loose \cup {s \in t.items : Closed(p) \/
                     \E q \in Returns : ret[q].slice = s /\ (clawback[q] # NoClawback \/ Completing(q))}
      /\ NoteOverlap(p)
      /\ clerk' = [clerk EXCEPT ![c] = Off]
      /\ UNCHANGED <<refundState, retSt, ret, doubled, wtask, crashes, paidFor>>

-----------------------------------------------------------------------------
Clerical(c) ==
  \/ PreviewItems(c) \/ PreviewClawbacks(c) \/ CommitRun(c)
  \/ \E p \in Payouts : ReadPayout(c, p, "paid") \/ ReadPayout(c, p, "failed")
  \/ WritePaid(c) \/ WriteFailed(c)

SettlementNext ==
  \/ ReturnsNext /\ UNCHANGED payoutVars
  \/ \E c \in Clerks : Clerical(c)

SettlementSpec == PayoutsInit /\ [][SettlementNext]_settlementVars

SettlementFairSpec == SettlementSpec /\ ReturnsFairness

-----------------------------------------------------------------------------
Live(p) == payout[p].status \in {"PROCESSING", "PAID"}

\* Every variable has its type, the returns' own included.
SettlementTypeOK ==
  /\ ReturnsTypeOK
  /\ payout \in [Payouts -> [status : {"none", "PROCESSING", "PAID", "FAILED"},
                             items : SUBSET Slices, netted : [Slices -> Nat],
                             absorbed : SUBSET Returns]]
  /\ clerk \in [Clerks -> ClerkTask]
  /\ paidFor \in [Slices -> SUBSET Payouts]
  /\ overlap \subseteq Payouts

\* "Exclusion from the payout preview already prevents paying for a refunded order; a
\* clawback there would double-penalise": once its returns are complete, what a buyer
\* was refunded of a slice in a payout has been recovered from the seller once, by the
\* payout's own netting or by clawbacks, unless the payout and a return raced.
RecoveredOnce ==
  \A p \in Payouts : \A s \in payout[p].items \ loose :
    Live(p) /\ (\A q \in Returns : ret[q].slice = s => retSt[q] # "QC_PASSED") =>
      Refunded(s) = payout[p].netted[s] + OwedFor({q \in Returns : ret[q].slice = s})

\* A clawback is APPLIED exactly where a payout that may still be disbursed absorbed it,
\* and never by two of them.
AppliedIsLive ==
  \A q \in Returns :
    LET by == {p \in Payouts : Live(p) /\ q \in payout[p].absorbed}
    IN  Cardinality(by) = IF clawback[q].status = "APPLIED" THEN 1 ELSE 0

\* A seller is paid once for a slice, unless two clerks closed one payout at once.
PaidOnce ==
  \A s \in Slices : paidFor[s] \cap overlap = {} => Cardinality(paidFor[s]) =< 1
=============================================================================
