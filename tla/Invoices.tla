------------------------------ MODULE Invoices ------------------------------
(***************************************************************************)
(* InvoiceService, InvoiceNumberService, InvoiceStorageService: the number *)
(* of a seller order's tax invoice, its rendering and its upload.          *)
(*                                                                         *)
(* CGST Rule 46 asks for consecutive numbers by seller and financial year, *)
(* so a number is reserved in a transaction of its own, under a lock on    *)
(* the seller order, before anything that may fail.  The printed number    *)
(* names the seller by four characters only, and it is unique over all     *)
(* sellers: a reservation that would repeat one rolls back.                *)
(*                                                                         *)
(* What the invoice says, its template and its logos are left out.         *)
(*                                                                         *)
(* The second half is the tax collected at source, from its ledger upwards.*)
(***************************************************************************)
EXTENDS Integers, FiniteSets, Functions

CONSTANTS
  SellerOrders,  \* seller orders to invoice
  SellerOf,      \* the seller of each
  CodeOf,        \* sellerCodeFrom: four characters of each seller's id
  Years,         \* financial years
  Clerks,        \* jobs under way at the same time
  MaxRenders     \* bound: renderings

ASSUME InvoiceConstantsOK ==
  /\ MaxRenders \in Nat /\ "none" \notin Years
  /\ SellerOf \in [SellerOrders -> DOMAIN CodeOf]

Vendors == DOMAIN CodeOf

VARIABLES
  year,     \* getFiscalYear of the present day
  nextSeq,  \* InvoiceSequence.nextSeq by seller and year
  number,   \* SellerOrder.invoiceNumber with its date
  stored,   \* SellerOrder.invoiceUrl: the number whose file it names
  files,    \* the files uploaded, by seller and number
  ijob,     \* what each job is about to do, and for which order
  renders

invoiceVars == <<year, nextSeq, number, stored, files, ijob, renders>>

NoNumber == [seq |-> 0, code |-> "none", year |-> "none"]
IdleJob  == [do |-> "idle", of |-> "none", bound |-> NoNumber]
Codes    == {CodeOf[v] : v \in Vendors}
Numbers  == [seq : Nat \ {0}, code : Codes, year : Years]

InvoiceInit ==
  /\ year \in Years
  /\ nextSeq = [v \in Vendors |-> [y \in Years |-> 1]]
  /\ number = [o \in SellerOrders |-> NoNumber]
  /\ stored = [o \in SellerOrders |-> NoNumber]
  /\ files = {}
  /\ ijob = [c \in Clerks |-> IdleJob]
  /\ renders = 0

IStep(c, d, o, n) == ijob' = [ijob EXCEPT ![c] = [do |-> d, of |-> o, bound |-> n]]
IRest(c)          == ijob' = [ijob EXCEPT ![c] = IdleJob]

NewYear(y) ==
  /\ y # year /\ \A v \in Vendors : nextSeq[v][y] = 1
  /\ year' = y
  /\ UNCHANGED <<nextSeq, number, stored, files, ijob, renders>>

\* generateForSellerOrder, from the outbox, a COD confirmation or the payment sweep: an
\* invoice that is stored is returned as it is.
Generate(c, o) ==
  /\ ijob[c] = IdleJob /\ stored[o] = NoNumber
  /\ IStep(c, "reserve", o, NoNumber)
  /\ UNCHANGED <<year, nextSeq, number, stored, files, renders>>

\* regenerateForSellerOrder renders again under the number that is bound.
Regenerate(c, o) ==
  /\ ijob[c] = IdleJob
  /\ IF number[o] = NoNumber
     THEN /\ stored' = [stored EXCEPT ![o] = NoNumber]
          /\ IStep(c, "reserve", o, NoNumber)
     ELSE /\ IStep(c, "render", o, number[o])
          /\ UNCHANGED stored
  /\ UNCHANGED <<year, nextSeq, number, files, renders>>

Printed(v) == [seq |-> nextSeq[v][year], code |-> CodeOf[v], year |-> year]
Taken(n)   == \E o \in SellerOrders : number[o] = n

\* allocateInTx and the order's update.
Allocate(o) ==
  LET v == SellerOf[o] IN
  IF number[o] # NoNumber \/ Taken(Printed(v)) THEN UNCHANGED <<nextSeq, number>>
  ELSE /\ nextSeq' = [nextSeq EXCEPT ![v][year] = @ + 1]
       /\ number' = [number EXCEPT ![o] = Printed(v)]

\* reserveInvoiceNumber, one transaction on the locked order.  A number that repeats
\* another seller's fails it, and the job with it.
Reserve(c) ==
  /\ ijob[c].do = "reserve"
  /\ Allocate(ijob[c].of)
  /\ IF number'[ijob[c].of] = NoNumber THEN IRest(c)
     ELSE IStep(c, "render", ijob[c].of, number'[ijob[c].of])
  /\ UNCHANGED <<year, stored, files, renders>>

\* renderPdf and putPdf: either may fail, and the browser may be gone.
Render(c) ==
  /\ ijob[c].do = "render" /\ renders < MaxRenders
  /\ renders' = renders + 1
  /\ \/ IRest(c) /\ UNCHANGED files
     \/ /\ files' = files \cup {<<SellerOf[ijob[c].of], ijob[c].bound>>}
        /\ IStep(c, "link", ijob[c].of, ijob[c].bound)
  /\ UNCHANGED <<year, nextSeq, number, stored>>

LinkFile(c) ==
  /\ ijob[c].do = "link"
  /\ stored' = [stored EXCEPT ![ijob[c].of] = ijob[c].bound]
  /\ IRest(c)
  /\ UNCHANGED <<year, nextSeq, number, files, renders>>

InvoiceCrash(c) ==
  /\ ijob[c] # IdleJob
  /\ IRest(c)
  /\ UNCHANGED <<year, nextSeq, number, stored, files, renders>>

-----------------------------------------------------------------------------
InvoiceNext ==
  \/ \E y \in Years : NewYear(y)
  \/ \E c \in Clerks :
       \/ \E o \in SellerOrders : Generate(c, o) \/ Regenerate(c, o)
       \/ Reserve(c) \/ Render(c) \/ LinkFile(c) \/ InvoiceCrash(c)

InvoiceSpec == InvoiceInit /\ [][InvoiceNext]_invoiceVars

-----------------------------------------------------------------------------
\* Every variable has its type.
InvoiceTypeOK ==
  /\ year \in Years
  /\ nextSeq \in [Vendors -> [Years -> Nat \ {0}]]
  /\ {number, stored} \subseteq [SellerOrders -> Numbers \cup {NoNumber}]
  /\ files \subseteq Vendors \X Numbers
  /\ ijob \in [Clerks -> [do : {"idle", "reserve", "render", "link"},
                          of : SellerOrders \cup {"none"}, bound : Numbers \cup {NoNumber}]]
  /\ renders \in Nat

\* The numbers of a seller's invoices in a year are consecutive from one, each of one order,
\* whatever renderings fail, jobs repeat or crash.
NumbersGapless ==
  /\ \A v \in Vendors, y \in Years :
       {number[o].seq : o \in {p \in SellerOrders : SellerOf[p] = v /\ number[p].year = y}}
         = 1 .. (nextSeq[v][y] - 1)
  /\ \A o, p \in SellerOrders : o # p /\ number[o] = number[p] => number[o] = NoNumber

-----------------------------------------------------------------------------
(***************************************************************************)
(* TcsService from the ledger upwards: what was withheld in a month is     *)
(* rolled up into the TcsDeposit of that month, reported in its GSTR-8,    *)
(* marked DEPOSITED, and reminded of.  Accruals and reversals (module      *)
(* Refunds) are entries of one unit, dated by the clock when they are made *)
(* and visible when their transaction commits.                             *)
(***************************************************************************)
CONSTANTS
  Suppliers,    \* sellers with entries in the ledger
  Keepers,      \* requests of administrators and the reminder's cron
  MaxMonths,    \* bound: months
  MaxEntries    \* bound: ledger entries

ASSUME DepositConstantsOK ==
  IsFiniteSet(Suppliers) /\ MaxMonths \in Nat \ {0} /\ MaxEntries \in Nat

Months == 1 .. MaxMonths

VARIABLES
  month,      \* the current month
  withheld,   \* the sum of the ledger's entries, by month and seller
  posting,    \* the entry whose transaction has not committed, or Posted
  deposit,    \* the TcsDeposit row of each month: status ("none" without one) and total
  keeper,     \* what each request is doing: for which month, and what it read
  reminders,  \* months whose reminder was enqueued; its dedupeKey allows one for each
  straddled,  \* history: months refreshed after their end, or marked, by a request that began
              \* before it
  late,       \* history: months with an entry that committed after their end
  entries

depositVars ==
  <<month, withheld, posting, deposit, keeper, reminders, straddled, late, entries>>

Balance(f) == FoldFunction(+, 0, f)
NoEntries  == [s \in Suppliers |-> 0]
Posted     == [in |-> 0, of |-> "nobody", amount |-> 0]
AtDesk     == [do |-> "idle", why |-> "mark", of |-> 0, early |-> FALSE, owed |-> FALSE,
               total |-> 0, detail |-> NoEntries]
KeeperDoes(k, what) == keeper[k].do = what
LeavesDesk(k)       == keeper' = [keeper EXCEPT ![k] = AtDesk]

DepositInit ==
  /\ month = 1 /\ withheld = [p \in Months |-> NoEntries] /\ posting = Posted
  /\ deposit = [p \in Months |-> [is |-> "none", total |-> 0]]
  /\ keeper = [k \in Keepers |-> AtDesk]
  /\ reminders = {} /\ straddled = {} /\ late = {} /\ entries = 0

\* accrue and reverse date an entry; no more is reversed than was accrued.
DateEntry(s, amount) ==
  /\ posting = Posted /\ entries < MaxEntries /\ entries' = entries + 1
  /\ amount < 0 => Balance([p \in Months |-> withheld[p][s]]) > 0
  /\ posting' = [in |-> month, of |-> s, amount |-> amount]
  /\ UNCHANGED <<month, withheld, deposit, keeper, reminders, straddled, late>>

PostEntry ==
  /\ posting # Posted
  /\ withheld' = [withheld EXCEPT ![posting.in][posting.of] = @ + posting.amount]
  /\ late' = IF posting.in < month THEN late \union {posting.in} ELSE late
  /\ posting' = Posted
  /\ UNCHANGED <<month, deposit, keeper, reminders, straddled, entries>>

MonthEnds ==
  /\ month < MaxMonths /\ month' = month + 1
  /\ UNCHANGED <<withheld, posting, deposit, keeper, reminders, straddled, late, entries>>

(***************************************************************************)
(* getOrRefreshDeposit for markDeposited, for the reminder, which asks for *)
(* the month before, or for a mere look, which then leaves; a DEPOSITED    *)
(* row is left alone.                                                      *)
(***************************************************************************)
AskDeposit(k, p, why) ==
  /\ KeeperDoes(k, "idle") /\ p =< month
  /\ why = "remind" => p = month - 1
  /\ keeper' = [keeper EXCEPT ![k] =
       [AtDesk EXCEPT !.do = IF deposit[p].is = "DEPOSITED" THEN "then" ELSE "sum",
                      !.why = why, !.of = p, !.early = p = month]]
  /\ UNCHANGED <<month, withheld, posting, deposit, reminders, straddled, late, entries>>

\* aggregatePeriod
SumPeriod(k) ==
  /\ KeeperDoes(k, "sum")
  /\ keeper' = [keeper EXCEPT ![k].do = "upsert", ![k].total = Balance(withheld[keeper[k].of])]
  /\ UNCHANGED <<month, withheld, posting, deposit, reminders, straddled, late, entries>>

Straddles(k, if) == straddled' = IF if THEN straddled \union {keeper[k].of} ELSE straddled

\* The upsert writes the sums into the row, whatever its status is by then, and returns it.
UpsertDeposit(k) ==
  LET p == keeper[k].of
      is == IF deposit[p].is = "none" THEN "PENDING" ELSE deposit[p].is
  IN  /\ KeeperDoes(k, "upsert")
      /\ deposit' = [deposit EXCEPT ![p] = [is |-> is, total |-> keeper[k].total]]
      /\ Straddles(k, keeper[k].early /\ p < month)
      /\ keeper' = [keeper EXCEPT ![k].do = "then", ![k].total = 0, ![k].owed =
                      keeper[k].why = "remind" /\ is = "PENDING" /\ keeper[k].total > 0]
      /\ UNCHANGED <<month, withheld, posting, reminders, late, entries>>

\* markDeposited: after the refresh, the row is DEPOSITED.
MarkDeposited(k) ==
  /\ KeeperDoes(k, "then") /\ keeper[k].why = "mark"
  /\ deposit' = [deposit EXCEPT ![keeper[k].of].is = "DEPOSITED"]
  /\ Straddles(k, keeper[k].early)
  /\ LeavesDesk(k)
  /\ UNCHANGED <<month, withheld, posting, reminders, late, entries>>

\* runDepositReminder: unless the row it was given is DEPOSITED or has nothing to deposit.
Remind(k) ==
  /\ KeeperDoes(k, "then") /\ keeper[k].why = "remind"
  /\ reminders' = reminders \union (IF keeper[k].owed THEN {keeper[k].of} ELSE {})
  /\ LeavesDesk(k)
  /\ UNCHANGED <<month, withheld, posting, deposit, straddled, late, entries>>

(***************************************************************************)
(* buildGstr8: what each seller had withheld, and in another statement the *)
(* sum of it all.                                                          *)
(***************************************************************************)
AskReport(k, p) ==
  /\ KeeperDoes(k, "idle") /\ p =< month
  /\ keeper' = [keeper EXCEPT ![k] =
       [AtDesk EXCEPT !.do = "totals", !.of = p, !.early = p = month, !.detail = withheld[p]]]
  /\ UNCHANGED <<month, withheld, posting, deposit, reminders, straddled, late, entries>>

BuildReport(k) ==
  /\ KeeperDoes(k, "totals")
  /\ keeper' = [keeper EXCEPT ![k].do = "report", ![k].total = Balance(withheld[keeper[k].of])]
  /\ UNCHANGED <<month, withheld, posting, deposit, reminders, straddled, late, entries>>

\* A look or a report is answered; or a request dies.
LeaveDesk(k) ==
  /\ ~KeeperDoes(k, "idle")
  /\ LeavesDesk(k)
  /\ UNCHANGED <<month, withheld, posting, deposit, reminders, straddled, late, entries>>

-----------------------------------------------------------------------------
DepositNext ==
  \/ \E s \in Suppliers, amount \in {1, -1} : DateEntry(s, amount)
  \/ PostEntry \/ MonthEnds
  \/ \E k \in Keepers :
       \/ \E p \in Months, why \in {"mark", "remind"} : AskDeposit(k, p, why)
       \/ \E p \in Months : AskReport(k, p)
       \/ SumPeriod(k) \/ UpsertDeposit(k) \/ MarkDeposited(k) \/ Remind(k) \/ BuildReport(k)
       \/ LeaveDesk(k)

DepositSpec == DepositInit /\ [][DepositNext]_depositVars

-----------------------------------------------------------------------------
\* Every variable has its type.
DepositTypeOK ==
  LET Sums     == [Suppliers -> Int]
      Statuses == {"none", "PENDING", "DEPOSITED"}
      Some     == Months \union {0}
  IN  /\ month \in 1 .. MaxMonths /\ withheld \in [Months -> Sums]
      /\ posting \in [in : Some, of : Suppliers \union {"nobody"}, amount : {-1, 0, 1}]
      /\ deposit \in [Months -> [is : Statuses, total : Int]]
      /\ keeper \in [Keepers -> [do : {"idle", "sum", "upsert", "then", "totals", "report"},
                                 why : {"mark", "remind"}, of : Some, early : BOOLEAN,
                                 owed : BOOLEAN, total : Int, detail : Sums]]
      /\ {reminders, straddled, late} \subseteq SUBSET Months /\ entries \in 0 .. MaxEntries

\* What is marked as deposited for a month that is over is what the ledger holds for it, unless
\* a request that began before the month's end marked it, or refreshed it after that; a report
\* asked for after the month's end agrees with the ledger in its sum and for each seller, and so
\* with what was deposited; and no reminder is enqueued for a month that has not ended or for
\* nothing.  All this but for an entry dated before the month's end and committed after it.
DepositsAddUp ==
  LET Settled == {p \in Months : p < month} \ late
  IN  /\ \A p \in Settled \ straddled :
           deposit[p].is = "DEPOSITED" => deposit[p].total = Balance(withheld[p])
      /\ \A k \in Keepers : KeeperDoes(k, "report") /\ keeper[k].of \in Settled /\ ~keeper[k].early =>
           /\ keeper[k].detail = withheld[keeper[k].of]
           /\ keeper[k].total = Balance(withheld[keeper[k].of])
      /\ \A p \in reminders : p < month /\ (p \notin late => Balance(withheld[p]) > 0)
=============================================================================
