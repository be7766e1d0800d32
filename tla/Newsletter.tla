---------------------------- MODULE Newsletter ----------------------------
(***************************************************************************)
(* NewsletterService: double opt-in subscriptions, and one campaign that   *)
(* is dispatched to the active subscribers page by page and delivered to   *)
(* each of them by an event of its own.  The outbox runs each event on one *)
(* worker at a time and delivers it again after a crash (module Outbox).   *)
(* Subscribers are numbered in the order of their row ids; a page holds    *)
(* one (NEWSLETTER_CAMPAIGN_BATCH_SIZE in the code).                       *)
(*                                                                         *)
(* The second half is the other mail a customer asked for: the alert that  *)
(* a product they wished for is back in stock.                             *)
(***************************************************************************)
EXTENDS Integers, FiniteSets

CONSTANTS
  MaxReaders,   \* subscribers 1 .. MaxReaders
  MaxTurns,     \* bound: changes of mind of all subscribers together
  MaxDrops      \* bound: jobs that crash

ASSUME NewsletterConstantsOK == MaxReaders \in Nat /\ MaxTurns \in Nat /\ MaxDrops \in Nat

Readers == 1 .. MaxReaders

VARIABLES
  subscribed,   \* NewsletterSubscription.status, "none" without a row
  asking,       \* a subscribe request between its look-up and its transaction
  agrees,      \* what filterMarketableRecipients says of the address
  campaign,     \* NewsletterCampaign.status
  recipient,    \* NewsletterCampaignRecipient.status, "none" without a row
  dispatch,     \* the dispatch event: what it does, its cursor and its page
  delivery,     \* the delivery event of each subscriber
  posted,       \* history: campaign e-mails each subscriber was sent, and
  missed,         \* how often the job died before it marked one
  steady,       \* history: who was active ever since the dispatch last started
  slipped,      \* history: the subscriber the cursor stood on had left when a page was read
  turns, drops

newsletterVars == <<subscribed, asking, agrees, campaign, recipient, dispatch, delivery,
                    posted, missed, steady, slipped, turns, drops>>
readerVars == <<subscribed, asking, agrees>>
sendVars   == <<campaign, recipient, dispatch, delivery, posted, missed>>

Turns      == turns < MaxTurns /\ turns' = turns + 1
ActiveIn(r) == subscribed[r] = "ACTIVE"

NewsletterInit ==
  /\ subscribed = [r \in Readers |-> "none"] /\ asking = [r \in Readers |-> "no"]
  /\ agrees = [r \in Readers |-> TRUE]
  /\ campaign = "DRAFT" /\ recipient = [r \in Readers |-> "none"]
  /\ dispatch = [at |-> "none", cursor |-> 0, page |-> {}, keep |-> {}]
  /\ delivery = [r \in Readers |-> "none"]
  /\ posted = [r \in Readers |-> 0] /\ missed = posted /\ steady = {} /\ slipped = FALSE
  /\ turns = 0 /\ drops = 0

(***************************************************************************)
(* Subscribers.                                                            *)
(***************************************************************************)
\* subscribe looks the address up, and stops at an active one,
AskSubscription(r) ==
  /\ Turns /\ asking[r] = "no" /\ ~ActiveIn(r)
  /\ asking' = [asking EXCEPT ![r] = IF subscribed[r] = "none" THEN "create" ELSE "reset"]
  /\ UNCHANGED <<subscribed, agrees, sendVars, steady, slipped, drops>>

\* and writes PENDING with a new token, whatever the row has become; a second create is
\* refused by the unique address.
Subscribe(r) ==
  /\ asking[r] # "no"
  /\ asking' = [asking EXCEPT ![r] = "no"]
  /\ IF asking[r] = "create" /\ subscribed[r] # "none" THEN UNCHANGED <<subscribed, steady>>
     ELSE subscribed' = [subscribed EXCEPT ![r] = "PENDING"] /\ steady' = steady \ {r}
  /\ UNCHANGED <<agrees, sendVars, slipped, turns, drops>>

\* confirmNewsletter, with a token that has not expired: its update asks for PENDING again.
ConfirmNewsletter(r) ==
  /\ subscribed[r] = "PENDING"
  /\ subscribed' = [subscribed EXCEPT ![r] = "ACTIVE"]
  /\ UNCHANGED <<asking, agrees, sendVars, steady, slipped, turns, drops>>

\* unsubscribe, by an administrator or by the token in a campaign e-mail.
Unsubscribe(r) ==
  /\ Turns /\ ActiveIn(r)
  /\ subscribed' = [subscribed EXCEPT ![r] = "UNSUBSCRIBED"]
  /\ steady' = steady \ {r}
  /\ UNCHANGED <<asking, agrees, sendVars, slipped, drops>>

\* The account behind the address gives or withdraws its marketing consent.
SwayConsent(r) ==
  /\ Turns
  /\ agrees' = [agrees EXCEPT ![r] = ~@]
  /\ UNCHANGED <<subscribed, asking, sendVars, steady, slipped, drops>>

(***************************************************************************)
(* The campaign.                                                           *)
(***************************************************************************)
\* sendCampaign flips DRAFT and enqueues the dispatch in one transaction.
SendCampaign ==
  /\ campaign = "DRAFT"
  /\ campaign' = "SENDING" /\ dispatch' = [dispatch EXCEPT !.at = "queued"]
  /\ UNCHANGED <<readerVars, recipient, delivery, posted, missed, steady, slipped, turns, drops>>

StartDispatch ==
  /\ dispatch.at = "queued"
  /\ IF campaign = "SENT"
     THEN dispatch' = [dispatch EXCEPT !.at = "done"] /\ UNCHANGED <<steady, slipped>>
     ELSE /\ dispatch' = [dispatch EXCEPT !.at = "page", !.cursor = 0]
          /\ steady' = {r \in Readers : ActiveIn(r)} /\ slipped' = FALSE
  /\ UNCHANGED <<readerVars, campaign, recipient, delivery, posted, missed, turns, drops>>

From(r)    == {x \in Readers : ActiveIn(x) /\ x >= r}
FirstPage(is)  == {x \in is : \A y \in is : x =< y}

\* The page at a cursor: active rows from the cursor's on, the first one skipped.
PageAt(r) == FirstPage(IF r = 0 THEN From(0) ELSE From(r) \ FirstPage(From(r)))

\* One turn of the loop reads a page and the consent of whom it finds; an empty one ends it,
ReadPage ==
  /\ dispatch.at = "page"
  /\ LET page == PageAt(dispatch.cursor)
     IN  dispatch' = [dispatch EXCEPT !.at = IF page = {} THEN "tally" ELSE "rows",
                                      !.page = page, !.keep = {r \in page : agrees[r]}]
  /\ slipped' = (slipped \/ (dispatch.cursor # 0 /\ ~ActiveIn(dispatch.cursor)))
  /\ UNCHANGED <<readerVars, campaign, recipient, delivery, posted, missed, steady, turns, drops>>

\* another turn writes the rows and events of the page, in one transaction; rows and events
\* there already are left alone.
WritePage ==
  /\ dispatch.at = "rows"
  /\ recipient' = [r \in Readers |-> IF r \in dispatch.page /\ recipient[r] = "none"
                                     THEN IF r \in dispatch.keep THEN "QUEUED" ELSE "SKIPPED"
                                     ELSE recipient[r]]
  /\ delivery' = [r \in Readers |-> IF r \in dispatch.keep /\ delivery[r] = "none" THEN "queued"
                                    ELSE delivery[r]]
  /\ dispatch' = [dispatch EXCEPT !.at = "page", !.cursor = CHOOSE r \in dispatch.page : TRUE]
  /\ UNCHANGED <<readerVars, campaign, posted, missed, steady, slipped, turns, drops>>

FinishDispatch ==
  /\ dispatch.at = "tally"
  /\ campaign' = "SENT" /\ dispatch' = [dispatch EXCEPT !.at = "done"]
  /\ UNCHANGED <<readerVars, recipient, delivery, posted, missed, steady, slipped, turns, drops>>

(***************************************************************************)
(* deliverCampaignEmail for one subscriber.                                *)
(***************************************************************************)
AlreadySent(r) == recipient[r] = "SENT"

\* Its checks: whoever left or withdrew consent is marked SKIPPED, whatever the row says.
CheckDelivery(r) ==
  /\ delivery[r] = "queued"
  /\ IF ~ActiveIn(r) \/ ~agrees[r]
     THEN recipient' = [recipient EXCEPT ![r] = "SKIPPED"] /\ delivery' = [delivery EXCEPT ![r] = "done"]
     ELSE /\ delivery' = [delivery EXCEPT ![r] = IF AlreadySent(r) THEN "done" ELSE "sending"]
          /\ UNCHANGED recipient
  /\ UNCHANGED <<readerVars, campaign, dispatch, posted, missed, steady, slipped, turns, drops>>

\* The e-mail goes out, or fails and is tried again or given up by the outbox,
PostMail(r) ==
  /\ delivery[r] = "sending"
  /\ \/ posted' = [posted EXCEPT ![r] = @ + 1] /\ delivery' = [delivery EXCEPT ![r] = "sent"]
     \/ \E next \in {"queued", "done"} : delivery' = [delivery EXCEPT ![r] = next] /\ UNCHANGED posted
  /\ UNCHANGED <<readerVars, campaign, recipient, dispatch, missed, steady, slipped, turns, drops>>

\* and the recipient is marked; the event itself is marked DONE after that.
MarkSent(r) ==
  /\ delivery[r] = "sent"
  /\ recipient' = [recipient EXCEPT ![r] = "SENT"]
  /\ delivery' = [delivery EXCEPT ![r] = "marked"]
  /\ UNCHANGED <<readerVars, campaign, dispatch, posted, missed, steady, slipped, turns, drops>>

CloseDelivery(r) ==
  /\ delivery[r] = "marked" /\ delivery' = [delivery EXCEPT ![r] = "done"]
  /\ UNCHANGED <<readerVars, campaign, recipient, dispatch, posted, missed, steady, slipped, turns, drops>>

\* A job dies; its event is delivered again.
DropJob ==
  /\ drops < MaxDrops /\ drops' = drops + 1
  /\ \/ /\ dispatch.at \in {"page", "rows", "tally"}
        /\ dispatch' = [dispatch EXCEPT !.at = "queued"]
        /\ UNCHANGED <<delivery, missed>>
     \/ \E r \in Readers :
          /\ delivery[r] \in {"sending", "sent", "marked"}
          /\ delivery' = [delivery EXCEPT ![r] = "queued"]
          /\ missed' = [missed EXCEPT ![r] = IF delivery[r] = "sent" THEN @ + 1 ELSE @]
          /\ UNCHANGED dispatch
  /\ UNCHANGED <<readerVars, campaign, recipient, posted, steady, slipped, turns>>

-----------------------------------------------------------------------------
NewsletterNext ==
  \/ SendCampaign \/ StartDispatch \/ ReadPage \/ WritePage \/ FinishDispatch \/ DropJob
  \/ \E r \in Readers :
       \/ AskSubscription(r) \/ Subscribe(r) \/ ConfirmNewsletter(r) \/ Unsubscribe(r) \/ SwayConsent(r)
       \/ CheckDelivery(r) \/ PostMail(r) \/ MarkSent(r) \/ CloseDelivery(r)

NewsletterSpec == NewsletterInit /\ [][NewsletterNext]_newsletterVars

-----------------------------------------------------------------------------
\* Every variable has its type.
NewsletterTypeOK ==
  /\ subscribed \in [Readers -> {"none", "PENDING", "ACTIVE", "UNSUBSCRIBED"}]
  /\ asking \in [Readers -> {"no", "create", "reset"}] /\ agrees \in [Readers -> BOOLEAN]
  /\ campaign \in {"DRAFT", "SENDING", "SENT"}
  /\ recipient \in [Readers -> {"none", "QUEUED", "SKIPPED", "SENT"}]
  /\ dispatch \in [at : {"none", "queued", "page", "rows", "tally", "done"},
                   cursor : Readers \union {0}, page : SUBSET Readers, keep : SUBSET Readers]
  /\ delivery \in [Readers -> {"none", "queued", "sending", "sent", "marked", "done"}]
  /\ posted \in [Readers -> 0 .. 1 + MaxDrops] /\ missed \in [Readers -> 0 .. MaxDrops]
  /\ steady \subseteq Readers /\ slipped \in BOOLEAN
  /\ turns \in 0 .. MaxTurns /\ drops \in 0 .. MaxDrops

\* A dispatched campaign has a recipient row for everyone who stayed subscribed all along,
\* unless somebody a page ended with left before the next one was read: the row skipped then
\* is another subscriber's.  Nobody is sent the campaign more often than once, and once more
\* for each job that died before it marked the recipient; and where no job died nobody the
\* campaign was sent to is recorded as skipped.
CampaignReaches ==
  /\ campaign = "SENT" /\ ~slipped => \A r \in steady : recipient[r] # "none"
  /\ \A r \in Readers : posted[r] =< 1 + missed[r]
  /\ drops = 0 => \A r \in Readers : posted[r] > 0 => recipient[r] # "SKIPPED"
-----------------------------------------------------------------------------
(***************************************************************************)
(* WishlistService, BackInStockService and NotificationService: a customer *)
(* wishes for a product, an hourly sweep of every instance compares the    *)
(* wishes with the stock, arms and re-arms one alert per wish and restock, *)
(* and the alert's event becomes a notification and an e-mail.             *)
(*                                                                         *)
(* One customer and one product, wished for as a whole; stock is there or  *)
(* not.  SMS and push go out when a notification is created and cannot     *)
(* fail it; they are left out.                                             *)
(***************************************************************************)
CONSTANTS
  Sweepers,      \* sweeps and wishlist requests handled at the same time
  MaxWishes,     \* bound: wishlist rows created
  MaxAlerts,     \* bound: alerts created
  MaxRestocks    \* bound: times the product comes back

ASSUME AlertConstantsOK == {MaxWishes, MaxAlerts, MaxRestocks} \subseteq Nat

WishIds  == 1 .. MaxWishes
AlertIds == 1 .. MaxAlerts

VARIABLES
  wished,     \* the WishlistItem rows
  stocked,    \* some active variant is available
  alertOf,    \* the BackInStockAlert of each item: its id, 0 without one
  alarm,      \* the event of each alert
  alertFor,      \* and the item it is about
  notices,    \* notifications, one for each alert at most (dedupeKey)
  sweeper,    \* what each sweep or request is doing, and what it read
  restocks,
  wishes,     \* rows created
  alertExcuses    \* history: "twice" when two adds overlapped, "stale" when a sweep wrote after the
              \* stock or the alerts it had read changed

alertVars == <<wished, stocked, alertOf, alarm, alertFor, notices, sweeper, restocks,
               wishes, alertExcuses>>
eventVars == <<alarm, alertFor, notices>>

NoErrand == [do |-> "idle", stock |-> FALSE, armed |-> {}, over |-> {}]
Errand(s, what) == sweeper[s].do = what
Home(s)  == sweeper' = [sweeper EXCEPT ![s] = NoErrand]
Armed    == {i \in WishIds : alertOf[i] # 0}
InUse     == {a \in AlertIds : alarm[a] # "none"}
Excuse(e, if) == alertExcuses' = IF if THEN alertExcuses \union {e} ELSE alertExcuses

AlertInit ==
  /\ wished = {} /\ stocked = FALSE
  /\ alertOf = [i \in WishIds |-> 0]
  /\ alarm = [a \in AlertIds |-> "none"] /\ alertFor = [a \in AlertIds |-> 0]
  /\ notices = {}
  /\ sweeper = [s \in Sweepers |-> NoErrand]
  /\ restocks = 0 /\ wishes = 0 /\ alertExcuses = {}

\* Stock arrives, or the last unit is sold.
Restock ==
  /\ \/ ~stocked /\ restocks < MaxRestocks /\ restocks' = restocks + 1
     \/ stocked /\ UNCHANGED restocks
  /\ stocked' = ~stocked
  /\ UNCHANGED <<wished, alertOf, eventVars, sweeper, wishes, alertExcuses>>

(***************************************************************************)
(* The wishlist.                                                           *)
(***************************************************************************)
\* add looks for the same wish (a whole product has no variant, which no unique index covers),
AskWish(s) ==
  /\ Errand(s, "idle") /\ wished = {} /\ wishes < MaxWishes
  /\ sweeper' = [sweeper EXCEPT ![s].do = "wish"]
  /\ Excuse("twice", \E o \in Sweepers : Errand(o, "wish"))
  /\ UNCHANGED <<wished, stocked, alertOf, eventVars, restocks, wishes>>

\* and creates its row.
AddWish(s) ==
  /\ Errand(s, "wish") /\ wishes < MaxWishes
  /\ wishes' = wishes + 1 /\ wished' = wished \union {wishes'}
  /\ Home(s)
  /\ UNCHANGED <<stocked, alertOf, eventVars, restocks, alertExcuses>>

\* remove and clear: every row of the product goes; its alert row stays.
RemoveWish ==
  /\ wished # {} /\ wished' = {}
  /\ UNCHANGED <<stocked, alertOf, eventVars, sweeper, restocks, wishes, alertExcuses>>

(***************************************************************************)
(* runSweep.                                                               *)
(***************************************************************************)
\* The items and their availability are read, then their alerts,
SweepStock(s) ==
  /\ Errand(s, "idle") /\ wished # {}
  /\ sweeper' = [sweeper EXCEPT ![s] =
                  [do |-> "alerts", stock |-> stocked, armed |-> {}, over |-> wished]]
  /\ UNCHANGED <<wished, stocked, alertOf, eventVars, restocks, wishes, alertExcuses>>

SweepAlerts(s) ==
  /\ Errand(s, "alerts")
  /\ sweeper' = [sweeper EXCEPT ![s].do = "write", ![s].armed = Armed \intersect sweeper[s].over]
  /\ Excuse("stale", stocked # sweeper[s].stock)
  /\ UNCHANGED <<wished, stocked, alertOf, eventVars, restocks, wishes>>

Outdated(s) == stocked # sweeper[s].stock \/ Armed \intersect sweeper[s].over # sweeper[s].armed

\* out of stock again: the alerts found are deleted, so that the next restock raises a new one,
Rearm(s) ==
  /\ Errand(s, "write") /\ ~sweeper[s].stock
  /\ alertOf' = [i \in WishIds |-> IF i \in sweeper[s].armed THEN 0 ELSE alertOf[i]]
  /\ Excuse("stale", Outdated(s))
  /\ Home(s)
  /\ UNCHANGED <<wished, stocked, eventVars, restocks, wishes>>

Inserts(i) == alertOf[i] = 0

\* in stock: an item without an alert gets one, and its event, in a transaction of its own;
\* the unique item lets one sweep win.
EnqueueAlert(s, i) ==
  LET a == 1 + Cardinality(InUse) IN
  /\ Errand(s, "write") /\ sweeper[s].stock /\ i \in sweeper[s].over \ sweeper[s].armed
  /\ sweeper' = [sweeper EXCEPT ![s].over = @ \ {i}]
  /\ IF Inserts(i)
     THEN /\ a \in AlertIds
          /\ alertOf' = [alertOf EXCEPT ![i] = a]
          /\ alarm' = [alarm EXCEPT ![a] = "queued"] /\ alertFor' = [alertFor EXCEPT ![a] = i]
          /\ Excuse("stale", ~stocked)
     ELSE UNCHANGED <<alertOf, alarm, alertFor, alertExcuses>>
  /\ UNCHANGED <<wished, stocked, notices, restocks, wishes>>

\* Nothing is left to do, or the sweep or the request dies.
EndSweep(s) ==
  /\ ~Errand(s, "idle") /\ Home(s)
  /\ UNCHANGED <<wished, stocked, alertOf, eventVars, restocks, wishes, alertExcuses>>

(***************************************************************************)
(* sendBackInStockAlert, run by the outbox.                                *)
(***************************************************************************)
\* A wish taken back or a product sold out again ends it; else the notification is created,
\* once, and the e-mail sent, or withheld without marketing consent; one that fails, or a job
\* that dies, brings the event back.
Notify(a) ==
  /\ alarm[a] = "queued"
  /\ IF alertFor[a] \in wished /\ stocked
     THEN /\ notices' = notices \union {a}
          /\ \E next \in {"done", "queued"} : alarm' = [alarm EXCEPT ![a] = next]
     ELSE alarm' = [alarm EXCEPT ![a] = "done"] /\ UNCHANGED notices
  /\ UNCHANGED <<wished, stocked, alertOf, alertFor, sweeper, restocks, wishes, alertExcuses>>

-----------------------------------------------------------------------------
AlertNext ==
  \/ Restock \/ RemoveWish
  \/ \E s \in Sweepers :
       \/ AskWish(s) \/ AddWish(s) \/ SweepStock(s) \/ SweepAlerts(s) \/ Rearm(s) \/ EndSweep(s)
       \/ \E i \in WishIds : EnqueueAlert(s, i)
  \/ \E a \in AlertIds : Notify(a)

AlertSpec == AlertInit /\ [][AlertNext]_alertVars

-----------------------------------------------------------------------------
\* Every variable has its type.
AlertTypeOK ==
  /\ wished \subseteq WishIds /\ stocked \in BOOLEAN
  /\ alertOf \in [WishIds -> AlertIds \union {0}]
  /\ alarm \in [AlertIds -> {"none", "queued", "done"}]
  /\ alertFor \in [AlertIds -> WishIds \union {0}]
  /\ notices \subseteq AlertIds
  /\ sweeper \in [Sweepers -> [do : {"idle", "wish", "alerts", "write"}, stock : BOOLEAN,
                               armed : SUBSET WishIds, over : SUBSET WishIds]]
  /\ restocks \in 0 .. MaxRestocks /\ wishes \in 0 .. MaxWishes
  /\ alertExcuses \subseteq {"twice", "stale"}

\* A wish is alerted at most once for each time the product came back, however many sweeps
\* overlap, unless one of them acted on stock or alerts that had changed since it read them;
\* and the customer has one row for a product unless two of their requests overlapped.
OneAlertPerRestock ==
  /\ "stale" \notin alertExcuses
     => \A i \in WishIds : Cardinality({a \in InUse : alertFor[a] = i}) =< restocks
  /\ "twice" \notin alertExcuses => Cardinality(wished) =< 1
=============================================================================
