------------------------------- MODULE Stores -------------------------------
(***************************************************************************)
(* StoreService: one store with its warehouses, and the seller's payout    *)
(* accounts, which are rows of the same shape: one of them is marked, as   *)
(* the default warehouse or as the primary account.                        *)
(* Marking a row clears the other marks first, in one transaction; but a   *)
(* transaction that is still open is not seen, so two can both mark.       *)
(*                                                                         *)
(* The store's own row is edited as it was read: its currency may change   *)
(* while it sells nothing, and a patch of its shipping configuration is    *)
(* merged into the one there is.  These terms are a part of their own.     *)
(*                                                                         *)
(* Names, addresses, slugs and codes are left out.  The seller's status is *)
(* only VERIFIED or not.                                                   *)
(***************************************************************************)
EXTENDS Integers, FiniteSets

CONSTANTS
  Managers,    \* requests handled at the same time
  MaxRows,     \* bound: warehouses or accounts created
  MaxVerdicts, \* bound: store statuses set by an administrator
  Currencies,  \* what a store may sell in
  MaxPatches   \* bound: patches of the shipping configuration

ASSUME StoreConstantsOK == MaxRows \in Nat \ {0} /\ MaxVerdicts \in Nat /\ MaxPatches \in Nat

SiteRows == 1 .. MaxRows

VARIABLES
  kind,      \* the rows looked at: "warehouse" or "account"
  verifiedS, \* Seller.overallStatus = VERIFIED
  store,     \* Store.status, "none" before it exists; "gone" when deletedAt is set
  site,      \* each row: "none", "live" or "gone"
  marked,    \* the rows with isDefault, isPrimary
  idleRow,   \* the warehouses with isActive = FALSE
  stock,     \* the warehouses with inventory rows
  mreq,      \* what each request is about to do
  verdicts,
  raced,     \* history: what overlapped: "mark" or "stock"
  currency,  \* Store.currencyCode
  pricedIn,  \* the currencies of its products, from their metadata
  shipTerms, \* Store.shippingConfig: the patch each of its keys comes from
  promised,  \* history: the patch of each key that was answered last
  patches,
  treq,      \* what each request has read of the terms and is about to write
  blurred    \* history: what a write overtook: "currency" or "terms"

siteVars  == <<kind, verifiedS, store, site, marked, idleRow, stock, mreq, verdicts, raced>>
termVars  == <<currency, pricedIn, shipTerms, promised, patches, treq, blurred>>
storeVars == <<siteVars, termVars>>

NoReq    == [do |-> "idle", row |-> 1, mark |-> FALSE, clears |-> {}]
Waits(m, what) == mreq[m].do = what
Leaves(m)      == mreq' = [mreq EXCEPT ![m] = NoReq]
LiveRows == {r \in SiteRows : site[r] = "live"}
Busy(m, whats) == \E o \in Managers \ {m} : mreq[o].do \in whats
Notes(m, whats, what) == raced' = IF Busy(m, whats) THEN raced \union {what} ELSE raced
rowVars  == <<site, marked, idleRow, stock>>
headVars == <<kind, verifiedS, store, verdicts>>

\* createStoreForSeller makes the main warehouse too; a payout account is never made so.
StoreInit ==
  /\ kind \in {"warehouse", "account"}
  /\ verifiedS = TRUE /\ store = "none"
  /\ site = [r \in SiteRows |-> "none"]
  /\ marked = {} /\ idleRow = {} /\ stock = {}
  /\ mreq = [m \in Managers |-> NoReq]
  /\ verdicts = 0 /\ raced = {}

CreateStore ==
  /\ store = "none" /\ verifiedS
  /\ store' \in {"DRAFT", "ACTIVE"}
  /\ IF kind = "warehouse" THEN site' = [site EXCEPT ![1] = "live"] /\ marked' = {1}
                           ELSE UNCHANGED <<site, marked>>
  /\ UNCHANGED <<kind, verifiedS, idleRow, stock, mreq, verdicts, raced>>

\* The seller is suspended, or verified again; nothing follows for the store.
SellerRuled ==
  /\ verdicts < MaxVerdicts /\ verdicts' = verdicts + 1
  /\ verifiedS' = ~verifiedS
  /\ UNCHANGED <<kind, store, rowVars, mreq, raced>>

\* assertOwnership; accounts need a verified seller only when they are added.
May(what) == /\ store \notin {"none", "gone"}
             /\ verifiedS \/ (kind = "account" /\ what # "add")

(***************************************************************************)
(* Rows.                                                                   *)
(***************************************************************************)
\* updateMany clears the marks it can see, but for the row it is called for.
Clears(r) == marked \ {r}

\* A row is added: the marks there are are cleared,
AddRow(m, mark) ==
  /\ Waits(m, "idle") /\ May("add") /\ site[MaxRows] = "none"
  /\ mreq' = [mreq EXCEPT ![m] = [do |-> "add", row |-> 1, mark |-> mark,
                                  clears |-> IF mark THEN marked ELSE {}]]
  /\ IF mark THEN Notes(m, {"add", "edit"}, "mark") ELSE UNCHANGED raced
  /\ UNCHANGED <<headVars, rowVars>>

\* addMyWarehouse: the first one is the default anyway.
AddMyWarehouse(m, mark)   == kind = "warehouse" /\ AddRow(m, mark \/ LiveRows = {})
AddPayoutAccount(m, mark) == kind = "account" /\ AddRow(m, mark)

\* then it is created.
AddCommit(m) ==
  /\ Waits(m, "add")
  /\ \E r \in SiteRows :
       /\ site[r] = "none" /\ \A q \in SiteRows : q < r => site[q] # "none"
       /\ site' = [site EXCEPT ![r] = "live"]
       /\ marked' = (marked \ mreq[m].clears) \union (IF mreq[m].mark THEN {r} ELSE {})
  /\ Leaves(m)
  /\ UNCHANGED <<headVars, idleRow, stock, raced>>

\* A row is looked up and the other marks are cleared,
EditRow(m, r, mark) ==
  /\ Waits(m, "idle") /\ May("edit") /\ site[r] = "live"
  /\ mreq' = [mreq EXCEPT ![m] = [do |-> "edit", row |-> r, mark |-> mark,
                                  clears |-> IF mark THEN Clears(r) ELSE {}]]
  /\ IF mark THEN Notes(m, {"add", "edit"}, "mark") ELSE UNCHANGED raced
  /\ UNCHANGED <<headVars, rowVars>>

\* then it is written, deleted or not; isDefault = false leaves no default at all.
EditCommit(m) ==
  LET r == mreq[m].row IN
  /\ Waits(m, "edit")
  /\ \E keep \in BOOLEAN :
       marked' = IF mreq[m].mark THEN (marked \ mreq[m].clears) \union {r}
                 ELSE IF keep THEN marked ELSE marked \ {r}
  /\ \E active \in BOOLEAN : /\ active \/ kind = "warehouse"
                             /\ idleRow' = IF active THEN idleRow \ {r} ELSE idleRow \union {r}
  /\ Leaves(m)
  /\ UNCHANGED <<headVars, site, stock, raced>>

UpdateMyWarehouse(m, r, mark)   == kind = "warehouse" /\ EditRow(m, r, mark)
UpdatePayoutAccount(m, r, mark) == kind = "account" /\ EditRow(m, r, mark)

\* removeMyWarehouse counts the inventory rows of the warehouse first.
RemoveRow(m, r) ==
  /\ Waits(m, "idle") /\ May("remove") /\ site[r] = "live" /\ r \notin stock
  /\ mreq' = [mreq EXCEPT ![m] = [NoReq EXCEPT !.do = "remove", !.row = r]]
  /\ UNCHANGED <<headVars, rowVars, raced>>

RemoveCommit(m) ==
  LET r == mreq[m].row IN
  /\ Waits(m, "remove")
  /\ site' = [site EXCEPT ![r] = "gone"]
  /\ idleRow' = IF kind = "warehouse" THEN idleRow \union {r} ELSE idleRow
  /\ Leaves(m)
  /\ UNCHANGED <<headVars, marked, stock, raced>>

RemoveMyWarehouse(m, r)   == kind = "warehouse" /\ RemoveRow(m, r)
RemovePayoutAccount(m, r) == kind = "account" /\ RemoveRow(m, r)

\* A product or a variant is created: its inventory row goes to the default warehouse,
\* getDefaultWarehouseForStore, any one of them if there are two.
StockDefault(r) ==
  /\ kind = "warehouse" /\ store = "ACTIVE" /\ r \in marked \cap LiveRows
  /\ stock' = stock \union {r}
  /\ raced' = IF \E m \in Managers : Waits(m, "remove") /\ mreq[m].row = r
              THEN raced \union {"stock"} ELSE raced
  /\ UNCHANGED <<headVars, site, marked, idleRow, mreq>>

(***************************************************************************)
(* The store.                                                              *)
(***************************************************************************)
\* submitMyStoreForReview needs an active warehouse; the store is ACTIVE at once.
SubmitStore(m) ==
  /\ Waits(m, "idle") /\ May("submit") /\ store = "DRAFT" /\ verifiedS
  /\ kind = "warehouse" => LiveRows \ idleRow # {}
  /\ mreq' = [mreq EXCEPT ![m] = [NoReq EXCEPT !.do = "open"]]
  /\ UNCHANGED <<headVars, rowVars, raced>>

OpenStore(m) ==
  /\ Waits(m, "open")
  /\ store' = IF store = "gone" THEN "gone" ELSE "ACTIVE"
  /\ Leaves(m)
  /\ UNCHANGED <<kind, verifiedS, verdicts, rowVars, raced>>

\* setStatus, by an administrator.
SetStoreStatus(st) ==
  /\ store \notin {"none", "gone"} /\ verdicts < MaxVerdicts
  /\ store' = st /\ verdicts' = verdicts + 1
  /\ UNCHANGED <<kind, verifiedS, rowVars, mreq, raced>>

\* removeMyStore counts the products, adminRemove does not; the warehouses stay.
RemoveStore(admin) ==
  /\ store \notin {"none", "gone"} /\ (admin \/ (verifiedS /\ stock = {}))
  /\ store' = "gone"
  /\ UNCHANGED <<kind, verifiedS, verdicts, rowVars, mreq, raced>>

(***************************************************************************)
(* The terms: each request reads the row, then writes.                     *)
(***************************************************************************)
TermKeys == {"rates", "cod"}
NoTerms == [f \in TermKeys |-> 0]
NoTermTask == [do |-> "idle", currency |-> "none", terms |-> NoTerms, key |-> "rates"]
TermInit ==
  /\ currency \in Currencies /\ pricedIn = {}
  /\ shipTerms = NoTerms /\ promised = NoTerms /\ patches = 0
  /\ treq = [m \in Managers |-> NoTermTask] /\ blurred = {}

ReadsTerms(m, what, cur, key) ==
  /\ treq[m] = NoTermTask
  /\ treq' = [treq EXCEPT ![m] =
                [do |-> what, currency |-> cur, terms |-> shipTerms, key |-> key]]
  /\ UNCHANGED <<siteVars, currency, pricedIn, shipTerms, promised, patches, blurred>>
TermsDone(m) == treq' = [treq EXCEPT ![m] = NoTermTask] /\ UNCHANGED siteVars
OtherTermWork(m, whats) == \E o \in Managers \ {m} : treq[o].do \in whats
Blurs(m, whats, what) == blurred' = IF OtherTermWork(m, whats) THEN blurred \union {what} ELSE blurred

\* updateStoreRecord: another currency is refused once there are products, counted before.
AskCurrency(m, c) == c # currency /\ pricedIn = {} /\ ReadsTerms(m, "currency", c, "rates")
WriteCurrency(m) ==
  /\ treq[m].do = "currency"
  /\ currency' = treq[m].currency
  /\ Blurs(m, {"currency", "product"}, "currency")
  /\ TermsDone(m) /\ UNCHANGED <<pricedIn, shipTerms, promised, patches>>

\* createProductForStore writes the currency of the store it was given.
AskProduct(m) == ReadsTerms(m, "product", currency, "rates")
WriteProduct(m) ==
  /\ treq[m].do = "product"
  /\ pricedIn' = pricedIn \union {treq[m].currency}
  /\ Blurs(m, {"currency"}, "currency")
  /\ TermsDone(m) /\ UNCHANGED <<currency, shipTerms, promised, patches>>

\* updateMyStoreShipping: the patch of one key over the configuration that was read.
AskShipping(m, f) == ReadsTerms(m, "terms", "none", f)
Merged(m) == [treq[m].terms EXCEPT ![treq[m].key] = patches + 1]
WriteShipping(m) ==
  /\ treq[m].do = "terms" /\ patches < MaxPatches /\ patches' = patches + 1
  /\ shipTerms' = Merged(m)
  /\ promised' = [promised EXCEPT ![treq[m].key] = patches']
  /\ Blurs(m, {"terms"}, "terms")
  /\ TermsDone(m) /\ UNCHANGED <<currency, pricedIn>>

-----------------------------------------------------------------------------
TermNext ==
  \E m \in Managers :
    \/ \E c \in Currencies : AskCurrency(m, c)
    \/ \E f \in TermKeys : AskShipping(m, f)
    \/ AskProduct(m) \/ WriteCurrency(m) \/ WriteProduct(m) \/ WriteShipping(m)

SiteNext ==
  \/ CreateStore \/ SellerRuled
  \/ \E st \in {"DRAFT", "ACTIVE", "SUSPENDED"} : SetStoreStatus(st)
  \/ \E admin \in BOOLEAN : RemoveStore(admin)
  \/ \E r \in SiteRows : StockDefault(r)
  \/ \E m \in Managers :
       \/ AddCommit(m) \/ EditCommit(m) \/ RemoveCommit(m) \/ SubmitStore(m) \/ OpenStore(m)
       \/ \E mark \in BOOLEAN :
            \/ AddMyWarehouse(m, mark) \/ AddPayoutAccount(m, mark)
            \/ \E r \in SiteRows : UpdateMyWarehouse(m, r, mark) \/ UpdatePayoutAccount(m, r, mark)
       \/ \E r \in SiteRows : RemoveMyWarehouse(m, r) \/ RemovePayoutAccount(m, r)

StoreNext == (SiteNext /\ UNCHANGED termVars) \/ TermNext

StoreSpec == StoreInit /\ TermInit /\ [][StoreNext]_storeVars

-----------------------------------------------------------------------------
\* Every variable has its type.
StoreTypeOK ==
  /\ kind \in {"warehouse", "account"} /\ verifiedS \in BOOLEAN
  /\ store \in {"none", "gone", "DRAFT", "ACTIVE", "SUSPENDED"}
  /\ site \in [SiteRows -> {"none", "live", "gone"}]
  /\ marked \subseteq SiteRows /\ idleRow \subseteq SiteRows /\ stock \subseteq SiteRows
  /\ mreq \in [Managers -> [do : {"idle", "add", "edit", "remove", "open"}, row : SiteRows,
                            mark : BOOLEAN, clears : SUBSET SiteRows]]
  /\ verdicts \in 0 .. MaxVerdicts /\ raced \subseteq {"mark", "stock"}
  /\ currency \in Currencies /\ pricedIn \subseteq Currencies
  /\ {shipTerms, promised} \subseteq [TermKeys -> 0 .. MaxPatches] /\ patches \in 0 .. MaxPatches
  /\ treq \in [Managers -> [do : {"idle", "currency", "product", "terms"},
                             currency : Currencies \union {"none"},
                             terms : [TermKeys -> 0 .. MaxPatches], key : TermKeys]]
  /\ blurred \subseteq {"currency", "terms"}

\* A store has one default warehouse at most, and a seller one primary account, unless two
\* requests marked rows at the same time; and stock never lies in a deleted warehouse,
\* unless it came while the warehouse was being deleted.
OneDefault ==
  /\ "mark" \in raced \/ Cardinality(marked \cap LiveRows) =< 1
  /\ "stock" \in raced \/ \A r \in stock : site[r] = "live"

\* The products of a store are priced in its currency, and no shipping rate that was confirmed
\* is lost, unless two requests wrote such a thing at the same time.
TermsStand ==
  /\ "currency" \in blurred \/ pricedIn \subseteq {currency}
  /\ "terms" \in blurred \/ shipTerms = promised
=============================================================================
