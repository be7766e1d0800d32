------------------------------ MODULE Listing ------------------------------
(***************************************************************************)
(* ProductService: one product of one store from its draft to the shop     *)
(* front, and the public reads that show it.  A seller may publish what is *)
(* complete and an administrator may put any status; both read first and   *)
(* write later.                                                            *)
(*                                                                         *)
(* Left out: variants and prices (see Catalogue), which image is the cover *)
(* (see Uploads), slugs, descriptive fields, and what a search matches.    *)
(***************************************************************************)
EXTENDS Integers, FiniteSets

CONSTANTS
  Editors,    \* requests handled at the same time
  MaxShopEdits \* bound: changes of status and of what publishing needs

ASSUME ListingConstantsOK == MaxShopEdits \in Nat

Statuses == {"DRAFT", "ACTIVE", "INACTIVE", "ARCHIVED"}

VARIABLES
  good,       \* the Product: is, status, papers (HSN code, origin and tax), priced (a live
              \* variant with a price above zero), shot (an image)
  open,       \* Store.status is ACTIVE
  closed,     \* Store.deletedAt
  editor,     \* what each request is doing, and what it has read
  shopEdits,
  via,        \* history: who made it ACTIVE: "seller", "admin", or "edited" when what
              \* publishing needs was taken away after or during the check
  banned,     \* history: an administrator archived it and no administrator has changed that
  shopSlips   \* history: "late" when a seller wrote a status chosen before it was archived,
              \* "search" when a search read back a product that had gone since, "banned" when
              \* a read begun later showed it

listingVars == <<good, open, closed, editor, shopEdits, via, banned, shopSlips>>
shopVars    == <<open, closed>>

NoGood  == [is |-> "none", status |-> "DRAFT", papers |-> FALSE, priced |-> FALSE, shot |-> FALSE]
NoEdit  == [do |-> "idle", to |-> "DRAFT", touched |-> FALSE, banned |-> FALSE]
Edits(e, what) == editor[e].do = what
EditDone(e)    == editor' = [editor EXCEPT ![e] = NoEdit]
Owned          == good.is = "live"
Ready          == good.papers /\ good.priced /\ good.shot
ShopSlip(s, if) == shopSlips' = IF if THEN shopSlips \union {s} ELSE shopSlips
Changes        == shopEdits < MaxShopEdits /\ shopEdits' = shopEdits + 1

ListingInit ==
  /\ good = NoGood /\ open \in BOOLEAN /\ closed = FALSE
  /\ editor = [e \in Editors |-> NoEdit] /\ shopEdits = 0
  /\ via = "none" /\ banned = FALSE /\ shopSlips = {}

\* A request that is checking a product sees what it read; what is taken away meanwhile is noted.
TakesAway ==
  editor' = [e \in Editors |->
               IF Edits(e, "idle") THEN editor[e] ELSE [editor[e] EXCEPT !.touched = TRUE]]
Weakens   == via' = IF good.status = "ACTIVE" THEN "edited" ELSE via

(***************************************************************************)
(* The product.                                                            *)
(***************************************************************************)
\* createProductForStore, for a seller a draft and for an administrator any status; a simple
\* product has its price, a variable one no variant yet.
CreateGood ==
  /\ good.is = "none" /\ open /\ ~closed
  /\ \E papers, priced \in BOOLEAN, status \in Statuses :
       /\ good' = [is |-> "live", status |-> status, papers |-> papers, priced |-> priced,
                    shot |-> FALSE]
       /\ via' = IF status = "ACTIVE" THEN "admin" ELSE via
  /\ UNCHANGED <<shopVars, editor, shopEdits, banned, shopSlips>>

\* updateProductRecord, the variants' operations, addImage and removeImage, on a product in any status.
EditGood ==
  /\ Owned /\ Changes
  /\ \E papers, priced, shot \in BOOLEAN :
       /\ good' = [good EXCEPT !.papers = papers, !.priced = priced, !.shot = shot]
       /\ good' # good
       /\ IF (good.papers /\ ~papers) \/ (good.priced /\ ~priced) \/ (good.shot /\ ~shot)
          THEN TakesAway /\ Weakens ELSE UNCHANGED <<editor, via>>
  /\ UNCHANGED <<shopVars, banned, shopSlips>>

MayPick(to) == to # "ARCHIVED" /\ good.status # "ARCHIVED"

\* setMyProductStatus reads the product;
PickStatus(e) ==
  /\ Edits(e, "idle") /\ Owned /\ shopEdits < MaxShopEdits
  /\ \E to \in Statuses :
       /\ MayPick(to)
       /\ editor' = [editor EXCEPT ![e] = [NoEdit EXCEPT
                       !.do = IF to = "ACTIVE" THEN "papers" ELSE "status",
                       !.to = to, !.banned = banned]]
  /\ UNCHANGED <<good, shopVars, shopEdits, via, banned, shopSlips>>

\* assertReadyToPublish reads the product, then its images and a variant;
CheckPapers(e) ==
  /\ Edits(e, "papers")
  /\ IF good.papers THEN editor' = [editor EXCEPT ![e].do = "goods"] ELSE EditDone(e)
  /\ UNCHANGED <<good, shopVars, shopEdits, via, banned, shopSlips>>

EnoughGoods == good.shot /\ good.priced

CheckGoods(e) ==
  /\ Edits(e, "goods")
  /\ IF EnoughGoods THEN editor' = [editor EXCEPT ![e].do = "status"] ELSE EditDone(e)
  /\ UNCHANGED <<good, shopVars, shopEdits, via, banned, shopSlips>>

\* and the status is written by id.
WriteStatus(e) ==
  /\ Edits(e, "status") /\ Changes
  /\ good' = [good EXCEPT !.status = editor[e].to]
  /\ via' = IF editor[e].to # "ACTIVE" THEN via ELSE IF editor[e].touched THEN "edited" ELSE "seller"
  /\ ShopSlip("late", banned /\ ~editor[e].banned)
  /\ EditDone(e)
  /\ UNCHANGED <<shopVars, banned>>

\* adminSetStatus and adminUpdate write any status, checking nothing else.
AdminStatus ==
  /\ Owned /\ Changes
  /\ \E to \in Statuses \ {good.status} :
       /\ good' = [good EXCEPT !.status = to]
       /\ via' = IF to = "ACTIVE" THEN "admin" ELSE via
       /\ banned' = (to = "ARCHIVED")
  /\ UNCHANGED <<shopVars, editor, shopSlips>>

\* removeMyProduct looks at the status, then deletes.
PickRemoval(e) ==
  /\ Edits(e, "idle") /\ Owned /\ good.status \in {"DRAFT", "ARCHIVED"}
  /\ editor' = [editor EXCEPT ![e] = [NoEdit EXCEPT !.do = "remove"]]
  /\ UNCHANGED <<good, shopVars, shopEdits, via, banned, shopSlips>>

RemoveGood(e) ==
  /\ Edits(e, "remove") /\ EditDone(e)
  /\ good' = [good EXCEPT !.is = "gone"]
  /\ UNCHANGED <<shopVars, shopEdits, via, banned, shopSlips>>

\* The store is suspended, reinstated or deleted.
StoreChanges ==
  /\ Changes
  /\ \/ open' = ~open /\ UNCHANGED closed
     \/ ~closed /\ closed' = TRUE /\ UNCHANGED open
  /\ UNCHANGED <<good, editor, via, banned, shopSlips>>

(***************************************************************************)
(* The shop front: each read has a filter of its own.                      *)
(***************************************************************************)
OnPage        == ~(good.is # "live" \/ good.status # "ACTIVE" \/ ~open \/ closed)
InGrid        == good.is = "live" /\ good.status = "ACTIVE" /\ open /\ ~closed
InList        == good.is = "live" /\ good.status = "ACTIVE" /\ open /\ ~closed
InSuggestions == good.is = "live" /\ good.status = "ACTIVE" /\ open /\ ~closed
InSearch      == good.is = "live" /\ good.status = "ACTIVE" /\ open /\ ~closed
Deliverable   == good.is = "live" /\ ~(good.status # "ACTIVE" \/ ~open \/ closed)

Shown == OnPage \/ InGrid \/ InList \/ InSuggestions \/ Deliverable

\* One query shows the product.
ShowGood ==
  /\ Shown /\ ShopSlip("banned", banned)
  /\ UNCHANGED <<good, shopVars, editor, shopEdits, via, banned>>

\* searchProducts ranks ids, then reads the products of those ids back, whatever they became.
RankSearch(e) ==
  /\ Edits(e, "idle") /\ InSearch
  /\ editor' = [editor EXCEPT ![e] = [NoEdit EXCEPT !.do = "found", !.banned = banned]]
  /\ UNCHANGED <<good, shopVars, shopEdits, via, banned, shopSlips>>

ReadBack(e) ==
  /\ Edits(e, "found") /\ EditDone(e)
  /\ shopSlips' = shopSlips \union (IF ~InSearch THEN {"search"} ELSE {})
                            \union (IF editor[e].banned THEN {"banned"} ELSE {})
  /\ UNCHANGED <<good, shopVars, shopEdits, via, banned>>

ListingNext ==
  \/ CreateGood \/ EditGood \/ AdminStatus \/ StoreChanges \/ ShowGood
  \/ \E e \in Editors : \/ PickStatus(e) \/ CheckPapers(e) \/ CheckGoods(e) \/ WriteStatus(e)
                        \/ PickRemoval(e) \/ RemoveGood(e) \/ RankSearch(e) \/ ReadBack(e)

ListingSpec == ListingInit /\ [][ListingNext]_listingVars

----------------------------------------------------------------------------
\* Types: ProductService.
ListingTypeOK ==
  /\ good.is \in {"none", "live", "gone"} /\ good.status \in Statuses
  /\ {open, closed, banned, good.papers, good.priced, good.shot} \subseteq BOOLEAN
  /\ shopEdits \in 0 .. MaxShopEdits /\ via \in {"none", "seller", "admin", "edited"}
  /\ shopSlips \subseteq {"late", "search", "banned"}

\* A product a seller published is complete, unless something was taken away during the check or
\* afterwards, which nothing looks at again (assertReadyToPublish, setMyProductStatus).
PublishedComplete == good.status = "ACTIVE" /\ via = "seller" => Ready

\* Archiving takes effect: after an administrator archived a product, no public read that begins
\* later shows it before an administrator changes the status again, unless a seller's request
\* had looked at the status before (setMyProductStatus, adminSetStatus, findPublic,
\* findPaginatedPublicProducts, findPublicProducts, searchSuggestions, searchProducts,
\* deliveryEstimate).
ArchivedStaysHidden == "late" \notin shopSlips => "banned" \notin shopSlips
=============================================================================
