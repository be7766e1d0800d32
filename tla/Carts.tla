------------------------------- MODULE Carts -------------------------------
(***************************************************************************)
(* CartService: the cart of one customer and the guest carts of browsers.  *)
(* No operation is transactional: a line is read, then created or updated  *)
(* by its id, and signing in copies the guest cart line by line before it  *)
(* deletes it.  A line or a cart deleted meanwhile makes the later write   *)
(* throw.                                                                  *)
(*                                                                         *)
(* The second half is what the customer is told about a line of the cart:  *)
(* it is shown with the prices, the stock and the warnings of the moment,  *)
(* each read in a statement of its own.  What is shown per product, and    *)
(* the taxes beside the prices, are left out.                              *)
(***************************************************************************)
EXTENDS Integers, FiniteSets, Functions

CONSTANTS
  Variants,   \* product variants, all purchaseable
  Tabs,       \* requests handled at the same time
  MaxLine,    \* MAX_LINE_QTY, the cap of a line
  MaxGuests,  \* bound: guest carts created
  MaxAsked,   \* bound: units asked for
  MaxUpsets   \* bound: crashes and failed deletes

ASSUME CartConstantsOK == /\ IsFiniteSet(Variants) /\ MaxLine \in Nat \ {0} /\ MaxGuests \in Nat
                          /\ MaxAsked \in Nat /\ MaxUpsets \in Nat

Guests    == 1 .. MaxGuests
AllCarts  == 0 .. MaxGuests
Mine      == 0

VARIABLES
  cart,     \* the carts that exist; a deleted one never comes back
  qty,      \* CartItem.quantity by cart and variant; 0 when there is no such line
  tab,      \* what each request is about to do
  asked,    \* history: units asked for, by adding or by setting a quantity
  spoiled,  \* history: a merge was interrupted, or two of one guest cart overlapped
  upsets

cartVars == <<cart, qty, tab, asked, spoiled, upsets>>

Lines  == [Variants -> 0 .. MaxLine]
NoLine == [v \in Variants |-> 0]
Unseen == [v \in Variants |-> "no"]
Calm   == [do |-> "idle", cart |-> Mine, found |-> Unseen, give |-> NoLine]

CartInit ==
  /\ cart = [c \in AllCarts |-> "new"]
  /\ qty = [c \in AllCarts |-> NoLine]
  /\ tab = [w \in Tabs |-> Calm]
  /\ asked = 0 /\ spoiled = FALSE /\ upsets = 0

\* Slip: no line is capped.
Uncapped(n) == n

Capped(n) == IF n > MaxLine THEN MaxLine ELSE n
Held(c)   == {v \in Variants : qty[c][v] > 0}
Seen(c, vs) == [v \in Variants |-> IF v \in vs \cap Held(c) THEN "yes" ELSE "no"]
Open(c)   == cart' = [cart EXCEPT ![c] = "live"]

\* A row deleted and created again has another id: who read the old one cannot write it.
Writes(task) == IF task.do = "copy" THEN Mine ELSE task.cart
Forget(c, gone) ==
  tab' = [w \in Tabs |-> IF Writes(tab[w]) # c THEN tab[w]
          ELSE [tab[w] EXCEPT !.found = [v \in Variants |-> IF v \in gone /\ @[v] = "yes"
                                                            THEN "gone" ELSE @[v]]]]

\* What was found is still so.
StillTrue(w, v) == tab[w].found[v] = IF qty[Writes(tab[w])][v] > 0 THEN "yes" ELSE "no"

\* addItemToCart looks for the line, of the customer's cart (getOrCreateCart) or of a
\* guest's; a browser without a live token gets a new cart (getOrCreateGuestCart).
AddLook(w, c, v, n) ==
  /\ tab[w].do = "idle" /\ asked + n =< MaxAsked
  /\ cart[c] # "gone" /\ Open(c)
  /\ asked' = asked + n
  /\ tab' = [tab EXCEPT ![w] = [do |-> "line", cart |-> c, found |-> Seen(c, {v}),
                                give |-> [NoLine EXCEPT ![v] = Capped(qty[c][v] + n)]]]
  /\ UNCHANGED <<qty, spoiled, upsets>>

\* Then it is updated by its id, or created: the loser of two creations throws.
AddWrite(w) ==
  /\ tab[w].do = "line"
  /\ LET c == tab[w].cart  new == {v \in Variants : tab[w].give[v] > 0} IN
       qty' = IF cart[c] = "live" /\ \A v \in new : StillTrue(w, v)
              THEN [qty EXCEPT ![c] = [v \in Variants |-> IF v \in new THEN tab[w].give[v] ELSE @[v]]]
              ELSE qty
  /\ tab' = [tab EXCEPT ![w] = Calm]
  /\ UNCHANGED <<cart, asked, spoiled, upsets>>

\* setItemQty; zero deletes the line, and so does removeItem.  It writes an absolute value
\* to a line it has read, so one step is enough: if the line went, it throws.
SetQty(c, v, n) ==
  /\ qty[c][v] > 0 /\ asked + n =< MaxAsked
  /\ qty' = [qty EXCEPT ![c][v] = Capped(n)]
  /\ IF n = 0 THEN Forget(c, {v}) ELSE UNCHANGED tab
  /\ asked' = asked + n
  /\ UNCHANGED <<cart, spoiled, upsets>>

\* clear, an order placed on delivery terms, and the outbox after a captured payment.
ClearCart ==
  /\ Held(Mine) # {}
  /\ qty' = [qty EXCEPT ![Mine] = NoLine]
  /\ Forget(Mine, Held(Mine))
  /\ UNCHANGED <<cart, asked, spoiled, upsets>>

DropGuest(c) ==
  /\ cart' = [cart EXCEPT ![c] = "gone"]
  /\ qty' = [qty EXCEPT ![c] = NoLine]

\* mergeGuestIntoCustomer reads the guest cart and its lines; an empty one is deleted.
Merging(c) == {w \in Tabs : tab[w].do \in {"match", "copy"} /\ tab[w].cart = c}

MergeRead(w, c) ==
  /\ tab[w].do = "idle" /\ c # Mine /\ cart[c] = "live"
  /\ IF Held(c) = {} THEN DropGuest(c) /\ UNCHANGED <<tab, spoiled>>
     ELSE /\ tab' = [tab EXCEPT ![w] = [do |-> "match", cart |-> c, found |-> Unseen, give |-> qty[c]]]
          /\ spoiled' = (spoiled \/ Merging(c) # {})
          /\ UNCHANGED <<cart, qty>>
  /\ UNCHANGED <<asked, upsets>>

\* It reads the customer's lines: what will be written to each is settled here.
MergeMatch(w) ==
  /\ tab[w].do = "match"
  /\ Open(Mine)
  /\ tab' = [tab EXCEPT ![w].do = "copy", ![w].found = Seen(Mine, Variants),
                        ![w].give = [v \in Variants |-> IF @[v] = 0 THEN 0
                                                        ELSE Capped(@[v] + qty[Mine][v])]]
  /\ UNCHANGED <<qty, asked, spoiled, upsets>>

\* Each line is updated if one was found, else created; if that is stale, it throws.
MergeLine(w, v) ==
  /\ tab[w].do = "copy" /\ tab[w].give[v] > 0
  /\ IF StillTrue(w, v)
     THEN /\ qty' = [qty EXCEPT ![Mine][v] = tab[w].give[v]]
          /\ tab' = [tab EXCEPT ![w].give[v] = 0]
          /\ UNCHANGED spoiled
     ELSE /\ tab' = [tab EXCEPT ![w] = Calm]
          /\ spoiled' = TRUE
          /\ UNCHANGED qty
  /\ UNCHANGED <<cart, asked, upsets>>

\* The guest cart is deleted last, and a failure to delete it is swallowed.
MergeEnd(w) ==
  /\ tab[w].do = "copy" /\ tab[w].give = NoLine
  /\ tab' = [tab EXCEPT ![w] = Calm]
  /\ \/ DropGuest(tab[w].cart) /\ UNCHANGED <<spoiled, upsets>>
     \/ /\ upsets < MaxUpsets /\ upsets' = upsets + 1
        /\ spoiled' = TRUE
        /\ UNCHANGED <<cart, qty>>
  /\ UNCHANGED asked

\* The request dies, or its database throws.
CartCrash(w) ==
  /\ tab[w].do # "idle" /\ upsets < MaxUpsets
  /\ upsets' = upsets + 1
  /\ spoiled' = (spoiled \/ tab[w].do = "copy")
  /\ tab' = [tab EXCEPT ![w] = Calm]
  /\ UNCHANGED <<cart, qty, asked>>

-----------------------------------------------------------------------------
CartNext ==
  \/ \E c \in AllCarts, v \in Variants, n \in 0 .. MaxLine :
       \/ n > 0 /\ \E w \in Tabs : AddLook(w, c, v, n)
       \/ SetQty(c, v, n)
  \/ ClearCart
  \/ \E w \in Tabs :
       \/ AddWrite(w) \/ MergeMatch(w) \/ MergeEnd(w) \/ CartCrash(w)
       \/ \E c \in Guests : MergeRead(w, c)
       \/ \E v \in Variants : MergeLine(w, v)

CartSpec == CartInit /\ [][CartNext]_cartVars

-----------------------------------------------------------------------------
\* Every variable has its type.
CartTypeOK ==
  /\ cart \in [AllCarts -> {"new", "live", "gone"}]
  /\ qty \in [AllCarts -> Lines]
  /\ tab \in [Tabs -> [do : {"idle", "line", "match", "copy"}, cart : AllCarts,
                       found : [Variants -> {"no", "yes", "gone"}], give : Lines]]
  /\ asked \in Nat /\ spoiled \in BOOLEAN /\ upsets \in Nat

\* Units do not appear by themselves: once no merge is under way, the carts together hold
\* no more than was asked for, whatever overlapped, unless a merge was interrupted or two
\* merges of one guest cart overlapped.
NothingAppears ==
  LET all == AllCarts \X Variants IN
    spoiled \/ (\E c \in Guests : Merging(c) # {})
            \/ SumFunctionOnSet([p \in all |-> qty[p[1]][p[2]]], all) =< asked

-----------------------------------------------------------------------------
CONSTANTS
  ListPrices, \* prices of the variant
  MaxStirs    \* bound: changes of the line, its price, its stock and whether it is sold

ASSUME ViewConstantsOK == ListPrices \subseteq Nat \ {0} /\ MaxStirs \in Nat

VARIABLES
  shown,    \* the CartItem: quantity and unitPriceSnapshot; no line with quantity 0
  article,  \* the variant: price, whether it and its product are sold, units available
  adding,   \* who adds it: the price it was loaded with, 0 when nobody does
  viewer,   \* who looks at the cart: the line and the variant as read, the units read after it
  current,  \* history: nothing has changed since that look began
  stirs

viewVars == <<shown, article, adding, viewer, current, stirs>>

Blank  == [at |-> "idle", n |-> 0, was |-> 0, price |-> 0, sold |-> FALSE, units |-> 0]
NoItem == [n |-> 0, was |-> 0]

ViewInit ==
  /\ shown = NoItem
  /\ article \in [price : ListPrices, sold : {TRUE}, units : {0}]
  /\ adding = 0 /\ viewer = Blank /\ current = TRUE /\ stirs = 0

Stirred == /\ stirs < MaxStirs /\ stirs' = stirs + 1 /\ current' = FALSE
           /\ UNCHANGED viewer

\* loadPurchaseableVariant, for a product that is sold,
LoadVariant ==
  /\ adding = 0 /\ article.sold /\ adding' = article.price
  /\ UNCHANGED <<shown, article, viewer, current, stirs>>

\* and the line, which keeps the price of when it was created.
PutItem(n) ==
  /\ adding # 0 /\ Stirred /\ adding' = 0
  /\ shown' = IF shown.n = 0 THEN [n |-> Capped(n), was |-> adding]
              ELSE [shown EXCEPT !.n = Capped(@ + n)]
  /\ UNCHANGED article

KeepItem(n) ==
  /\ shown.n > 0 /\ Stirred
  /\ shown' = IF n = 0 THEN NoItem ELSE [shown EXCEPT !.n = Capped(n)]
  /\ UNCHANGED <<article, adding>>

\* The seller and the orders of others.
ChangeArticle(a) ==
  /\ a # article /\ Stirred /\ article' = a
  /\ UNCHANGED <<shown, adding>>

\* loadHydratedCartById: the line with its variant and product; then sumVariantStock.
ReadCart ==
  /\ viewer.at # "read" /\ current' = TRUE
  /\ viewer' = [at |-> "read", n |-> shown.n, was |-> shown.was, price |-> article.price,
                 sold |-> article.sold, units |-> 0]
  /\ UNCHANGED <<shown, article, adding, stirs>>

ReadUnits ==
  /\ viewer.at = "read" /\ viewer' = [viewer EXCEPT !.at = "told", !.units = article.units]
  /\ UNCHANGED <<shown, article, adding, current, stirs>>

PriceChanged(v) == v.price # v.was
StockState(v)   == IF v.units = 0 THEN "OUT_OF_STOCK"
                   ELSE IF v.units =< v.n THEN "LOW_STOCK" ELSE "IN_STOCK"
NeedsReview(v)  == v.n > 0 /\ (PriceChanged(v) \/ StockState(v) = "OUT_OF_STOCK")

\* buildValidation: the warnings, and with those about the stock a quantity to take instead.
Warnings(v) ==
  IF v.n = 0 THEN {}
  ELSE IF ~v.sold THEN {"UNAVAILABLE"}
  ELSE (IF v.units = 0 THEN {"OUT_OF_STOCK"} ELSE IF v.units < v.n THEN {"REDUCED_QUANTITY"} ELSE {})
       \union (IF PriceChanged(v) THEN {"PRICE_CHANGED"} ELSE {})

Suggested(v) == IF Warnings(v) \cap {"UNAVAILABLE", "OUT_OF_STOCK"} # {} THEN 0
                ELSE IF "REDUCED_QUANTITY" \in Warnings(v) THEN v.units ELSE v.n

\* What placeOrder asks of a line.
Placeable(n) == n > 0 => article.sold /\ article.units >= n

ViewNext ==
  \/ LoadVariant \/ ReadCart \/ ReadUnits
  \/ \E n \in 0 .. MaxLine : KeepItem(n) \/ (n > 0 /\ PutItem(n))
  \/ \E a \in [price : ListPrices, sold : BOOLEAN, units : 0 .. MaxLine + 1] : ChangeArticle(a)

ViewSpec == ViewInit /\ [][ViewNext]_viewVars

\* Every variable has its type.
ViewTypeOK ==
  /\ shown \in [n : 0 .. MaxLine, was : ListPrices \union {0}]
  /\ article \in [price : ListPrices, sold : BOOLEAN, units : 0 .. MaxLine + 1]
  /\ adding \in ListPrices \union {0} /\ current \in BOOLEAN /\ stirs \in 0 .. MaxStirs
  /\ viewer \in [at : {"idle", "read", "told"}, n : 0 .. MaxLine, was : ListPrices \union {0},
                  price : ListPrices \union {0}, sold : BOOLEAN, units : 0 .. MaxLine + 1]

\* Who is told that the cart is valid is not told to review it; and unless something changed
\* while it was looked at, the order would be placed, for the price the customer saw when the
\* line was added, just when the cart is valid, and after taking what was suggested in any case.
AdviceHolds ==
  viewer.at = "told" =>
    /\ NeedsReview(viewer) => Warnings(viewer) # {}
    /\ current => /\ Warnings(viewer) = {} <=>
                       Placeable(shown.n) /\ (shown.n > 0 => article.price = shown.was)
                  /\ Placeable(Suggested(viewer))

=============================================================================
