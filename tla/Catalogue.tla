----------------------------- MODULE Catalogue -----------------------------
(***************************************************************************)
(* ProductService: one product with its variants.  Each variant is one     *)
(* combination of values of the product's variant axes, and the product    *)
(* carries the price of its cheapest variant, which every request that     *)
(* touches a variant recomputes afterwards, in two steps of its own.       *)
(* The axes live in the same JSON column as the last status action, which  *)
(* is read and written as a whole.                                         *)
(*                                                                         *)
(* Left out: slugs and SKUs, descriptive fields, images and status (see    *)
(* Listing), compareAtPrice and the onSale flag, and who may do what.      *)
(***************************************************************************)
EXTENDS Integers, FiniteSets, FiniteSetsExt

CONSTANTS
  Combos,       \* combinations of attribute values, the same for every axes
  Prices,       \* prices above zero
  Merchants,    \* requests handled at the same time
  MaxVariants,  \* bound: variants created
  MaxAxes,      \* bound: axes set
  MaxLapses     \* bound: crashes

ASSUME CatalogueConstantsOK == /\ Prices \subseteq Nat \ {0} /\ Prices # {}
                               /\ MaxVariants \in Nat /\ MaxAxes \in Nat /\ MaxLapses \in Nat

VariantIds == 1 .. MaxVariants
Axes       == 0 .. MaxAxes

VARIABLES
  ptype,       \* Product.productType, "none" before it exists
  axes,       \* metadata.variantAxes: which setVariantAxes wrote them, 0 for none
  variant,    \* ProductVariant rows
  base,       \* Product.basePrice, 0 for null
  creq,       \* what each request is about to do
  lapses,
  lapsed,     \* history: requests that died: "price", "stock"
  crossed     \* history: what overlapped: "price", "combo", "axes"

catalogueVars == <<ptype, axes, variant, base, creq, lapses, lapsed, crossed>>

NoVariant == [is |-> "none", combo |-> "none", axes |-> 0, price |-> 0, stocked |-> FALSE]
NoCall    == [do |-> "idle", combos |-> {}, price |-> 0, axes |-> 0, v |-> 0, alone |-> FALSE]
LiveV     == {v \in VariantIds : variant[v].is = "live"}
Calls(m, what)  == creq[m].do = what
CallEnds(m)     == creq' = [creq EXCEPT ![m] = NoCall]
Others(m, what) == {o \in Merchants \ {m} : Calls(o, what)}
nextV == 1 + Cardinality({v \in VariantIds : variant[v].is # "none"})

CatalogueInit ==
  /\ ptype = "none" /\ axes = 0 /\ base = 0
  /\ variant = [v \in VariantIds |-> NoVariant]
  /\ creq = [m \in Merchants |-> NoCall]
  /\ lapses = 0 /\ lapsed = {} /\ crossed = {}

\* createProductForStore: a SIMPLE product, its variant, inventory row and base price at once.
CreateProduct ==
  /\ ptype = "none"
  /\ \/ ptype' = "VARIABLE" /\ UNCHANGED <<variant, base>>
     \/ \E p \in Prices :
          /\ ptype' = "SIMPLE" /\ base' = p
          /\ variant' = [variant EXCEPT ![1] = [is |-> "live", combo |-> "none", axes |-> 0,
                                                price |-> p, stocked |-> TRUE]]
  /\ UNCHANGED <<axes, creq, lapses, lapsed, crossed>>

(***************************************************************************)
(* The base price.                                                         *)
(***************************************************************************)
Cheapest(vs) == IF vs = {} THEN 0 ELSE Min({variant[v].price : v \in vs})

\* A request has written variants and goes on to syncBasePrice; whoever is inside it has
\* read what is no longer so.
Touches(m) ==
  /\ creq' = [o \in Merchants |->
                IF o = m THEN [NoCall EXCEPT !.do = "sync"] ELSE [creq[o] EXCEPT !.alone = FALSE]]
  /\ crossed' = IF Others(m, "base") # {} THEN crossed \union {"price"} ELSE crossed

SyncRead(m) ==
  /\ Calls(m, "sync")
  /\ creq' = [creq EXCEPT ![m] = [NoCall EXCEPT !.do = "base", !.price = Cheapest(LiveV),
                                                !.alone = Others(m, "base") = {}]]
  /\ UNCHANGED <<ptype, axes, variant, base, lapses, lapsed, crossed>>

\* An undisturbed one sets right what earlier ones left wrong.
SyncWrite(m) ==
  /\ Calls(m, "base")
  /\ base' = creq[m].price
  /\ CallEnds(m)
  /\ IF creq[m].alone THEN crossed' = crossed \ {"price"} /\ lapsed' = lapsed \ {"price"}
                      ELSE UNCHANGED <<crossed, lapsed>>
  /\ UNCHANGED <<ptype, axes, variant, lapses>>

\* updateProductRecord, updateMyVariant: the price of one variant.
SetPrice(m, v, p) ==
  /\ Calls(m, "idle") /\ v \in LiveV
  /\ variant' = [variant EXCEPT ![v].price = p]
  /\ Touches(m)
  /\ UNCHANGED <<ptype, axes, base, lapses, lapsed>>

\* bulkUpdateMyVariants: of those with certain values, which may be none.
SetPrices(m, cs, p) ==
  /\ Calls(m, "idle") /\ ptype # "none"
  /\ variant' = [v \in VariantIds |-> IF v \in LiveV /\ variant[v].combo \in cs
                                      THEN [variant[v] EXCEPT !.price = p] ELSE variant[v]]
  /\ Touches(m)
  /\ UNCHANGED <<ptype, axes, base, lapses, lapsed>>

\* removeMyVariant; for two that remove the same one it makes no difference.
RemoveVariant(m, v) ==
  /\ Calls(m, "idle") /\ v \in LiveV
  /\ variant' = [variant EXCEPT ![v].is = "gone"]
  /\ Touches(m)
  /\ UNCHANGED <<ptype, axes, base, lapses, lapsed>>

(***************************************************************************)
(* Creating variants.                                                      *)
(***************************************************************************)
\* Slip: whether a combination exists is not looked up.
NoneExists(vs) == {}

Existing(vs) == {variant[v].combo : v \in vs}

\* generateVariantMatrix; of the combinations asked for none is made twice by one request:
\* the existing ones are read once.  addMyVariant asks for one.
PlanVariants(m, cs, p) ==
  /\ Calls(m, "idle") /\ ptype = "VARIABLE" /\ axes # 0
  /\ cs \ Existing(LiveV) # {}
  /\ creq' = [creq EXCEPT ![m] = [NoCall EXCEPT !.do = "create", !.combos = cs \ Existing(LiveV),
                                                !.price = p, !.axes = axes]]
  /\ UNCHANGED <<ptype, axes, variant, base, lapses, lapsed, crossed>>

AddMyVariant(m, c, p) == PlanVariants(m, {c}, p)

\* Each is created,
CreateVariant(m, c) ==
  /\ Calls(m, "create") /\ c \in creq[m].combos /\ nextV =< MaxVariants
  /\ variant' = [variant EXCEPT ![nextV] = [is |-> "live", combo |-> c, axes |-> creq[m].axes,
                                            price |-> creq[m].price, stocked |-> FALSE]]
  /\ creq' = [o \in Merchants |->
                IF o = m THEN [creq[m] EXCEPT !.do = "stock", !.combos = @ \ {c}, !.v = nextV]
                         ELSE [creq[o] EXCEPT !.alone = FALSE]]
  /\ crossed' = crossed \union (IF Others(m, "base") # {} THEN {"price"} ELSE {})
                        \union {"combo" : o \in {p \in Merchants \ {m} : c \in creq[p].combos}}
                        \union {"axes" : o \in Others(m, "axes")}
  /\ UNCHANGED <<ptype, axes, base, lapses, lapsed>>

\* A row of zeros in the store's default warehouse, which there is.
EnsureInventoryRow(v) == variant' = [variant EXCEPT ![v].stocked = TRUE]

\* then gets its inventory row, and after the last one the base price follows.
StockVariant(m) ==
  /\ Calls(m, "stock")
  /\ EnsureInventoryRow(creq[m].v)
  /\ creq' = [creq EXCEPT ![m].do = IF creq[m].combos = {} THEN "sync" ELSE "create", ![m].v = 0]
  /\ UNCHANGED <<ptype, axes, base, lapses, lapsed, crossed>>

(***************************************************************************)
(* The axes, in the product's metadata.                                    *)
(***************************************************************************)
\* setVariantAxes: other axes only while there is no variant.
PlanAxes(m, a) ==
  /\ Calls(m, "idle") /\ ptype = "VARIABLE" /\ a > axes
  /\ LiveV = {}
  /\ creq' = [creq EXCEPT ![m] = [NoCall EXCEPT !.do = "axes", !.axes = a]]
  /\ UNCHANGED <<ptype, axes, variant, base, lapses, lapsed, crossed>>

\* adminSetStatus: the metadata it read is written back with the status action.
ReadMetadata(m) ==
  /\ Calls(m, "idle") /\ ptype = "VARIABLE"
  /\ creq' = [creq EXCEPT ![m] = [NoCall EXCEPT !.do = "axes", !.axes = axes]]
  /\ UNCHANGED <<ptype, axes, variant, base, lapses, lapsed, crossed>>

WriteMetadata(m) ==
  /\ Calls(m, "axes")
  /\ axes' = creq[m].axes
  /\ crossed' = crossed \union
                  {"axes" : o \in UNION {Others(m, do) : do \in {"axes", "create", "stock"}}}
  /\ CallEnds(m)
  /\ UNCHANGED <<ptype, variant, base, lapses, lapsed>>

\* The request dies.
CatalogueCrash(m) ==
  /\ ~Calls(m, "idle") /\ lapses < MaxLapses
  /\ lapses' = lapses + 1
  /\ lapsed' = lapsed
       \union (IF creq[m].do \in {"sync", "base", "stock", "create"} THEN {"price"} ELSE {})
       \union (IF Calls(m, "stock") THEN {"stock"} ELSE {})
  /\ CallEnds(m)
  /\ UNCHANGED <<ptype, axes, variant, base, crossed>>

-----------------------------------------------------------------------------
CatalogueNext ==
  \/ CreateProduct
  \/ \E m \in Merchants :
       \/ SyncRead(m) \/ SyncWrite(m) \/ StockVariant(m) \/ ReadMetadata(m) \/ WriteMetadata(m)
       \/ CatalogueCrash(m)
       \/ \E c \in Combos : CreateVariant(m, c) \/ \E p \in Prices : AddMyVariant(m, c, p)
       \/ \E a \in Axes : PlanAxes(m, a)
       \/ \E v \in VariantIds : RemoveVariant(m, v)
       \/ \E p \in Prices : \/ \E v \in VariantIds : SetPrice(m, v, p)
                            \/ \E cs \in SUBSET Combos : PlanVariants(m, cs, p) \/ SetPrices(m, cs, p)

CatalogueSpec == CatalogueInit /\ [][CatalogueNext]_catalogueVars

-----------------------------------------------------------------------------
\* Every variable has its type.
CatalogueTypeOK ==
  /\ ptype \in {"none", "SIMPLE", "VARIABLE"} /\ axes \in Axes /\ base \in Prices \union {0}
  /\ variant \in [VariantIds -> [is : {"none", "live", "gone"}, combo : Combos \union {"none"},
                                 axes : Axes, price : Prices \union {0}, stocked : BOOLEAN]]
  /\ creq \in [Merchants -> [do : {"idle", "sync", "base", "create", "stock", "axes"},
                             combos : SUBSET Combos, price : Prices \union {0}, axes : Axes,
                             v : VariantIds \union {0}, alone : BOOLEAN]]
  /\ lapses \in 0 .. MaxLapses /\ lapsed \subseteq {"price", "stock"}
  /\ crossed \subseteq {"price", "combo", "axes"}

\* When no request is under way: the base price is that of the cheapest live variant, no two
\* live variants are the same combination, all are combinations of the present axes and all
\* have an inventory row; each unless the requests that see to it overlapped, or one died.
VariantsInOrder ==
  (\A m \in Merchants : Calls(m, "idle")) =>
    /\ "price" \in crossed \union lapsed \/ base = Cheapest(LiveV)
    /\ "stock" \in lapsed \/ \A v \in LiveV : variant[v].stocked
    /\ "axes" \in crossed \/ \A v \in LiveV : variant[v].axes \in {0, axes}
    /\ "combo" \in crossed \/ \A v, w \in LiveV : v # w => variant[v].combo # variant[w].combo
=============================================================================
