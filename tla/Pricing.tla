------------------------------ MODULE Pricing ------------------------------
(***************************************************************************)
(* What an order costs: the shipping quote, the figures placeOrder writes  *)
(* into the order, its seller orders and their lines, and the figures that *)
(* invoices and refunds derive from those rows later.                      *)
(*                                                                         *)
(* Prices, discounts and charges are in paise; taxes and taxable values in *)
(* hundredths of a paisa, the four decimals of round4.  Rates are in       *)
(* percent.  Floating point is taken as exact.  A cart lists its lines by  *)
(* seller order: which seller comes last matters, how the lines of two     *)
(* sellers interleave does not.  The checks of the stock and the addresses *)
(* are elsewhere; those of the coupon are the second half, a part of its   *)
(* own.                                                                    *)
(***************************************************************************)
EXTENDS Integers, Sequences, FiniteSets, Functions

CONSTANTS
  Baskets,       \* carts: a sequence of seller orders, each a sequence of lines
  Offers,        \* coupons: kind, value and cap
  Configs,       \* shipping configurations of the stores
  Kind,          \* taxKind of the first, the second, ... seller
  Commission,    \* commissionRate of all sellers
  Fares,         \* charges a courier may quote
  MaxSwings      \* bound: changes of the couriers' answers

CartLine == [price : Nat, rate : 0 .. 100, weight : Nat]

ASSUME PricingConstantsOK ==
  /\ Baskets \subseteq Seq(Seq(CartLine) \ {<<>>})
  /\ Offers \subseteq [kind : {"none", "fixed_amount", "percentage"}, value : Nat, cap : Nat]
  /\ \A c \in Configs : {c.flatRate, c.perKgRate} \subseteq Nat
  /\ Commission \in 0 .. 100 /\ Fares \subseteq Nat /\ MaxSwings \in Nat

VARIABLES
  basket,   \* the cart
  offer,    \* the coupon entered
  config,   \* Store.shippingConfig of all sellers
  fare,     \* what each seller's courier would answer: a charge and if it takes cash
  cached,   \* CourierRateCacheService: by seller and cod, Unset, InHouseOnly or a charge
  quote,    \* the shipping charges quoted last, by seller; empty before
  order,    \* the order, once it is placed
  swings

pricingVars == <<basket, offer, config, fare, cached, quote, order, swings>>

Parts  == DOMAIN basket
Null  == -1
Unset == -2
InHouseOnly == -1   \* no courier: the charge of the store applies
NoFare == [charge |-> 0, cash |-> FALSE]   \* no courier serves the address

PricingInit ==
  /\ basket \in Baskets /\ offer \in Offers /\ config \in Configs
  /\ fare \in [DOMAIN basket -> {NoFare} \union [charge : Fares, cash : BOOLEAN]]
  /\ cached = [k \in DOMAIN basket |-> [cod \in BOOLEAN |-> Unset]]
  /\ quote = <<>> /\ order = {} /\ swings = 0

-----------------------------------------------------------------------------
(***************************************************************************)
(* Arithmetic.                                                             *)
(***************************************************************************)
Over(a, b)  == (2 * a + b) \div (2 * b)   \* Math.round(a / b)
Paise(n)    == Over(n, 100)               \* round2 of hundredths of a paisa
Total(f)    == FoldFunction(+, 0, f)
Abs(n)      == IF n < 0 THEN -n ELSE n
Lesser(a, b) == IF a < b THEN a ELSE b

\* t split by the weights w: all but the last are rounded, the last takes what is left.
Rounded(t, w, whole) ==
  [j \in 1 .. Len(w) - 1 |-> IF whole > 0 THEN Over(t * w[j], whole) ELSE 0]
WithRest(t, parts) == Append(parts, t - Total(parts))
Shares(t, w)       == WithRest(t, Rounded(t, w, Total(w)))

\* splitTax: a taxable value and a rate.
Breakup(v, rate, supply) ==
  LET half == Over(v * rate, 200)
      full == Over(v * rate, 100)
  IN  IF supply = "INTRA_STATE" THEN [cgst |-> half, sgst |-> half, igst |-> 0]
                              ELSE [cgst |-> 0, sgst |-> 0, igst |-> full]
TotalTax(b) == b.cgst + b.sgst + b.igst

\* fromInclusiveMrp: the taxable value of a charge that includes its tax.
FromInclusive(charge, rate) == Over(charge * 10000, 100 + rate)

-----------------------------------------------------------------------------
(***************************************************************************)
(* The coupon and the shipping of a seller order.                          *)
(***************************************************************************)
PricesOf(k)   == [j \in DOMAIN basket[k] |-> basket[k][j].price]
Subtotal(k) == Total(PricesOf(k))
Goods       == Total([k \in Parts |-> Subtotal(k)])

\* 0 is refused: the coupon would change nothing.
DiscountOn(goods) ==
  CASE offer.kind = "none"         -> 0
    [] offer.kind = "fixed_amount" -> Lesser(offer.value, goods)
    [] offer.kind = "percentage"   ->
         LET d == Over(goods * offer.value, 100)
         IN  IF offer.cap > 0 THEN Lesser(d, offer.cap) ELSE d
Discount == DiscountOn(Goods)
PerStore == Shares(Discount, [k \in Parts |-> Subtotal(k)])

\* computeSellerShipping, from the subtotal before any discount.
Weight(k) == Total([j \in DOMAIN basket[k] |-> basket[k][j].weight])
InHouse(k) ==
  IF config.freeAbove # Null /\ Subtotal(k) >= config.freeAbove
  THEN 0
  ELSE config.flatRate + Over(config.perKgRate * Weight(k), 100)

\* pickCourier and resolveSellerRate: a seller's charge, InHouseOnly for none.  Answers are cached;
\* the calls in lost fail or take too long, and are not.
Answer(k, cod) ==
  IF fare[k] = NoFare \/ (cod /\ ~fare[k].cash) THEN InHouseOnly ELSE fare[k].charge
Unknown(cod) == {k \in Parts : cached[k][cod] = Unset}
LiveRate(k, cod, lost) ==
  IF k \notin Unknown(cod) THEN cached[k][cod] ELSE IF k \in lost THEN InHouseOnly ELSE Answer(k, cod)
Remember(cod, lost) ==
  cached' = [k \in Parts |-> IF k \in Unknown(cod) \ lost
                             THEN [cached[k] EXCEPT ![cod] = Answer(k, cod)] ELSE cached[k]]

\* ShippingService.quote, which asks for the rates of a prepaid order.
Quote ==
  /\ order = {}
  /\ \E lost \in SUBSET Unknown(FALSE) :
       /\ quote' = [k \in Parts |-> LET r == LiveRate(k, FALSE, lost)
                                    IN  IF r = InHouseOnly THEN InHouse(k) ELSE r]
       /\ Remember(FALSE, lost)
  /\ UNCHANGED <<basket, offer, config, fare, order, swings>>

-----------------------------------------------------------------------------
(***************************************************************************)
(* placeOrder.                                                             *)
(***************************************************************************)
\* The lines of a seller order: discount, taxable value and tax.
LinesCut(k, cut) ==
  LET Taxable(j) == LET left == basket[k][j].price - cut[j] IN 100 * (IF left > 0 THEN left ELSE 0)
  IN  [j \in DOMAIN basket[k] |->
         [price |-> basket[k][j].price, discount |-> cut[j], taxable |-> Taxable(j),
          rate |-> basket[k][j].rate, tax |-> Breakup(Taxable(j), basket[k][j].rate, Kind[k])]]
LinesOf(k) == LinesCut(k, Shares(PerStore[k], PricesOf(k)))
Worth(ls)  == Total([j \in DOMAIN ls |-> ls[j].taxable])
GoodsTax(ls) == Total([j \in DOMAIN ls |-> TotalTax(ls[j].tax)])

\* The rate of the first line with the highest taxable value.
PrincipalRate(ls) ==
  LET j == CHOOSE i \in DOMAIN ls : /\ \A h \in DOMAIN ls : ls[h].taxable =< ls[i].taxable
                                    /\ \A h \in 1 .. i - 1 : ls[h].taxable < ls[i].taxable
  IN  ls[j].rate

\* A seller order whose courier's charge is live, or InHouseOnly.
SellerOrderOf(k, ls, live, charge) ==
  LET rate        == PrincipalRate(ls)
      shipTaxable == FromInclusive(charge, rate)
      shipTax     == Breakup(shipTaxable, rate, Kind[k])
      commission  == Paise(Over(Worth(ls) * Commission, 100))
  IN  [lines |-> ls, subtotal |-> Subtotal(k), discount |-> PerStore[k],
       shipping |-> charge, shippingTax |-> TotalTax(shipTax), live |-> live # InHouseOnly,
       tax |-> Paise(GoodsTax(ls) + TotalTax(shipTax)), commission |-> commission,
       payout |-> Paise(Worth(ls) + GoodsTax(ls) - 100 * commission
                        + shipTaxable + TotalTax(shipTax))]
SellerOrder(k, live) ==
  SellerOrderOf(k, LinesOf(k), live, IF live = InHouseOnly THEN InHouse(k) ELSE live)

Serviceable(so) == so.live \/ config.delivers
TakesCash(so) ==
  \/ so.live
  \/ /\ config.codEnabled
     /\ config.codLimit = Null \/ so.subtotal - so.discount + so.shipping =< config.codLimit

Sum(sos, Of(_)) == Total([k \in DOMAIN sos |-> Of(sos[k])])
Tax(so)         == so.tax
ShippingTax(so) == so.shippingTax
\* Slip: the tax of the shipping, which its charge contains, is added once more.
EveryTax(sos) == Sum(sos, Tax)
\* The shipping charges contain their tax, so it is taken out of the taxes added.
MerchandiseTax(sos) == Paise(100 * Sum(sos, Tax) - Sum(sos, ShippingTax))
TotalAmount(sos) ==
  LET Charged(so) == so.subtotal - so.discount + so.shipping
  IN  Sum(sos, Charged) + MerchandiseTax(sos)

PlaceOrder(cod) ==
  /\ order = {}
  /\ offer.kind # "none" => Discount > 0
  /\ \E lost \in SUBSET Unknown(cod) :
       LET sos == [k \in Parts |-> SellerOrder(k, LiveRate(k, cod, lost))] IN
       /\ \A k \in Parts : Serviceable(sos[k]) /\ (cod => TakesCash(sos[k]))
       /\ order' = {[cod |-> cod, orders |-> sos, total |-> TotalAmount(sos),
                     asked |-> Unknown(cod) # {}]}
       /\ Remember(cod, lost)
  /\ UNCHANGED <<basket, offer, config, fare, quote, swings>>

\* The couriers change their charges; a cached charge expires.
FareChanges ==
  /\ order = {} /\ swings < MaxSwings
  /\ \E k \in Parts, f \in {NoFare} \union [charge : Fares, cash : BOOLEAN] :
       fare' = [fare EXCEPT ![k] = f]
  /\ swings' = swings + 1
  /\ UNCHANGED <<basket, offer, config, cached, quote, order>>
RateExpires ==
  /\ order = {}
  /\ \E k \in Parts, cod \in BOOLEAN :
       k \notin Unknown(cod) /\ cached' = [cached EXCEPT ![k][cod] = Unset]
  /\ UNCHANGED <<basket, offer, config, fare, quote, order, swings>>

PricingNext ==
  \/ Quote \/ FareChanges \/ RateExpires
  \/ \E cod \in BOOLEAN : PlaceOrder(cod)

PricingSpec == PricingInit /\ [][PricingNext]_pricingVars

-----------------------------------------------------------------------------
(***************************************************************************)
(* Figures derived from the rows later.                                    *)
(***************************************************************************)
\* The grand total of a seller order's invoice.
Invoiced(so) == Worth(so.lines) + GoodsTax(so.lines) + 100 * so.shipping
\* validateAndCompute's customerTotal: the goods of the cart after the coupon, tax included.
Previewed ==
  LET Cost(l) == l.taxable * (100 + l.rate)
      Costs(ls) == Total([j \in DOMAIN ls |-> Cost(ls[j])])
  IN  Over(Total([k \in Parts |-> Costs(LinesOf(k))]), 10000)
\* What a return of all its goods refunds, without its shipping.
ReturnedGoods(so) ==
  Total([j \in DOMAIN so.lines |->
           so.lines[j].price - so.lines[j].discount + Paise(TotalTax(so.lines[j].tax))])
\* sellerOrderTotal, what a refund of the seller order may reach.
SellerOrderTotal(so) == so.subtotal + so.tax + so.shipping - so.discount

PricingTypeOK ==
  /\ basket \in Baskets /\ offer \in Offers /\ config \in Configs
  /\ fare \in [Parts -> {NoFare} \union [charge : Fares, cash : BOOLEAN]]
  /\ cached \in [Parts -> [BOOLEAN -> {Unset, InHouseOnly} \union Fares]]
  /\ quote = <<>> \/ quote \in [Parts -> Nat]
  /\ \A o \in order, k \in Parts : {o.orders[k].shipping, o.orders[k].payout} \subseteq Nat
  /\ swings \in 0 .. MaxSwings

\* What agrees, but for the rounding of each seller order and each line: what
\* the buyer pays is what the sellers are paid and the platform keeps; the invoices add up to
\* it, as does the preview of a coupon, which leaves out the shipping; a return of goods and a
\* refund of a seller order reach what the buyer paid for them, the latter exceeding it by the
\* tax of the shipping, which is both in its tax and in its charge.
Agree(o) ==
  LET sos == o.orders
      n   == Len(sos)
      Kept(so)  == so.payout + so.commission
      Shipping(so) == so.shipping
      Length(so) == Len(so.lines)
  IN  /\ 100 * Abs(o.total - Sum(sos, Kept)) =< 102 * n + 50
      /\ Abs(100 * o.total - Sum(sos, Invoiced)) =< 50 * (n + 1)
      /\ offer.kind # "none" =>
           100 * Abs(o.total - Sum(sos, Shipping) - Previewed) =< 50 * (n + 2) + Sum(sos, Length)
      /\ \A k \in Parts :
           LET goods == Invoiced(sos[k]) - 100 * sos[k].shipping IN
           /\ Abs(100 * ReturnedGoods(sos[k]) - goods) =< 50 * Len(sos[k].lines)
           /\ Abs(100 * SellerOrderTotal(sos[k]) - Invoiced(sos[k]) - sos[k].shippingTax) =< 50

\* The figures of an order agree unless a line's share of the discount, of which the last one
\* takes what rounding left, exceeds its price: it is then worth nothing and not less.
Covered(o) ==
  \A k \in Parts : \A j \in DOMAIN basket[k] : o.orders[k].lines[j].discount =< basket[k][j].price
FiguresAgree == \A o \in order : Covered(o) => Agree(o)

\* A prepaid buyer is charged the shipping that was quoted last, with the same free threshold,
\* unless placing the order had to ask a courier again.
QuoteHonoured ==
  \A o \in order :
    quote # <<>> /\ ~o.cod /\ ~o.asked => \A k \in Parts : o.orders[k].shipping = quote[k]
-----------------------------------------------------------------------------
(***************************************************************************)
(* CouponService: one coupon, the orders that try to redeem it, and its    *)
(* upkeep by the administrator or by the seller of its store.  The limits  *)
(* are enforced by counting redemptions while the order is being prepared; *)
(* the redemption is inserted later, in the placement's transaction, which *)
(* does not count again.                                                   *)
(*                                                                         *)
(* Here a basket is the stores it buys from and whether it meets the       *)
(* minimum purchase and yields a discount; how large that is and how it is *)
(* split between the stores is above.                                      *)
(***************************************************************************)
CONSTANTS
  Buyers,       \* customers
  CouponStores, \* stores
  Carters,      \* orders being placed at the same time
  MaxRedeemed,  \* bound: redemptions
  MaxEdits      \* bound: changes of the coupon

ASSUME CouponConstantsOK ==
  IsFiniteSet(Buyers) /\ MaxRedeemed \in Nat \ {0} /\ MaxEdits \in Nat

VARIABLES
  coupon,    \* the Coupon row
  redeemed,  \* CouponRedemption rows by customer
  placing,   \* an order whose coupon was validated: its customer, and whether another
             \* order was under way then
  loosest,   \* history: the highest limits in force so far, in all and by customer
  unseen,    \* history: redemptions validated while another order was under way
  edits

couponVars == <<coupon, redeemed, placing, loosest, unseen, edits>>

Everywhere == "platform"
NoOrder    == [who |-> "nobody", beside |-> FALSE]
\* Zero is no limit, as null is; a bound nothing reaches stands for it.
Limits     == 0 .. MaxRedeemed
Unlimited  == MaxRedeemed + 1
Reach(n)   == IF n = 0 THEN Unlimited ELSE n

Coupon == [state  : {"none", "active", "inactive", "deleted"},
           window : {"early", "open", "late"},
           store  : CouponStores \cup {Everywhere},
           limit  : Limits, each : Limits]

CouponInit ==
  /\ coupon = [state |-> "none", window |-> "early", store |-> Everywhere, limit |-> 1, each |-> 1]
  /\ redeemed = [b \in Buyers |-> 0]
  /\ placing = [w \in Carters |-> NoOrder]
  /\ loosest = [all |-> 0, each |-> 0]
  /\ unseen = 0 /\ edits = 0

Used == Total(redeemed)

Higher(a, b) == IF a > b THEN a ELSE b

\* What a change of the row leaves in force.
Publish(row) ==
  /\ edits < MaxEdits /\ edits' = edits + 1
  /\ coupon' = row
  /\ loosest' = [all |-> Higher(loosest.all, Reach(row.limit)),
                 each |-> Higher(loosest.each, Reach(row.each))]
  /\ UNCHANGED <<redeemed, placing, unseen>>

\* create; a seller's coupon is for a store of theirs (createForSeller).
CreateCoupon(row) ==
  /\ coupon.state = "none" /\ row.state \in {"active", "inactive"}
  /\ Publish(row)

\* update: any field, by the administrator, or by a seller who owns its store before and
\* after (updateForSeller); a store stands for its seller.
UpdateCoupon(by, row) ==
  /\ coupon.state \in {"active", "inactive"} /\ row.state \in {"active", "inactive"}
  /\ by # Everywhere => coupon.store = by /\ row.store = by
  /\ Publish(row)

\* softDelete.
DeleteCoupon(by) ==
  /\ coupon.state # "none"
  /\ by # Everywhere => coupon.state # "deleted" /\ coupon.store = by
  /\ Publish([coupon EXCEPT !.state = "deleted"])

TimePasses ==
  /\ coupon.state # "none"
  /\ coupon' = [coupon EXCEPT !.window = IF @ = "early" THEN "open" ELSE "late"]
  /\ coupon.window # "late"
  /\ UNCHANGED <<redeemed, placing, loosest, unseen, edits>>

UnderLimits(b) ==
  /\ coupon.limit > 0 => Used < coupon.limit
  /\ coupon.each > 0 => redeemed[b] < coupon.each

\* validateAndCompute, in the order of its refusals.
Validates(b, stores, fits) ==
  /\ coupon.state = "active" /\ coupon.window = "open"
  /\ coupon.store # Everywhere => stores \subseteq {coupon.store}
  /\ fits
  /\ UnderLimits(b)

\* placeOrder validates the coupon before its transaction.
ValidateCoupon(w, b, stores, fits) ==
  /\ placing[w] = NoOrder /\ stores # {}
  /\ Validates(b, stores, fits)
  /\ placing' = [placing EXCEPT ![w] = [who    |-> b,
                                         beside |-> \E v \in Carters : placing[v] # NoOrder]]
  /\ UNCHANGED <<coupon, redeemed, loosest, unseen, edits>>

\* The redemption is part of the placement; one that rolls back leaves none.
RedeemCoupon(w) ==
  /\ placing[w] # NoOrder
  /\ placing' = [placing EXCEPT ![w] = NoOrder]
  /\ \/ /\ Used < MaxRedeemed
        /\ redeemed' = [redeemed EXCEPT ![placing[w].who] = @ + 1]
        /\ unseen' = unseen + (IF placing[w].beside THEN 1 ELSE 0)
     \/ UNCHANGED <<redeemed, unseen>>
  /\ UNCHANGED <<coupon, loosest, edits>>

-----------------------------------------------------------------------------
CouponNext ==
  \/ \E row \in Coupon :
       CreateCoupon(row) \/ \E by \in CouponStores \cup {Everywhere} : UpdateCoupon(by, row)
  \/ \E by \in CouponStores \cup {Everywhere} : DeleteCoupon(by)
  \/ TimePasses
  \/ \E w \in Carters :
       \/ \E b \in Buyers, stores \in SUBSET CouponStores, fits \in BOOLEAN :
            ValidateCoupon(w, b, stores, fits)
       \/ RedeemCoupon(w)

CouponSpec == CouponInit /\ [][CouponNext]_couponVars

-----------------------------------------------------------------------------
\* Every variable has its type.
CouponTypeOK ==
  /\ coupon \in Coupon
  /\ redeemed \in [Buyers -> Nat] /\ Used =< MaxRedeemed
  /\ placing \in [Carters -> [who : Buyers, beside : BOOLEAN] \cup {NoOrder}]
  /\ loosest \in [all : Nat, each : Nat]
  /\ unseen \in Nat /\ edits \in Nat

\* usageLimit and usageLimitPerUser hold: a coupon is redeemed no more often than the most
\* it has allowed, but for the orders validated while another one was under way.
LimitHeld ==
  /\ Used =< loosest.all + unseen
  /\ \A b \in Buyers : redeemed[b] =< loosest.each + unseen
=============================================================================
