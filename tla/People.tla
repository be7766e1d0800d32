-------------------------------- MODULE People --------------------------------
(***************************************************************************)
(* The services about people around the shop's orders, payments, refunds   *)
(* and settlements: what customers put in their carts and pay, their       *)
(* accounts, the sellers and the administrators, and the duties the law    *)
(* adds. What one of them writes to rows another one models is an action   *)
(* of that other module, so the parts can be taken one at a time: a        *)
(* behaviour picks the part at work, and within it all requests            *)
(* interleave.                                                             *)
(***************************************************************************)
EXTENDS Carts, Pricing, Invoices, Sessions, Sellers, Stores, Grievances, Privacy

CONSTANT Focuses  \* the parts looked at, some of
                  \* "carts", "views", "coupons", "pricing", "invoices",
                  \* "sessions", "roles", "addresses", "sellers", "stores",
                  \* "terms", "grievances", "privacy", "deposits"

VARIABLE focus  \* the part at work

peopleVars ==
  <<focus, cartVars, viewVars, couponVars, pricingVars, invoiceVars, sessionVars, roleVars,
    addressVars, sellerVars, storeVars, grievanceVars, privacyVars, depositVars>>

\* Parts that may start in several states start in one of them while others are at work.
PeopleInit ==
  /\ focus \in Focuses
  /\ CartInit /\ CouponInit /\ SessionInit /\ AddressInit /\ SellerInit /\ GrievanceInit
  /\ PrivacyInit /\ DepositInit
  /\ ViewInit /\ (focus # "views" => article.price = (CHOOSE any \in ListPrices : TRUE))
  /\ PricingInit /\ (focus # "pricing" =>
       /\ <<basket, offer, config>> = (CHOOSE any \in Baskets \X Offers \X Configs : TRUE)
       /\ \A k \in DOMAIN fare : fare[k] = NoFare)
  /\ InvoiceInit /\ (focus # "invoices" => year = (CHOOSE any \in Years : TRUE))
  /\ RoleInit /\ (focus # "roles" => roleOf = [a \in Admins |-> Super] /\ grants = {Super} \X Permits)
  /\ StoreInit /\ (focus # "stores" => kind = "warehouse")
  /\ TermInit /\ (focus # "terms" => currency = (CHOOSE any \in Currencies : TRUE))

\* A part that is not at work stays as it is.
Apart ==
  /\ UNCHANGED focus
  /\ focus # "carts" => UNCHANGED cartVars
  /\ focus # "views" => UNCHANGED viewVars
  /\ focus # "coupons" => UNCHANGED couponVars
  /\ focus # "pricing" => UNCHANGED pricingVars
  /\ focus # "invoices" => UNCHANGED invoiceVars
  /\ focus # "sessions" => UNCHANGED sessionVars
  /\ focus # "roles" => UNCHANGED roleVars
  /\ focus # "addresses" => UNCHANGED addressVars
  /\ focus # "sellers" => UNCHANGED sellerVars
  /\ focus # "stores" => UNCHANGED siteVars
  /\ focus # "terms" => UNCHANGED termVars
  /\ focus # "grievances" => UNCHANGED grievanceVars
  /\ focus # "privacy" => UNCHANGED privacyVars
  /\ focus # "deposits" => UNCHANGED depositVars

PeopleNext ==
  \/ focus = "carts" /\ Apart /\ CartNext
  \/ focus = "views" /\ Apart /\ ViewNext
  \/ focus = "coupons" /\ Apart /\ CouponNext
  \/ focus = "pricing" /\ Apart /\ PricingNext
  \/ focus = "invoices" /\ Apart /\ InvoiceNext
  \/ focus = "sessions" /\ Apart /\ SessionNext
  \/ focus = "roles" /\ Apart /\ RoleNext
  \/ focus = "addresses" /\ Apart /\ AddressNext
  \/ focus = "sellers" /\ Apart /\ SellerNext
  \/ focus = "stores" /\ Apart /\ SiteNext
  \/ focus = "terms" /\ Apart /\ TermNext
  \/ focus = "grievances" /\ Apart /\ GrievanceNext
  \/ focus = "privacy" /\ Apart /\ PrivacyNext
  \/ focus = "deposits" /\ Apart /\ DepositNext

PeopleSpec == PeopleInit /\ [][PeopleNext]_peopleVars

-----------------------------------------------------------------------------
\* What is claimed of a part is looked at while the part is at work.
Of(part, claim) == focus = part => claim

\* Every variable has its type.
PeopleTypeOK ==
  /\ focus \in Focuses
  /\ Of("carts", CartTypeOK)            /\ Of("coupons", CouponTypeOK)
  /\ Of("pricing", PricingTypeOK)       /\ Of("invoices", InvoiceTypeOK)
  /\ Of("sessions", SessionTypeOK)      /\ Of("roles", RoleTypeOK)
  /\ Of("addresses", AddressTypeOK)     /\ Of("sellers", SellerTypeOK)
  /\ Of("stores", StoreTypeOK)          /\ Of("terms", StoreTypeOK)
  /\ Of("grievances", GrievanceTypeOK)  /\ Of("privacy", PrivacyTypeOK)
  /\ Of("deposits", DepositTypeOK)      /\ Of("views", ViewTypeOK)

\* The figures hold together: what a customer is told of the cart is what an order would meet;
\* the order's lines, taxes and discounts add up and it costs what was quoted; a coupon is not
\* redeemed beyond its limits, but for placements that overlap; a seller's invoice numbers have
\* no gap; the ledger of what is owed to the tax office agrees with what was deposited.  Each
\* to the extent its module says.
MoneyAddsUp == /\ Of("views", AdviceHolds)
               /\ Of("pricing", FiguresAgree /\ QuoteHonoured)
               /\ Of("coupons", LimitHeld)
               /\ Of("invoices", NumbersGapless)
               /\ Of("deposits", DepositsAddUp)

\* What belongs to an account stays as its owner, or an administrator, left it: a cart holds
\* nothing nobody asked for; one address and one warehouse are the default; a new password ends
\* the sessions that were open; nobody grants a permission without holding it; and what was
\* decided about a seller, or written into the store's terms, stands.
AccountsKept == /\ Of("carts", NothingAppears)
                /\ Of("addresses", OneDefaultAddress)
                /\ Of("sessions", SessionsFollowPassword)
                /\ Of("roles", AuthorityKept)
                /\ Of("sellers", RulingsStand)
                /\ Of("stores", OneDefault)
                /\ Of("terms", TermsStand)

\* The law's clocks: complaints are answered in their order and time, and personal data goes
\* when its owner asks and only then.
DutiesKept == Of("grievances", ComplaintsInOrder) /\ Of("privacy", ErasureAsAsked)
=============================================================================
