-------------------------------- MODULE Wares ---------------------------------
(***************************************************************************)
(* The services about what is sold and shown: the catalogue, its pictures  *)
(* and its badges, reviews and content, the messages to the customers, the *)
(* reports about the sales, and the outside services the shop works with.  *)
(* What one of them writes to rows another one models is an action of that *)
(* other module, so the parts can be taken one at a time: a behaviour      *)
(* picks the part at work, and within it all requests interleave.          *)
(***************************************************************************)
EXTENDS Catalogue, Listing, Uploads, Taxonomy, Badges, Reviews, Newsletter, Notices,
        Courier, Logins, Secrets, ApiAccess, Content, Figures, Tombstones

CONSTANT Focuses  \* the parts looked at, some of
                  \* "products", "listing", "gallery", "uploads", "names",
                  \* "categories", "attributes", "labels", "collections",
                  \* "reviews", "newsletter", "alerts", "notices", "courier",
                  \* "logins", "gateways", "mail", "keys", "pages", "sliders",
                  \* "slides", "menus", "figures", "rows"

VARIABLE focus  \* the part at work

waresVars ==
  <<focus, catalogueVars, listingVars, imageVars, uploadVars, nameVars, taxonomyVars, badgeVars,
    reviewVars, newsletterVars, alertVars, noticeVars, courierVars, loginVars, secretsVars,
    keyVars, contentVars, figureVars, tombVars>>

\* Parts that may start in several states start in one of them while others are at work.
WaresInit ==
  /\ focus \in Focuses
  /\ CatalogueInit /\ ImagesInit /\ ReviewInit /\ NewsletterInit /\ AlertInit /\ CourierInit
  /\ LoginInit /\ SecretsInit /\ KeyInit /\ ContentInit /\ FigureInit
  /\ TombInit /\ (focus # "rows" => ~filtering)
  /\ ListingInit /\ (focus # "listing" => open)
  /\ UploadsInit /\ (focus # "uploads" => provider = "local")
  /\ NamesInit /\ (focus # "names" => table = "brand")
  /\ TaxonomyInit /\ (focus # "categories" => parent = [c \in Cats |-> Root])
  /\ BadgesInit /\ (focus \notin {"labels", "collections"} => thing = (CHOOSE any \in Things : TRUE))
  /\ NoticeInit /\ (focus # "notices" => handler = (CHOOSE any \in Handlers : TRUE))

\* A part that is not at work stays as it is.
Apart ==
  /\ UNCHANGED focus
  /\ focus # "products" => UNCHANGED catalogueVars
  /\ focus # "listing" => UNCHANGED listingVars
  /\ focus # "gallery" => UNCHANGED imageVars
  /\ focus # "uploads" => UNCHANGED uploadVars
  /\ focus # "names" => UNCHANGED nameVars
  /\ focus \notin {"categories", "attributes"} => UNCHANGED taxonomyVars
  /\ focus \notin {"labels", "collections"} => UNCHANGED badgeVars
  /\ focus # "reviews" => UNCHANGED reviewVars
  /\ focus # "newsletter" => UNCHANGED newsletterVars
  /\ focus # "alerts" => UNCHANGED alertVars
  /\ focus # "notices" => UNCHANGED noticeVars
  /\ focus # "courier" => UNCHANGED courierVars
  /\ focus # "logins" => UNCHANGED loginVars
  /\ focus \notin {"gateways", "mail"} => UNCHANGED secretsVars
  /\ focus # "keys" => UNCHANGED keyVars
  /\ focus \notin {"pages", "sliders", "slides", "menus"} => UNCHANGED contentVars
  /\ focus # "figures" => UNCHANGED figureVars
  /\ focus # "rows" => UNCHANGED tombVars

WaresNext ==
  \/ focus = "products" /\ Apart /\ CatalogueNext
  \/ focus = "listing" /\ Apart /\ ListingNext
  \/ focus = "gallery" /\ Apart /\ ImagesNext
  \/ focus = "uploads" /\ Apart /\ UploadsNext
  \/ focus = "names" /\ Apart /\ NamesNext
  \/ focus = "categories" /\ Apart /\ ~hung /\ TreeNext
  \/ focus = "attributes" /\ Apart /\ ~hung /\ ValueNext
  \/ focus = "labels" /\ Apart /\ LabelNext
  \/ focus = "collections" /\ Apart /\ ShelfNext
  \/ focus = "reviews" /\ Apart /\ ReviewNext
  \/ focus = "newsletter" /\ Apart /\ NewsletterNext
  \/ focus = "alerts" /\ Apart /\ AlertNext
  \/ focus = "notices" /\ Apart /\ NoticeNext
  \/ focus = "courier" /\ Apart /\ CourierNext
  \/ focus = "logins" /\ Apart /\ LoginNext
  \/ focus = "gateways" /\ Apart /\ GatewayNext
  \/ focus = "mail" /\ Apart /\ MailNext
  \/ focus = "keys" /\ Apart /\ KeyNext
  \/ focus = "pages" /\ Apart /\ PageNext
  \/ focus = "sliders" /\ Apart /\ SliderNext
  \/ focus = "slides" /\ Apart /\ SlideNext
  \/ focus = "menus" /\ Apart /\ MenuNext
  \/ focus = "figures" /\ Apart /\ FigureNext
  \/ focus = "rows" /\ Apart /\ TombNext

WaresSpec == WaresInit /\ [][WaresNext]_waresVars

-----------------------------------------------------------------------------
\* What is claimed of a part is looked at while the part is at work.
Of(part, claim) == focus = part => claim

\* Every variable has its type.
WaresTypeOK ==
  /\ focus \in Focuses
  /\ Of("products", CatalogueTypeOK)    /\ Of("listing", ListingTypeOK)
  /\ Of("gallery", ImagesTypeOK)        /\ Of("uploads", UploadsTypeOK)
  /\ Of("names", NamesTypeOK)           /\ Of("categories", TaxonomyTypeOK)
  /\ Of("attributes", TaxonomyTypeOK)   /\ Of("labels", BadgesTypeOK)
  /\ Of("collections", BadgesTypeOK)    /\ Of("reviews", ReviewTypeOK)
  /\ Of("newsletter", NewsletterTypeOK)  /\ Of("alerts", AlertTypeOK)
  /\ Of("notices", NoticeTypeOK)        /\ Of("courier", CourierTypeOK)
  /\ Of("logins", LoginTypeOK)          /\ Of("gateways", SecretsTypeOK)
  /\ Of("mail", SecretsTypeOK)          /\ Of("keys", KeyTypeOK)
  /\ Of("pages", ContentTypeOK)         /\ Of("sliders", ContentTypeOK)
  /\ Of("slides", ContentTypeOK)        /\ Of("menus", ContentTypeOK)
  /\ Of("figures", FigureTypeOK)        /\ Of("rows", TombTypeOK)

\* The catalogue stays in order: variants, prices and axes fit together, names are told
\* apart, the tree is a tree, linked values stay, and pictures have their bytes and one cover.
CatalogueKept == /\ Of("products", VariantsInOrder)
                 /\ Of("names", NamesApart)
                 /\ Of("categories", TreeStaysTree)
                 /\ Of("attributes", LinkedValuesStay)
                 /\ Of("gallery", OneCover)
                 /\ Of("uploads", BytesFollowRow)

\* What visitors see was meant to be seen: products are complete when they are published and
\* gone when archived, badges and collections agree with their rules, reviews were approved
\* as they stand, and pages, slides and menus were published by an editor.
ShopFrontHolds == /\ Of("listing", PublishedComplete /\ ArchivedStaysHidden)
                  /\ focus \in {"labels", "collections"} => SurfacesAgree /\ SignalsHold
                  /\ Of("reviews", PublishedAsApproved)
                  /\ focus \in {"pages", "sliders", "slides", "menus"} => ShownAsEdited

\* A message is sent once to each it is for, but for counted crashes; and who asks for the
\* figures of the sales is told what agrees with itself and with what was told before.
ReadersTold == /\ Of("notices", ToldOnce)
               /\ Of("newsletter", CampaignReaches)
               /\ Of("alerts", OneAlertPerRestock)
               /\ Of("figures", ReportsAgree)

\* What the shop shares with other systems: keys that open what they sealed, keys that let in
\* whom they should, logins of the account that is connected, no parcel at the courier nobody
\* can explain, and a database where what was deleted is neither lost nor seen.
OutsideAgrees == /\ focus \in {"gateways", "mail"} => SecretsKept
                 /\ Of("keys", KeysHold)
                 /\ Of("logins", LoginsKept)
                 /\ Of("courier", ParcelsExplained)
                 /\ Of("rows", TombstonesKept)
=============================================================================
