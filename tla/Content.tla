------------------------------ MODULE Content ------------------------------
(***************************************************************************)
(* The content editors: PageService, SliderService and MenuService.        *)
(* Nothing is deleted: a row gets deletedAt, and keeps its slug or place;  *)
(* a new page under the slug of a deleted one revives that row.  Every     *)
(* operation reads a row, checks it, and writes in another statement with  *)
(* no condition.                                                           *)
(*                                                                         *)
(* One menu, and the slides of one slider.  Titles, blocks, links, images, *)
(* configuration, reserved slugs and the lists of the editors' tables are  *)
(* left out.                                                               *)
(***************************************************************************)
EXTENDS Integers, FiniteSets

CONSTANTS
  Writers,    \* requests of editors handled at the same time
  Slugs,      \* page slugs, and keys of sliders
  MaxPages, MaxLives,    \* bounds: page rows, creations and revivals
  MaxSliders, MaxSlides  \* bounds: slider rows, slides added

ASSUME ContentConstantsOK == {MaxPages, MaxLives, MaxSliders, MaxSlides} \subseteq Nat

PageIds  == 1 .. MaxPages
SliderIds == 1 .. MaxSliders
SlideIds == 1 .. MaxSlides
PageStates == {"DRAFT", "PUBLISHED", "ARCHIVED"}

VARIABLES
  pages,     \* the Page rows: slug, status, isSystem, deletedAt
  life,     \* creations and revivals so far; the one each row is in
  released, \* history: the life of each row that was last published
  slider,   \* the Slider rows: key, status, deletedAt
  slide,    \* SlideItem: "none", or its order, or deleted
  menu,     \* the Menu of one location: isActive, deletedAt
  editing,  \* what each request has read and is about to write
  meddled   \* history: what was written while another request was about to write it

contentVars == <<pages, life, released, slider, slide, menu, editing, meddled>>
pageVars    == <<pages, life, released>>
slideVars   == <<slider, slide>>

NoPage  == [slug |-> "none", status |-> "DRAFT", system |-> FALSE, deleted |-> FALSE]
NoChange  == [do |-> "idle", on |-> 0, slug |-> "none", status |-> "DRAFT", flag |-> FALSE,
            order |-> <<>>]
NoSlider  == [key |-> "none", status |-> "DRAFT", deleted |-> FALSE]
NoSlide == -1
GoneSlide == -2

ContentInit ==
  /\ pages = [i \in PageIds |-> NoPage]
  /\ life = [next |-> 1, of |-> [i \in PageIds |-> 0]] /\ released = [i \in PageIds |-> 0]
  /\ slider = [i \in SliderIds |-> NoSlider] /\ slide = [i \in SlideIds |-> NoSlide]
  /\ menu = [exists |-> FALSE, active |-> FALSE, deleted |-> FALSE]
  /\ editing = [w \in Writers |-> NoChange]
  /\ meddled = {}

Begins(w, e)    == editing[w] = NoChange /\ editing' = [editing EXCEPT ![w] = e]
EndsEdit(w)        == editing' = [editing EXCEPT ![w] = NoChange]
Does(w, what)  == editing[w].do = what
Meddles(w, about, dos) ==
  meddled' = IF \E v \in Writers \ {w} : editing[v].do \in dos THEN meddled \cup {about} ELSE meddled

(***************************************************************************)
(* Pages.                                                                  *)
(***************************************************************************)
Has(i)       == pages[i].slug # "none"
LivePage(i)      == Has(i) /\ ~pages[i].deleted
WithSlug(s)  == {i \in PageIds : pages[i].slug = s}
PageEdits    == {"create", "revive", "status", "slug", "remove"}

PageRead(w, e) == Begins(w, e) /\ UNCHANGED <<pageVars, slideVars, menu, meddled>>
PageWrites(w)  == Meddles(w, "page", PageEdits) /\ EndsEdit(w) /\ UNCHANGED <<slideVars, menu>>

\* A slug that is taken is refused, a deleted page's row is revived.
CreatePage(w, s, system) ==
  /\ \A i \in WithSlug(s) : ~LivePage(i)
  /\ PageRead(w, [NoChange EXCEPT !.do = IF WithSlug(s) = {} THEN "create" ELSE "revive",
                                !.on = IF WithSlug(s) = {} THEN 0 ELSE CHOOSE i \in WithSlug(s) : TRUE,
                                !.slug = s, !.flag = system])

WriteNewPage(w) ==
  LET e == editing[w]
      taken == e.do = "create" /\ WithSlug(e.slug) # {}
  IN /\ e.do \in {"create", "revive"} /\ life.next =< MaxLives
     /\ \/ taken /\ UNCHANGED pageVars
        \/ /\ ~taken
           /\ \E i \in PageIds :
                /\ IF e.do = "revive" THEN i = e.on
                   ELSE ~Has(i) /\ \A j \in PageIds : j < i => Has(j)
                /\ pages' = [pages EXCEPT ![i] = [slug |-> IF e.do = "create" THEN e.slug ELSE @.slug,
                                                status |-> "DRAFT", system |-> e.flag,
                                                deleted |-> FALSE]]
                /\ life' = [next |-> life.next + 1, of |-> [life.of EXCEPT ![i] = life.next]]
           /\ UNCHANGED released
     /\ PageWrites(w)

SetPageStatus(w, i, status) ==
  /\ LivePage(i) /\ PageRead(w, [NoChange EXCEPT !.do = "status", !.on = i, !.status = status])

WritePageStatus(w) ==
  LET e == editing[w]
  IN /\ Does(w, "status")
     /\ pages' = [pages EXCEPT ![e.on].status = e.status]
     /\ released' = IF e.status = "PUBLISHED" THEN [released EXCEPT ![e.on] = life.of[e.on]]
                    ELSE released
     /\ UNCHANGED life
     /\ PageWrites(w)

\* update: the slug of another live page is refused; the unique index also refuses a
\* deleted one's, when the row is written.
MovePage(w, i, s) ==
  /\ LivePage(i) /\ pages[i].slug # s /\ \A j \in WithSlug(s) : ~LivePage(j)
  /\ PageRead(w, [NoChange EXCEPT !.do = "slug", !.on = i, !.slug = s])

WriteSlug(w) ==
  LET e == editing[w]
  IN /\ Does(w, "slug")
     /\ pages' = IF WithSlug(e.slug) \ {e.on} = {} THEN [pages EXCEPT ![e.on].slug = e.slug] ELSE pages
     /\ UNCHANGED <<life, released>>
     /\ PageWrites(w)

RemovePage(w, i) ==
  /\ LivePage(i) /\ ~pages[i].system /\ PageRead(w, [NoChange EXCEPT !.do = "remove", !.on = i])

WriteRemoval(w) ==
  /\ Does(w, "remove")
  /\ pages' = [pages EXCEPT ![editing[w].on].deleted = TRUE, ![editing[w].on].status = "ARCHIVED"]
  /\ UNCHANGED <<life, released>>
  /\ PageWrites(w)

(***************************************************************************)
(* Sliders.  A key that any row has, a deleted one too, is not given again *)
(* by create, which makes up a dated one; update refuses that of a live    *)
(* slider, and fails on that of a deleted one.                             *)
(***************************************************************************)
Dated        == "dated"  \* a key that no other row has
WithKey(k)   == {i \in SliderIds : slider[i].key = k}
LiveSlider(i)    == slider[i].key # "none" /\ ~slider[i].deleted
Served(i)    == LiveSlider(i) /\ slider[i].status = "PUBLISHED"
SliderEdits  == {"newSlider", "key", "air", "withdraw"}

SliderRead(w, e) == Begins(w, e) /\ UNCHANGED <<pageVars, slideVars, menu, meddled>>
SliderWrites(w)  == Meddles(w, "slider", SliderEdits) /\ EndsEdit(w) /\ UNCHANGED <<pageVars, slide, menu>>

CreateSlider(w, k) ==
  SliderRead(w, [NoChange EXCEPT !.do = "newSlider", !.slug = IF WithKey(k) = {} THEN k ELSE Dated])

WriteSlider(w) ==
  LET k == editing[w].slug IN
  /\ Does(w, "newSlider")
  /\ \/ k # Dated /\ WithKey(k) # {} /\ UNCHANGED slider
     \/ /\ k = Dated \/ WithKey(k) = {}
        /\ \E i \in WithKey("none") : /\ \A j \in WithKey("none") : i =< j
                                      /\ slider' = [slider EXCEPT ![i].key = k]
  /\ SliderWrites(w)

RenameSlider(w, i, k) ==
  /\ LiveSlider(i) /\ slider[i].key # k /\ \A j \in WithKey(k) : ~LiveSlider(j)
  /\ SliderRead(w, [NoChange EXCEPT !.do = "key", !.on = i, !.slug = k])

WriteKey(w) ==
  LET e == editing[w] IN
  /\ Does(w, "key")
  /\ slider' = IF WithKey(e.slug) \ {e.on} = {} THEN [slider EXCEPT ![e.on].key = e.slug] ELSE slider
  /\ SliderWrites(w)

SetSliderStatus(w, i, status) ==
  LiveSlider(i) /\ SliderRead(w, [NoChange EXCEPT !.do = "air", !.on = i, !.status = status])

WithdrawSlider(w, i) ==
  LiveSlider(i) /\ SliderRead(w, [NoChange EXCEPT !.do = "withdraw", !.on = i, !.status = "ARCHIVED"])

WriteSliderStatus(w) ==
  LET e == editing[w] IN
  /\ e.do \in {"air", "withdraw"}
  /\ slider' = [slider EXCEPT ![e.on].status = e.status, ![e.on].deleted = @ \/ e.do = "withdraw"]
  /\ SliderWrites(w)

(***************************************************************************)
(* The slides: one is added behind the last, an editor may type a place,   *)
(* and they are put in the order the editor lists.                         *)
(***************************************************************************)
Slides == {i \in SlideIds : slide[i] >= 0}

NextOrder == IF Slides = {} THEN 0
             ELSE 1 + slide[CHOOSE i \in Slides : \A j \in Slides : slide[j] =< slide[i]]

SlideEdits == {"add", "sort"}

AddItem(w) ==
  /\ Begins(w, [NoChange EXCEPT !.do = "add", !.on = NextOrder])
  /\ UNCHANGED <<pageVars, slideVars, menu, meddled>>

WriteItem(w) ==
  /\ Does(w, "add")
  /\ \E i \in SlideIds : /\ slide[i] = NoSlide /\ \A j \in SlideIds : j < i => slide[j] # NoSlide
                         /\ slide' = [slide EXCEPT ![i] = editing[w].on]
  /\ Meddles(w, "slide", SlideEdits) /\ EndsEdit(w)
  /\ UNCHANGED <<pageVars, slider, menu>>

RemoveItem(i) ==
  /\ i \in Slides /\ slide' = [slide EXCEPT ![i] = GoneSlide]
  /\ UNCHANGED <<pageVars, slider, menu, editing, meddled>>

\* updateItem with an order: whether another slide has it is not asked.
UpdateItem(i, n) ==
  /\ i \in Slides /\ slide' = [slide EXCEPT ![i] = n]
  /\ meddled' = meddled \cup IF \/ \E j \in Slides \ {i} : slide[j] = n
                                \/ \E w \in Writers : editing[w].do \in SlideEdits THEN {"slide"} ELSE {}
  /\ UNCHANGED <<pageVars, slider, menu, editing>>

Orders(S) == {o \in [1 .. Cardinality(S) -> S] : {o[n] : n \in 1 .. Cardinality(S)} = S}

\* Every slide listed must be one of the slider's; one that is not listed keeps its place.
ReorderItems(w, S) ==
  /\ S # {} /\ S \subseteq Slides
  /\ \E o \in Orders(S) : Begins(w, [NoChange EXCEPT !.do = "sort", !.order = o, !.flag = S = Slides])
  /\ UNCHANGED <<pageVars, slideVars, menu, meddled>>

\* Deleted meanwhile, a slide stays deleted: its order is written all the same.
WriteOrder(w) ==
  LET o == editing[w].order
  IN /\ Does(w, "sort")
     /\ slide' = [i \in SlideIds |->
          IF slide[i] >= 0 /\ \E n \in DOMAIN o : o[n] = i
          THEN (CHOOSE n \in DOMAIN o : o[n] = i) - 1 ELSE slide[i]]
     /\ meddled' = meddled \cup IF editing[w].flag /\ \A v \in Writers \ {w} : editing[v].do \notin SlideEdits
                                THEN {} ELSE {"slide"}
     /\ EndsEdit(w)
     /\ UNCHANGED <<pageVars, slider, menu>>

(***************************************************************************)
(* The menu of a location: upsert, setActive and remove.                   *)
(***************************************************************************)
MenuEdits == {"upsert", "active", "drop"}

EditMenu(w, what, active) ==
  /\ what # "upsert" => menu.exists /\ ~menu.deleted
  /\ Begins(w, [NoChange EXCEPT !.do = what, !.flag = active])
  /\ UNCHANGED <<pageVars, slideVars, menu, meddled>>

WriteMenu(w) ==
  LET e == editing[w]
  IN /\ e.do \in MenuEdits
     /\ menu' = CASE e.do = "upsert" -> [exists |-> TRUE, active |-> e.flag, deleted |-> FALSE]
                  [] e.do = "active" -> [menu EXCEPT !.active = e.flag]
                  [] OTHER           -> [menu EXCEPT !.active = FALSE, !.deleted = TRUE]
     /\ Meddles(w, "menu", MenuEdits) /\ EndsEdit(w)
     /\ UNCHANGED <<pageVars, slideVars>>

-----------------------------------------------------------------------------
PageNext ==
  \E w \in Writers :
    \/ \E s \in Slugs, system \in BOOLEAN : CreatePage(w, s, system)
    \/ \E i \in PageIds, status \in PageStates : SetPageStatus(w, i, status)
    \/ \E i \in PageIds, s \in Slugs : MovePage(w, i, s)
    \/ \E i \in PageIds : RemovePage(w, i)
    \/ WriteNewPage(w) \/ WritePageStatus(w) \/ WriteSlug(w) \/ WriteRemoval(w)

SliderNext ==
  \E w \in Writers :
    \/ \E k \in Slugs : CreateSlider(w, k) \/ \E i \in SliderIds : RenameSlider(w, i, k)
    \/ \E i \in SliderIds : WithdrawSlider(w, i) \/ \E st \in PageStates : SetSliderStatus(w, i, st)
    \/ WriteSlider(w) \/ WriteKey(w) \/ WriteSliderStatus(w)

SlideNext ==
  \/ \E w \in Writers :
       \/ AddItem(w) \/ WriteItem(w) \/ WriteOrder(w)
       \/ \E S \in SUBSET SlideIds : ReorderItems(w, S)
  \/ \E i \in SlideIds : RemoveItem(i) \/ \E n \in 0 .. MaxSlides : UpdateItem(i, n)

MenuNext ==
  \E w \in Writers :
    \/ \E what \in MenuEdits, active \in BOOLEAN : EditMenu(w, what, active)
    \/ WriteMenu(w)

ContentSpec == ContentInit /\ [][PageNext \/ SliderNext \/ SlideNext \/ MenuNext]_contentVars

-----------------------------------------------------------------------------
\* Every variable has its type.
ContentTypeOK ==
  /\ pages \in [PageIds -> [slug : Slugs \cup {"none"}, status : PageStates, system : BOOLEAN,
                           deleted : BOOLEAN]]
  /\ life.next \in 1 .. MaxLives + 1 /\ life.of \in [PageIds -> 0 .. MaxLives]
  /\ released \in [PageIds -> 0 .. MaxLives]
  /\ slider \in [SliderIds -> [key : Slugs \cup {"none", Dated}, status : PageStates,
                              deleted : BOOLEAN]]
  /\ slide \in [SlideIds -> -2 .. 2 * MaxSlides]
  /\ menu \in [exists : BOOLEAN, active : BOOLEAN, deleted : BOOLEAN]
  /\ \A w \in Writers : editing[w].do \in {"idle"} \cup PageEdits \cup SliderEdits \cup SlideEdits \cup MenuEdits
  /\ meddled \subseteq {"page", "slider", "slide", "menu"}

\* What visitors see was meant for them, as long as no two requests wrote the same thing at
\* the same time: a page that is served was published in this life, not in one before it was
\* deleted, and a system page is never deleted; a slider that was withdrawn is not published
\* again; no two slides share a place, unless a list left some out or an editor chose so; and a
\* menu that was removed is not shown.  A key never has two sliders to be served, whoever wrote.
ShownAsEdited ==
  /\ "page" \notin meddled => \A i \in PageIds :
       /\ LivePage(i) /\ pages[i].status = "PUBLISHED" => released[i] = life.of[i]
       /\ pages[i].system => ~pages[i].deleted
  /\ \A k \in Slugs : Cardinality({i \in WithKey(k) : Served(i)}) =< 1
  /\ "slider" \notin meddled => \A i \in SliderIds : slider[i].deleted => slider[i].status = "ARCHIVED"
  /\ "slide" \notin meddled => \A i, j \in Slides : slide[i] = slide[j] => i = j
  /\ "menu" \notin meddled => ~(menu.deleted /\ menu.active)
=============================================================================
