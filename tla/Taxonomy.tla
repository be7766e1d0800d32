------------------------------ MODULE Taxonomy ------------------------------
(***************************************************************************)
(* CategoryService, the value half of AttributeService and the places in   *)
(* ProductService that rely on them: the tree of categories that the shop  *)
(* filter climbs and a category page descends, and one attribute with its  *)
(* values, which variants are linked to.                                   *)
(*                                                                         *)
(* Left out: slugs, order among siblings, isActive (an inactive category   *)
(* is skipped where a deleted one is) and searching.  Names, which several *)
(* services keep alike, are the second part.                               *)
(***************************************************************************)
EXTENDS Integers, FiniteSets

CONSTANTS
  Cats,        \* categories
  Root,        \* no parent
  Values,      \* values of the attribute
  Curators,    \* requests handled at the same time
  MaxReshapes, \* bound: changes of the tree
  Depth        \* how far the shop filter climbs: 15

ASSUME TaxonomyConstantsOK == Root \notin Cats /\ MaxReshapes \in Nat /\ Depth \in Nat \ {0}

VARIABLES
  parent,     \* Category.parentId
  binned,     \* deleted categories
  reshapes,
  valueType,       \* the attribute: "SELECT" or "BOOLEAN"
  attr,       \* "live" or "gone"
  offered,    \* its values that are not deleted
  linked,     \* values some variant is linked to
  curator,    \* what each request is about to write
  hung,       \* a walk that does not end: the process answers nothing any more
  treeSlips   \* history: "tree" when updateTree wrote, "overlap" when a write rested on a tree,
              \* an attribute or values that had changed since they were read

taxonomyVars == <<parent, binned, reshapes, valueType, attr, offered, linked, curator, hung, treeSlips>>
treeVars     == <<parent, binned, reshapes, hung>>
valueVars    == <<valueType, attr, offered, linked>>

NoChore == [do |-> "idle", cat |-> Root, under |-> Root, at |-> 0, value |-> "none", saw |-> <<>>]
Tasked(c, what) == curator[c].do = what
TaskEnds(c)     == curator' = [curator EXCEPT ![c] = NoChore]
TreeSlip(s, if) == treeSlips' = IF if THEN treeSlips \union {s} ELSE treeSlips
Witnessed            == <<valueType, attr, offered, linked>>

\* The categories met when climbing from c, c included; Root is met when the climb ends.
Climb(tree, c) ==
  LET up[k \in 0 .. Cardinality(Cats) + 1] ==
        IF k = 0 THEN {c} ELSE up[k - 1] \union {tree[x] : x \in up[k - 1] \ {Root}}
  IN up[Cardinality(Cats) + 1]

Acyclic(tree) == \A c \in Cats : Root \in Climb(tree, c)

TaxonomyInit ==
  /\ parent \in {tree \in [Cats -> Cats \union {Root}] : Acyclic(tree)} /\ binned = {} /\ reshapes = 0
  /\ valueType = "SELECT" /\ attr = "live" /\ offered = {} /\ linked = {}
  /\ curator = [c \in Curators |-> NoChore]
  /\ hung = FALSE /\ treeSlips = {}

(***************************************************************************)
(* The tree.                                                               *)
(***************************************************************************)
Meets(tree, under, cat) == cat \in Climb(tree, under)

\* update: every category is read, deleted ones too, and the walk from the new parent refuses
\* to meet the category; on a tree with a cycle elsewhere it never ends.
CheckMove(c) ==
  /\ Tasked(c, "idle") /\ reshapes < MaxReshapes
  /\ \E cat \in Cats, under \in Cats \union {Root} :
       /\ under = Root \/ ~Meets(parent, under, cat)
       /\ IF under = Root \/ Root \in Climb(parent, under)
          THEN /\ curator' = [curator EXCEPT ![c] = [NoChore EXCEPT
                    !.do = "move", !.cat = cat, !.under = under, !.at = reshapes]]
               /\ UNCHANGED hung
          ELSE hung' = TRUE /\ UNCHANGED curator
  /\ UNCHANGED <<parent, binned, reshapes, valueVars, treeSlips>>

MoveCategory(c) ==
  /\ Tasked(c, "move") /\ reshapes < MaxReshapes /\ reshapes' = reshapes + 1
  /\ parent' = [parent EXCEPT ![curator[c].cat] = curator[c].under]
  /\ TreeSlip("overlap", curator[c].under # Root /\ reshapes # curator[c].at)
  /\ TaskEnds(c)
  /\ UNCHANGED <<binned, hung, valueVars>>

\* updateTree writes what it is given, in one transaction.
UpdateTree ==
  /\ reshapes < MaxReshapes /\ reshapes' = reshapes + 1
  /\ \E tree \in [Cats -> Cats \union {Root}] : tree # parent /\ parent' = tree
  /\ TreeSlip("tree", TRUE)
  /\ UNCHANGED <<binned, hung, valueVars, curator>>

\* remove: the children stay where they are.
RemoveCategory ==
  /\ \E cat \in Cats \ binned : binned' = binned \union {cat}
  /\ UNCHANGED <<parent, reshapes, hung, valueVars, curator, treeSlips>>

\* findShopFilterCategories: the last category met within Depth steps; a deleted one is met and
\* has no parent in the map.
ShopRoot(c) ==
  LET up[k \in 0 .. Depth] == IF k = 0 THEN c
                              ELSE IF up[k - 1] \in binned \/ parent[up[k - 1]] = Root THEN up[k - 1]
                              ELSE parent[up[k - 1]]
  IN up[Depth - 1]

FilterRoots(c) == {ShopRoot(c)} \ binned

\* buildCategoryDescendantFilter: a live category and what hangs below it through live ones.
Descendants(r) ==
  LET down[k \in 0 .. Cardinality(Cats)] ==
        IF k = 0 THEN {r} ELSE down[k - 1] \union {c \in Cats \ binned : parent[c] \in down[k - 1]}
  IN IF r \in binned THEN {} ELSE down[Cardinality(Cats)]

(***************************************************************************)
(* The attribute.                                                          *)
(***************************************************************************)
Looks(c, what, v) ==
  curator' = [curator EXCEPT ![c] = [NoChore EXCEPT !.do = what, !.value = v, !.saw = Witnessed]]

Stale(c) == TreeSlip("overlap", curator[c].saw # Witnessed)

\* addValue looks at the attribute and its type, then creates;
CheckValue(c) ==
  /\ Tasked(c, "idle") /\ attr = "live" /\ valueType # "BOOLEAN"
  /\ \E v \in Values \ offered : Looks(c, "offer", v)
  /\ UNCHANGED <<treeVars, valueVars, treeSlips>>

AddValue(c) ==
  /\ Tasked(c, "offer") /\ Stale(c) /\ TaskEnds(c)
  /\ offered' = offered \union {curator[c].value}
  /\ UNCHANGED <<treeVars, valueType, attr, linked>>

\* removeValue counts the variants linked to it, then deletes;
CheckRemoveValue(c) ==
  /\ Tasked(c, "idle")
  /\ \E v \in offered \ linked : Looks(c, "withdraw", v)
  /\ UNCHANGED <<treeVars, valueVars, treeSlips>>

RemoveValue(c) ==
  /\ Tasked(c, "withdraw") /\ Stale(c) /\ TaskEnds(c)
  /\ offered' = offered \ {curator[c].value}
  /\ UNCHANGED <<treeVars, valueType, attr, linked>>

MayTurn(to) == to = "BOOLEAN" => offered = {}

\* update counts the values before the type turns to BOOLEAN;
CheckType(c) ==
  /\ Tasked(c, "idle") /\ attr = "live"
  /\ \E to \in {"SELECT", "BOOLEAN"} \ {valueType} : MayTurn(to) /\ Looks(c, "turn", to)
  /\ UNCHANGED <<treeVars, valueVars, treeSlips>>

TurnType(c) ==
  /\ Tasked(c, "turn") /\ Stale(c) /\ TaskEnds(c)
  /\ valueType' = curator[c].value
  /\ UNCHANGED <<treeVars, attr, offered, linked>>

\* remove counts the variants linked to any value;
CheckRemoveAttribute(c) ==
  /\ Tasked(c, "idle") /\ attr = "live" /\ linked = {} /\ Looks(c, "drop", "none")
  /\ UNCHANGED <<treeVars, valueVars, treeSlips>>

RemoveAttribute(c) ==
  /\ Tasked(c, "drop") /\ Stale(c) /\ TaskEnds(c)
  /\ attr' = "gone"
  /\ UNCHANGED <<treeVars, valueType, offered, linked>>

\* and a variant is created with a value found live, whatever became of the attribute.
CheckVariant(c) ==
  /\ Tasked(c, "idle")
  /\ \E v \in offered : Looks(c, "link", v)
  /\ UNCHANGED <<treeVars, valueVars, treeSlips>>

LinkVariant(c) ==
  /\ Tasked(c, "link") /\ Stale(c) /\ TaskEnds(c)
  /\ linked' = linked \union {curator[c].value}
  /\ UNCHANGED <<treeVars, valueType, attr, offered>>

TreeNext ==
  \/ UpdateTree \/ RemoveCategory
  \/ \E c \in Curators : CheckMove(c) \/ MoveCategory(c)

ValueNext ==
  \E c \in Curators :
    \/ CheckValue(c) \/ AddValue(c) \/ CheckRemoveValue(c) \/ RemoveValue(c) \/ CheckType(c) \/ TurnType(c)
    \/ CheckRemoveAttribute(c) \/ RemoveAttribute(c) \/ CheckVariant(c) \/ LinkVariant(c)

TaxonomyNext == ~hung /\ (TreeNext \/ ValueNext)

TaxonomySpec == TaxonomyInit /\ [][TaxonomyNext]_taxonomyVars

----------------------------------------------------------------------------
\* Types: CategoryService, AttributeService.
TaxonomyTypeOK ==
  /\ parent \in [Cats -> Cats \union {Root}] /\ binned \subseteq Cats /\ reshapes \in 0 .. MaxReshapes
  /\ valueType \in {"SELECT", "BOOLEAN"} /\ attr \in {"live", "gone"}
  /\ offered \subseteq Values /\ linked \subseteq Values
  /\ hung \in BOOLEAN /\ treeSlips \subseteq {"tree", "overlap"}

\* Unless the tree was written unchecked (updateTree) or a move rested on a tree that had
\* changed, no category is its own ancestor and no walk runs for ever, so that the shop filter
\* counts a category under exactly the root whose page shows it (update's cycle check,
\* findShopFilterCategories, buildCategoryDescendantFilter).
TreeStaysTree ==
  /\ treeSlips = {} => Acyclic(parent) /\ ~hung
  /\ Acyclic(parent) => \A c \in Cats \ binned, r \in Cats :
       parent[r] = Root => (r \in FilterRoots(c) <=> c \in Descendants(r))

\* Unless a request acted on a reading that had changed, a BOOLEAN attribute has no values, and
\* a value a variant is linked to exists, in an attribute that exists when the link was made
\* (addValue, removeValue, update, remove, generateVariantMatrix).
LinkedValuesStay ==
  "overlap" \notin treeSlips => /\ valueType = "BOOLEAN" => offered = {}
                                /\ linked \subseteq offered

-----------------------------------------------------------------------------
(***************************************************************************)
(* The names of brands, tags and attributes (BrandService, TagService,     *)
(* AttributeService: the same steps over three tables) and of taxes        *)
(* (TaxService).  A deleted row keeps its name, which a unique index holds *)
(* as it is spelt; that two live rows do not differ by case alone is left  *)
(* to a lookup before the write.                                           *)
(*                                                                         *)
(* A name is a word and the way it is spelt.  Left out: slugs, which get a *)
(* timestamp when taken, and descriptive fields.                           *)
(***************************************************************************)
CONSTANTS
  Words,       \* names, case aside
  Spellings,   \* ways to spell one
  Namers,      \* requests handled at the same time
  MaxNames     \* bound: rows

ASSUME NameConstantsOK == MaxNames \in Nat

NameIds == 1 .. MaxNames

VARIABLES
  table,    \* "brand" (or tag, attribute) or "tax"
  entry,    \* the rows
  naming,   \* what each request is about to write
  nameSlips \* history: "hidden" when a lookup found a deleted row and not the live one beside
            \* it, "overlap" when two requests were about to write the same word

nameVars == <<table, entry, naming, nameSlips>>

NoEntry  == [is |-> "none", word |-> "none", as |-> "none"]
NoNaming == [do |-> "idle", id |-> 0, word |-> "none", as |-> "none"]
Naming(n, what) == naming[n].do = what
Spoken(n)       == naming' = [naming EXCEPT ![n] = NoNaming]
LiveNames       == {i \in NameIds : entry[i].is = "live"}
Unused          == {i \in NameIds : entry[i].is = "none"}
SameWord(w)     == {i \in NameIds : entry[i].is # "none" /\ entry[i].word = w}
SameSpelling(w, a) == {i \in SameWord(w) : entry[i].as = a}

NamesInit ==
  /\ table \in {"brand", "tax"}
  /\ entry = [i \in NameIds |-> NoEntry]
  /\ naming = [n \in Namers |-> NoNaming]
  /\ nameSlips = {}

\* The rows a lookup may return one of: brands are compared without case, taxes by their key.
LookedUp(w, a) == IF table = "brand" THEN SameWord(w) ELSE SameSpelling(w, a)

\* The lookup returns no row or a deleted one (the first of several is whichever the database
\* returns); the request goes on.
Passes(n, w, a, but) ==
  LET found == LookedUp(w, a) \ but IN
  /\ found = {} \/ \E i \in found : entry[i].is = "gone"
  /\ nameSlips' = nameSlips
       \union (IF LiveNames \intersect found # {} THEN {"hidden"} ELSE {})
       \union (IF \E o \in Namers \ {n} : naming[o].word = w THEN {"overlap"} ELSE {})

CheckNew(n) ==
  /\ Naming(n, "idle") /\ Unused # {}
  /\ \E w \in Words, a \in Spellings :
       /\ Passes(n, w, a, {})
       /\ naming' = [naming EXCEPT ![n] =
            [id |-> 0, word |-> w, as |-> a,
             do |-> IF table = "tax" /\ SameSpelling(w, a) # {} THEN "revive" ELSE "create"]]
  /\ UNCHANGED <<table, entry>>

\* create; the unique index refuses a spelling that a row has, deleted or not.
CreateName(n) ==
  LET w == naming[n].word
      a == naming[n].as
  IN
  /\ Naming(n, "create") /\ Spoken(n)
  /\ \/ SameSpelling(w, a) # {} /\ UNCHANGED entry
     \/ SameSpelling(w, a) = {} /\ Unused # {} /\
        entry' = [entry EXCEPT ![CHOOSE i \in Unused : \A j \in Unused : i <= j] =
                    [is |-> "live", word |-> w, as |-> a]]
  /\ UNCHANGED <<table, nameSlips>>

\* A deleted tax of that name comes back; its name may have changed since it was found.
ReviveTax(n) ==
  /\ Naming(n, "revive") /\ Spoken(n)
  /\ \E i \in SameWord(naming[n].word) :
       /\ entry[i].as = naming[n].as
       /\ entry' = [entry EXCEPT ![i].is = "live"]
  /\ UNCHANGED <<table, nameSlips>>

CheckRename(n) ==
  /\ Naming(n, "idle")
  /\ \E i \in LiveNames, w \in Words, a \in Spellings :
       /\ <<w, a>> # <<entry[i].word, entry[i].as>>
       /\ Passes(n, w, a, {i})
       /\ naming' = [naming EXCEPT ![n] = [do |-> "rename", id |-> i, word |-> w, as |-> a]]
  /\ UNCHANGED <<table, entry>>

\* update, by id: the row may have been deleted meanwhile.
Rename(n) ==
  LET w == naming[n].word
      a == naming[n].as
      i == naming[n].id
  IN
  /\ Naming(n, "rename") /\ Spoken(n)
  /\ entry' = IF SameSpelling(w, a) \ {i} # {} THEN entry
              ELSE [entry EXCEPT ![i].word = w, ![i].as = a]
  /\ UNCHANGED <<table, nameSlips>>

RemoveName ==
  /\ \E i \in LiveNames : entry' = [entry EXCEPT ![i].is = "gone"]
  /\ UNCHANGED <<table, naming, nameSlips>>

NamesNext ==
  \/ RemoveName
  \/ \E n \in Namers : CheckNew(n) \/ CreateName(n) \/ ReviveTax(n) \/ CheckRename(n) \/ Rename(n)

NamesSpec == NamesInit /\ [][NamesNext]_nameVars

----------------------------------------------------------------------------
\* Types: BrandService, TagService, AttributeService, TaxService.
NamesTypeOK ==
  /\ table \in {"brand", "tax"}
  /\ \A i \in NameIds : /\ entry[i].is \in {"none", "live", "gone"}
                        /\ entry[i].is # "none" => entry[i].word \in Words /\ entry[i].as \in Spellings
  /\ \A n \in Namers : naming[n].do \in {"idle", "create", "revive", "rename"} /\ naming[n].id \in 0 .. MaxNames
  /\ nameSlips \subseteq {"hidden", "overlap"}

\* "Names are unique globally - protect against case-insensitive collisions": two live brands
\* have different names, case aside, unless a deleted row hid one of them from the lookup or
\* two requests wrote the same word at once; and no two rows are ever spelt alike.
NamesApart ==
  /\ table = "brand" /\ nameSlips = {} =>
       \A i, j \in LiveNames : entry[i].word = entry[j].word => i = j
  /\ \A i, j \in NameIds \ Unused :
       entry[i].word = entry[j].word /\ entry[i].as = entry[j].as => i = j
=============================================================================
