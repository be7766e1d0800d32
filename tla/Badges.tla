------------------------------- MODULE Badges -------------------------------
(***************************************************************************)
(* LabelService, CollectionService and SalesStatsService: an automatic     *)
(* label and a smart collection show the products a rule matches.  Each    *)
(* instance of the server keeps the automatic labels for TTL; an edit      *)
(* clears the copy of the instance that handles it and no other.  A sweep  *)
(* recomputes the units sold, first zeroing every product.                 *)
(*                                                                         *)
(* One label, one collection and one product.  Left out: labels assigned   *)
(* by hand, wording, order and slugs.  The rules come first.               *)
(***************************************************************************)
EXTENDS Integers, Sequences, FiniteSets

(***************************************************************************)
(* catalog-rules/rule-engine.ts: one rule, evaluated in two ways.  A smart *)
(* collection turns it into a database filter; a label evaluates it in     *)
(* memory over a product that was already fetched.                         *)
(*                                                                         *)
(* A condition is [field, op, n, ids]: n is the value of a number or of a  *)
(* flag (1 or 0), ids the ids of an id or of a list of ids.  A product is  *)
(* a projection [onSale, age, category, tags, price, units]; age is in     *)
(* half days, a category of "none" and a price of -1 are null.  isFeatured *)
(* is like onSale, brandId like categoryId, unitsSold30d like unitsSold7d. *)
(***************************************************************************)
Fields == {"onSale", "ageDays", "categoryId", "tagId", "price", "unitsSold7d"}
Ops    == {"eq", "neq", "lt", "lte", "gt", "gte", "in"}

NoRule == [match |-> "none", conditions |-> <<>>]

\* validateRuleSet: a rule without a condition is refused, any field takes any operator,
\* and one id is wanted where the operator is not "in".
ValidRule(r) ==
  /\ r.match \in {"ALL", "ANY"} /\ r.conditions # <<>>
  /\ \A k \in DOMAIN r.conditions :
       LET c == r.conditions[k] IN
       /\ c.field \in Fields /\ c.op \in Ops
       /\ c.field \in {"categoryId", "tagId"} /\ c.op # "in" => \E i \in c.ids : c.ids = {i}

----------------------------------------------------------------------------
(* The database: a comparison with NULL selects nothing.                   *)

NumericFilter(a, op, b) ==
  \/ op \in {"lt", "lte"} /\ a < b
  \/ op \in {"gt", "gte"} /\ a > b
  \/ op \in {"lte", "gte", "eq", "in"} /\ a = b
  \/ op = "neq" /\ a # b

IdFilter(id, c) == id # "none" /\ (IF c.op = "neq" THEN id \notin c.ids ELSE id \in c.ids)

\* Ages have inclusive bounds only, and no bound for the other operators.
AgeFilter(age, c) ==
  /\ c.op \in {"lt", "lte"} => age <= 2 * c.n
  /\ c.op \in {"gt", "gte"} => age >= 2 * c.n

Selected(p, c) ==
  \/ c.field = "onSale"      /\ p.onSale = (c.n = 1)
  \/ c.field = "ageDays"     /\ AgeFilter(p.age, c)
  \/ c.field = "price"       /\ p.price # -1 /\ NumericFilter(p.price, c.op, c.n)
  \/ c.field = "unitsSold7d" /\ NumericFilter(p.units, c.op, c.n)
  \/ c.field = "categoryId"  /\ IdFilter(p.category, c)
  \/ c.field = "tagId"       /\ p.tags \intersect c.ids # {}

RuleSelects(r, p) ==
  \/ r.match = "ALL" /\ \A k \in DOMAIN r.conditions : Selected(p, r.conditions[k])
  \/ r.match = "ANY" /\ \E k \in DOMAIN r.conditions : Selected(p, r.conditions[k])

----------------------------------------------------------------------------
(* The predicate in memory.                                                *)

CompareNumber(a, op, b) ==
  CASE op = "lt"  -> a < b
    [] op = "lte" -> a <= b
    [] op = "gt"  -> a > b
    [] op = "gte" -> a >= b
    [] op = "neq" -> a # b
    [] OTHER      -> a = b

IdMatches(id, c) == IF c.op = "neq" THEN id \notin c.ids ELSE id \in c.ids

ConditionMatches(p, c) ==
  CASE c.field = "onSale"      -> p.onSale = (c.n = 1)
    [] c.field = "ageDays"     -> CompareNumber(p.age, c.op, 2 * c.n)
    [] c.field = "price"       -> p.price # -1 /\ CompareNumber(p.price, c.op, c.n)
    [] c.field = "unitsSold7d" -> CompareNumber(p.units, c.op, c.n)
    [] c.field = "categoryId"  -> IdMatches(p.category, c)
    [] c.field = "tagId"       -> p.tags \intersect c.ids # {}

RuleMatches(p, r) ==
  LET results == {ConditionMatches(p, r.conditions[k]) : k \in DOMAIN r.conditions} IN
  r.conditions # <<>> /\ (IF r.match = "ANY" THEN TRUE \in results ELSE FALSE \notin results)

----------------------------------------------------------------------------
\* Where the two evaluators are known to differ: "not this one" of a product without any, and
\* ages, which the database compares inclusively and only by order.
Drifts(r, p) ==
  \E k \in DOMAIN r.conditions :
    LET c == r.conditions[k] IN
    \/ c.field = "categoryId" /\ c.op = "neq" /\ p.category = "none"
    \/ c.field = "ageDays" /\ (c.op \in {"eq", "neq", "in"} \/ p.age = 2 * c.n)

-----------------------------------------------------------------------------
(***************************************************************************)
(* Labels, collections and the sweep.                                      *)
(***************************************************************************)
CONSTANTS
  Servers,      \* instances of the program, each with its cache
  Visitors,     \* requests and sweeps handled at the same time
  RuleSets,     \* rules an administrator may write
  Drafts,       \* those written here
  Things,       \* projections a product may have, its units aside
  TTL,          \* AUTO_CACHE_TTL_MS
  MaxClock,     \* bound: the clock
  MaxRuleEdits, \* bound: writes of the label and of the collection
  MaxSold       \* bound: units sold

ASSUME BadgeConstantsOK == /\ Drafts \subseteq RuleSets
                           /\ TTL \in Nat \ {0} /\ {MaxClock, MaxRuleEdits, MaxSold} \subseteq Nat

Versions == 0 .. MaxRuleEdits

VARIABLES
  clock,
  thing,      \* the product, without its units
  units,      \* Product.unitsSold7d
  label,      \* the Label row
  ended,      \* when each of its versions was replaced, -1 for the current one and the coming ones
  version,
  cache,      \* autoCache of each instance: when its load began, and the version loaded
  shelf,      \* the Collection row
  shelves,    \* times it was written
  job,        \* what each request is doing
  summed,     \* history: the sum the last sweep wrote
  badgeSlips  \* history: "label", "shelf", "units" when an excuse below applied, and
              \* "outdated" when a cache showed a version replaced TTL or longer ago

badgeVars == <<clock, thing, units, label, ended, version, cache, shelf, shelves, job,
               summed, badgeSlips>>
labelVars == <<label, ended, version>>
shelfVars == <<shelf, shelves>>
statVars  == <<units, summed>>

NoLabel == [is |-> "none", type |-> "MANUAL", rule |-> NoRule]
NoShelf == [is |-> "none", type |-> "MANUAL", rule |-> NoRule, member |-> FALSE]
NoCopy  == [at |-> -1, of |-> -1]
NoJob   == [do |-> "idle", on |-> "none", at |-> 0, of |-> -1, was |-> "none", sum |-> 0]
Working(v, what) == job[v].do = what
Editable      == version + shelves < MaxRuleEdits
Free(v)       == job' = [job EXCEPT ![v] = NoJob]
Slips(s, if)  == badgeSlips' = IF if THEN badgeSlips \union {s} ELSE badgeSlips

BadgesInit ==
  /\ clock = 0 /\ thing \in Things /\ units = 0
  /\ label = NoLabel /\ version = 0 /\ ended = [k \in Versions |-> -1]
  /\ cache = [s \in Servers |-> NoCopy]
  /\ shelf = NoShelf /\ shelves = 0
  /\ job = [v \in Visitors |-> NoJob]
  /\ summed = 0 /\ badgeSlips = {}

BadgeTick ==
  /\ clock < MaxClock /\ clock' = clock + 1
  /\ UNCHANGED <<thing, statVars, labelVars, cache, shelfVars, job, badgeSlips>>

\* A seller edits the product, or it grows older.
ThingChanges ==
  /\ thing' \in Things \ {thing}
  /\ UNCHANGED <<clock, statVars, labelVars, cache, shelfVars, job, badgeSlips>>

(***************************************************************************)
(* Edits.  An update reads the row's type first.                           *)
(***************************************************************************)
\* What an update writes: a rule is wanted, and must be valid, when the type after it is the
\* one that has rules and the type or the rule is given.
Ruled(row, was, auto, t, r) ==
  LET next  == IF t = "same" THEN was ELSE t
      given == t # "same" \/ r # NoRule
  IN [row EXCEPT !.type = IF t = "same" THEN @ ELSE t,
                 !.rule = IF ~given THEN @ ELSE IF next = auto THEN r ELSE NoRule]

RuleAccepted(was, auto, t, r) ==
  (t # "same" \/ r # NoRule) /\ (IF t = "same" THEN was ELSE t) = auto => ValidRule(r)

\* The label is written, and the instance drops its copy.
WriteLabelRow(s, row) ==
  /\ Editable /\ version' = version + 1
  /\ ended' = [ended EXCEPT ![version] = clock]
  /\ label' = row
  /\ cache' = [cache EXCEPT ![s] = NoCopy]

\* create: the key is free, and stays taken once the label is deleted.
CreateLabel(s) ==
  /\ label.is = "none"
  /\ \E t \in {"MANUAL", "AUTO"}, r \in Drafts :
       /\ t = "AUTO" => ValidRule(r)
       /\ WriteLabelRow(s, [is |-> "live", type |-> t,
                            rule |-> IF t = "AUTO" THEN r ELSE NoRule])
  /\ UNCHANGED <<clock, thing, statVars, shelfVars, job, badgeSlips>>

ReadLabel(v, s) ==
  /\ Working(v, "idle") /\ label.is = "live" /\ Editable
  /\ job' = [job EXCEPT ![v] = [NoJob EXCEPT !.do = "label", !.on = s, !.was = label.type]]
  /\ UNCHANGED <<clock, thing, statVars, labelVars, cache, shelfVars, badgeSlips>>

UpdateLabel(v) ==
  /\ Working(v, "label")
  /\ \E t \in {"same", "MANUAL", "AUTO"}, r \in Drafts \union {NoRule} :
       /\ RuleAccepted(job[v].was, "AUTO", t, r)
       /\ WriteLabelRow(job[v].on, Ruled(label, job[v].was, "AUTO", t, r))
  /\ Slips("label", label.type # job[v].was)
  /\ Free(v)
  /\ UNCHANGED <<clock, thing, statVars, shelfVars>>

RemoveLabel(s) ==
  /\ label.is = "live"
  /\ WriteLabelRow(s, [label EXCEPT !.is = "gone"])
  /\ UNCHANGED <<clock, thing, statVars, shelfVars, job, badgeSlips>>

CreateShelf ==
  /\ shelf.is = "none" /\ Editable /\ shelves' = shelves + 1
  /\ \E t \in {"MANUAL", "SMART"}, r \in Drafts, m \in BOOLEAN :
       /\ t = "SMART" => ValidRule(r)
       /\ shelf' = [is |-> "live", type |-> t, rule |-> IF t = "SMART" THEN r ELSE NoRule,
                    member |-> m /\ t = "MANUAL"]
  /\ UNCHANGED <<clock, thing, statVars, labelVars, cache, job, badgeSlips>>

ReadShelf(v) ==
  /\ Working(v, "idle") /\ shelf.is = "live" /\ Editable
  /\ job' = [job EXCEPT ![v] = [NoJob EXCEPT !.do = "shelf", !.was = shelf.type]]
  /\ UNCHANGED <<clock, thing, statVars, labelVars, cache, shelfVars, badgeSlips>>

\* The products given, kept only when the type after the update is MANUAL; none given: a smart
\* collection has none.
UpdateShelf(v) ==
  /\ Working(v, "shelf") /\ Editable /\ shelves' = shelves + 1
  /\ \E t \in {"same", "MANUAL", "SMART"}, r \in Drafts \union {NoRule},
        ids \in {"absent", "with", "without"} :
       LET next == IF t = "same" THEN job[v].was ELSE t IN
       /\ RuleAccepted(job[v].was, "SMART", t, r)
       /\ shelf' = [Ruled(shelf, job[v].was, "SMART", t, r) EXCEPT
                      !.member = next = "MANUAL" /\ (IF ids = "absent" THEN @ ELSE ids = "with")]
  /\ Slips("shelf", shelf.type # job[v].was)
  /\ Free(v)
  /\ UNCHANGED <<clock, thing, statVars, labelVars, cache>>

RemoveShelf ==
  /\ shelf.is = "live" /\ Editable /\ shelves' = shelves + 1
  /\ shelf' = [shelf EXCEPT !.is = "gone"]
  /\ UNCHANGED <<clock, thing, statVars, labelVars, cache, job, badgeSlips>>

(***************************************************************************)
(* getEnabledAutoLabels.                                                   *)
(***************************************************************************)
UpToDate(s) == cache[s].of # -1 /\ clock - cache[s].at < TTL

\* A badge from the copy.
BadgeFromCache(s) ==
  /\ UpToDate(s)
  /\ LET of == cache[s].of IN Slips("outdated", ended[of] # -1 /\ clock - ended[of] >= TTL)
  /\ UNCHANGED <<clock, thing, statVars, labelVars, cache, shelfVars, job>>

\* A load: the time is taken,
StartLoad(v, s) ==
  /\ Working(v, "idle") /\ ~UpToDate(s)
  /\ job' = [job EXCEPT ![v] = [NoJob EXCEPT !.do = "load", !.on = s, !.at = clock]]
  /\ UNCHANGED <<clock, thing, statVars, labelVars, cache, shelfVars, badgeSlips>>

\* the labels are read,
ReadLabels(v) ==
  /\ Working(v, "load")
  /\ job' = [job EXCEPT ![v].do = "keep", ![v].of = version]
  /\ UNCHANGED <<clock, thing, statVars, labelVars, cache, shelfVars, badgeSlips>>

\* Slip: the copy counts from when the answer came.
CopyFromNow(v) == [at |-> clock, of |-> job[v].of]

CopyOf(v) == [at |-> job[v].at, of |-> job[v].of]

\* and kept, over whatever an edit or another load left there meanwhile.
KeepLabels(v) ==
  /\ Working(v, "keep")
  /\ cache' = [cache EXCEPT ![job[v].on] = CopyOf(v)]
  /\ Free(v)
  /\ UNCHANGED <<clock, thing, statVars, labelVars, shelfVars, badgeSlips>>

(***************************************************************************)
(* recomputeAll.                                                           *)
(***************************************************************************)
Sweeping == {v \in Visitors : job[v].do \in {"reset", "apply"}}

\* The order items of the window are summed; an instance that is sweeping does not start again.
SumSales(v, s) ==
  /\ Working(v, "idle") /\ \A o \in Sweeping : job[o].on # s
  /\ \E n \in 0 .. MaxSold :
       job' = [job EXCEPT ![v] = [NoJob EXCEPT !.do = "reset", !.on = s, !.sum = n]]
  /\ Slips("units", Sweeping # {})
  /\ UNCHANGED <<clock, thing, statVars, labelVars, cache, shelfVars>>

ResetUnits(v) ==
  /\ Working(v, "reset")
  /\ units' = 0 /\ job' = [job EXCEPT ![v].do = "apply"]
  /\ UNCHANGED <<clock, thing, summed, labelVars, cache, shelfVars, badgeSlips>>

ApplyUnits(v) ==
  /\ Working(v, "apply")
  /\ units' = job[v].sum /\ summed' = job[v].sum
  /\ Free(v)
  /\ UNCHANGED <<clock, thing, labelVars, cache, shelfVars, badgeSlips>>

\* A request dies; a sweep that dies after the reset leaves the product at zero.
JobDies(v) ==
  /\ ~Working(v, "idle") /\ Free(v)
  /\ Slips("units", v \in Sweeping)
  /\ UNCHANGED <<clock, thing, statVars, labelVars, cache, shelfVars>>

LabelNext ==
  \/ BadgeTick
  \/ \E s \in Servers : CreateLabel(s) \/ RemoveLabel(s) \/ BadgeFromCache(s)
  \/ \E v \in Visitors, s \in Servers : ReadLabel(v, s) \/ StartLoad(v, s)
  \/ \E v \in Visitors : UpdateLabel(v) \/ ReadLabels(v) \/ KeepLabels(v) \/ JobDies(v)

ShelfNext ==
  \/ ThingChanges \/ CreateShelf \/ RemoveShelf
  \/ \E v \in Visitors, s \in Servers : SumSales(v, s)
  \/ \E v \in Visitors : \/ ReadShelf(v) \/ UpdateShelf(v)
                         \/ ResetUnits(v) \/ ApplyUnits(v) \/ JobDies(v)

BadgesNext == LabelNext \/ ShelfNext

BadgesSpec == BadgesInit /\ [][BadgesNext]_badgeVars

----------------------------------------------------------------------------
\* Types: LabelService, CollectionService, SalesStatsService.
BadgesTypeOK ==
  /\ clock \in 0 .. MaxClock /\ thing \in Things
  /\ {units, summed} \subseteq 0 .. MaxSold
  /\ label.is \in {"none", "live", "gone"} /\ label.type \in {"MANUAL", "AUTO"}
  /\ label.rule \in Drafts \union {NoRule}
  /\ version \in Versions /\ ended \in [Versions -> -1 .. MaxClock]
  /\ \A s \in Servers : cache[s].of \in -1 .. version /\ cache[s].at \in -1 .. clock
  /\ shelf.type \in {"MANUAL", "SMART"} /\ shelf.rule \in Drafts \union {NoRule}
  /\ shelves \in Versions
  /\ badgeSlips \subseteq {"label", "shelf", "units", "outdated"}

\* "One rule, two surfaces": for every rule an administrator can save, the database filter of a
\* smart collection selects the product exactly when the predicate of an automatic label
\* matches it, except in the cases Drifts names (ruleToPrismaWhere, productMatchesRule).
SurfacesAgree ==
  LET p == [onSale |-> thing.onSale, age |-> thing.age, category |-> thing.category,
            tags |-> thing.tags, price |-> thing.price, units |-> units] IN
  \A r \in RuleSets : ValidRule(r) /\ ~Drifts(r, p) => (RuleSelects(r, p) <=> RuleMatches(p, r))

\* A badge shown from an instance's copy is at most TTL out of date, whichever instance handled
\* the edit and however slow the load that filled the copy was (getEnabledAutoLabels); a row
\* holds a rule exactly when its type has rules, unless an update chose by a type that had
\* changed since; and after a sweep the units are the sum it read, unless sweeps overlapped or
\* one died.
SignalsHold ==
  /\ "outdated" \notin badgeSlips
  /\ "label" \notin badgeSlips => (label.type = "AUTO" <=> label.rule # NoRule)
  /\ "shelf" \notin badgeSlips => /\ shelf.type = "SMART" <=> shelf.rule # NoRule
                                  /\ shelf.type = "SMART" => ~shelf.member
  /\ "units" \notin badgeSlips /\ Sweeping = {} => units = summed
=============================================================================
