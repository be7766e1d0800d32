------------------------------- MODULE WaresMC --------------------------------
(***************************************************************************)
(* Small instances of Wares: the data that its parts work on.              *)
(***************************************************************************)
EXTENDS Wares, TLC

CONSTANTS w1, w2, x1, x2

Symmetry == Permutations({w1, w2})

\* Rules of one condition of each kind, of two, and of none.
Cond(f, o, n, ids) == [field |-> f, op |-> o, n |-> n, ids |-> ids]
Conds ==
  {Cond("price", o, 2, {}) : o \in {"lt", "gte", "neq", "in"}}
  \union {Cond("unitsSold7d", o, 1, {}) : o \in {"gt", "lte"}}
  \union {Cond("ageDays", o, 1, {}) : o \in {"lt", "gte", "eq"}}
  \union {Cond("categoryId", o, 0, {"k1"}) : o \in {"eq", "neq", "in"}}
  \union {Cond("tagId", "in", 0, {"t1", "t2"}), Cond("onSale", "eq", 1, {})}
MCDrafts == {[match |-> "ANY", conditions |-> <<Cond("onSale", "eq", 1, {})>>],
             [match |-> "ALL", conditions |-> <<>>]}
MCRuleSets ==
  MCDrafts \union {[match |-> "ALL", conditions |-> <<c>>] : c \in Conds}
  \union {[match |-> "ANY", conditions |-> <<Cond("categoryId", "eq", 0, {"k1"}),
                                            Cond("unitsSold7d", "gt", 0, {})>>],
          [match |-> "ALL", conditions |-> <<Cond("categoryId", "neq", 0, {"k1"}),
                                            Cond("price", "lt", 3, {})>>]}
Thing(a, c, t, p, o) == [age |-> a, category |-> c, tags |-> t, price |-> p, onSale |-> o]
MCThings == {Thing(1, "k1", {"t1"}, 2, TRUE), Thing(3, "none", {}, -1, FALSE)}
=============================================================================
