---------------------------- MODULE SumTheorems ----------------------------
(***************************************************************************)
(* Sums over finite sets: what SumFunctionOnSet of the community module    *)
(* Functions comes to.  The sum is a fold, which takes the set apart in    *)
(* the order of a CHOOSE; that any other order gives the same is proved    *)
(* here by a smallest counterexample, since the sets are finite.           *)
(***************************************************************************)
EXTENDS Functions, Integers, FiniteSets, FiniteSetTheorems, WellFoundedInduction, TLAPS

\* A set of naturals that is not empty has a least one.
LEMMA LeastNat ==
  ASSUME NEW B \in SUBSET Nat, B # {}
  PROVE  \E n \in B : \A m \in B : n =< m
<1> DEFINE Lt == {ss \in Nat \X Nat : ss[1] < ss[2]}
<1>1. IsWellFoundedOn(Lt, Nat)
  BY NatLessThanWellFounded DEF OpToRel
<1>2. PICK n \in B : \A m \in B : ~ (<<m, n>> \in Lt)
  <2> HIDE DEF Lt
  <2> QED BY <1>1, WFMin
<1>3. \A m \in B : ~ (m < n)
  BY <1>2
<1> QED BY <1>3

\* The element a fold takes out first.
FirstOf(S) == CHOOSE x \in S : TRUE

\* g is the fold of f over every set of D, which is closed under taking out.
Folds(g, D, f) ==
  g = [U \in D |-> IF U = {} THEN 0 ELSE f[FirstOf(U)] + g[U \ {FirstOf(U)}]]

SetFold(g, S, f) == Folds(g, SUBSET S, f)

\* What a fold takes out is there to be taken.
LEMMA FirstIn == \A U : U # {} => FirstOf(U) \in U
BY DEF FirstOf

\* The recursion defines a function: were there none for some finite set, a smallest
\* such set would have one, made of that of the set without its first element.
LEMMA FoldExists ==
  ASSUME NEW S, IsFiniteSet(S), NEW f
  PROVE  \E g : SetFold(g, S, f)
<1> DEFINE Dom(n) == {U \in SUBSET S : Cardinality(U) =< n}
           B == {n \in Nat : ~ \E g : Folds(g, Dom(n), f)}
<1>0. \A U \in SUBSET S :
        IsFiniteSet(U) /\ Cardinality(U) \in Nat /\ Cardinality(U) =< Cardinality(S)
  BY FS_Subset, FS_CardinalityType
<1>1. SUFFICES B = {}
  <2>1. Cardinality(S) \in Nat
    BY FS_CardinalityType
  <2>2. Dom(Cardinality(S)) = SUBSET S
    BY <1>0
  <2> QED BY <1>1, <2>1, <2>2 DEF SetFold
<1>2. SUFFICES ASSUME B # {} PROVE FALSE
  OBVIOUS
<1>3. PICK n \in B : \A m \in B : n =< m
  <2> HIDE DEF B
  <2>1. B \in SUBSET Nat
    BY DEF B
  <2> QED BY <1>2, <2>1, LeastNat
<1>4. n # 0
  <2>1. \A U \in Dom(0) : U = {}
    BY <1>0, FS_EmptySet
  <2>2. Folds([U \in Dom(0) |-> 0], Dom(0), f)
    BY <2>1 DEF SetFold, Folds
  <2> QED BY <2>2
<1>5. PICK g : Folds(g, Dom(n - 1), f)
  <2>1. n - 1 \in Nat /\ n - 1 \notin B
    <3> HIDE DEF B
    <3>1. n \in Nat
      BY DEF B
    <3> QED BY <3>1, <1>3, <1>4
  <2> QED BY <2>1
<1>6. Folds([U \in Dom(n) |-> IF U = {} THEN 0 ELSE f[FirstOf(U)] + g[U \ {FirstOf(U)}]], Dom(n), f)
  <2> DEFINE h == [U \in Dom(n) |-> IF U = {} THEN 0 ELSE f[FirstOf(U)] + g[U \ {FirstOf(U)}]]
  <2>1. ASSUME NEW U \in Dom(n), U # {} PROVE h[U \ {FirstOf(U)}] = g[U \ {FirstOf(U)}]
    <3>1. FirstOf(U) \in U
      BY <2>1, FirstIn
    <3>2. IsFiniteSet(U) /\ Cardinality(U) \in Nat /\ Cardinality(U) =< n
      BY <1>0
    <3>3. Cardinality(U \ {FirstOf(U)}) = Cardinality(U) - 1
      BY <3>1, <3>2, FS_RemoveElement
    <3>4. U \ {FirstOf(U)} \in Dom(n) /\ U \ {FirstOf(U)} \in Dom(n - 1)
      BY <3>2, <3>3
    <3> QED BY <3>4, <1>5 DEF SetFold, Folds
  <2> QED BY <2>1 DEF SetFold, Folds
<1> QED BY <1>6, <1>3

\* It defines one function: two of them agree on every set both are defined on.
LEMMA FoldUnique ==
  ASSUME NEW T, NEW S \in SUBSET T, IsFiniteSet(S), NEW f, NEW g, NEW h,
         SetFold(g, T, f), SetFold(h, S, f)
  PROVE  g[S] = h[S]
<1> DEFINE B == {Cardinality(U) : U \in {V \in SUBSET S : g[V] # h[V]}}
<1>0. \A U \in SUBSET S : IsFiniteSet(U) /\ Cardinality(U) \in Nat
  BY FS_Subset, FS_CardinalityType
<1>1. SUFFICES ASSUME B # {} PROVE FALSE
  BY <1>1
<1>2. PICK n \in B : \A m \in B : n =< m
  <2>1. B \in SUBSET Nat
    BY <1>0
  <2> HIDE DEF B
  <2> QED BY <1>1, <2>1, LeastNat
<1>3. PICK U \in SUBSET S : g[U] # h[U] /\ n = Cardinality(U)
  OBVIOUS
<1>4. CASE U = {}
  <2>1. g[U] = 0 /\ h[U] = 0
    BY <1>4 DEF SetFold, Folds
  <2> QED BY <2>1, <1>3
<1>5. CASE U # {}
  <2> DEFINE V == U \ {FirstOf(U)}
  <2>1. FirstOf(U) \in U
    BY <1>5, FirstIn
  <2>2. Cardinality(V) = Cardinality(U) - 1 /\ V \in SUBSET S /\ Cardinality(V) \in Nat
    BY <2>1, <1>0, FS_RemoveElement
  <2>3. g[V] = h[V]
    <3>1. Cardinality(V) \notin B
      BY <2>2, <1>0, <1>2, <1>3
    <3> QED BY <2>2, <3>1
  <2>4. g[U] = f[FirstOf(U)] + g[V]
    BY <1>5 DEF SetFold, Folds
  <2>5. h[U] = f[FirstOf(U)] + h[V]
    BY <1>5 DEF SetFold, Folds
  <2> QED BY <2>3, <2>4, <2>5, <1>3
<1> QED BY <1>4, <1>5

\* The sum folds over the set in the order of FirstOf.
LEMMA SumFolds ==
  ASSUME NEW S, IsFiniteSet(S), NEW f
  PROVE  \E g : SetFold(g, S, f) /\ SumFunctionOnSet(f, S) = g[S]
<1> DEFINE iter == CHOOSE g : SetFold(g, S, f)
<1>1. SetFold(iter, S, f)
  BY FoldExists
<1>2. SumFunctionOnSet(f, S) = iter[S]
  BY DEF SumFunctionOnSet, FoldFunctionOnSet, MapThenFoldSet, SetFold, Folds, FirstOf
<1> QED BY <1>1, <1>2

\* Nothing sums to nothing.
LEMMA SumEmpty == ASSUME NEW f PROVE SumFunctionOnSet(f, {}) = 0
<1>1. PICK g : SetFold(g, {}, f) /\ SumFunctionOnSet(f, {}) = g[{}]
  BY SumFolds, FS_EmptySet
<1> QED BY <1>1 DEF SetFold, Folds

\* The sum takes out its first element...
LEMMA SumFirst ==
  ASSUME NEW S, IsFiniteSet(S), NEW f, S # {}
  PROVE  SumFunctionOnSet(f, S) = f[FirstOf(S)] + SumFunctionOnSet(f, S \ {FirstOf(S)})
<1> DEFINE T == S \ {FirstOf(S)}
<1>1. PICK g : SetFold(g, S, f) /\ SumFunctionOnSet(f, S) = g[S]
  BY SumFolds
<1>2. IsFiniteSet(T)
  BY FS_RemoveElement
<1>3. PICK h : SetFold(h, T, f) /\ SumFunctionOnSet(f, T) = h[T]
  BY <1>2, SumFolds
<1>4. g[T] = h[T]
  <2>1. T \in SUBSET S
    OBVIOUS
  <2>2. SetFold(g, S, f) /\ SetFold(h, T, f)
    BY <1>1, <1>3
  <2> HIDE DEF T
  <2> QED BY <1>2, <2>1, <2>2, FoldUnique
<1>5. g[S] = f[FirstOf(S)] + g[T]
  BY <1>1 DEF SetFold, Folds
<1> QED BY <1>1, <1>3, <1>4, <1>5

\* Integers sum to an integer.
LEMMA SumType ==
  ASSUME NEW S, IsFiniteSet(S), NEW f, \A x \in S : f[x] \in Int
  PROVE  SumFunctionOnSet(f, S) \in Int
<1> DEFINE B == {Cardinality(U) : U \in {V \in SUBSET S : SumFunctionOnSet(f, V) \notin Int}}
<1>0. \A U \in SUBSET S : IsFiniteSet(U) /\ Cardinality(U) \in Nat
  BY FS_Subset, FS_CardinalityType
<1>1. SUFFICES ASSUME B # {} PROVE FALSE
  BY <1>1
<1>2. PICK n \in B : \A m \in B : n =< m
  <2>1. B \in SUBSET Nat
    BY <1>0
  <2> HIDE DEF B
  <2> QED BY <1>1, <2>1, LeastNat
<1>3. PICK U \in SUBSET S : SumFunctionOnSet(f, U) \notin Int /\ n = Cardinality(U)
  OBVIOUS
<1>4. U # {}
  BY <1>3, SumEmpty
<1> DEFINE V == U \ {FirstOf(U)}
<1>5. FirstOf(U) \in U
  BY <1>4, FirstIn
<1>6. Cardinality(V) = Cardinality(U) - 1 /\ V \in SUBSET S /\ Cardinality(V) \in Nat
  BY <1>5, <1>0, FS_RemoveElement
<1>7. Cardinality(V) \notin B
  BY <1>6, <1>0, <1>2, <1>3
<1>8. SumFunctionOnSet(f, V) \in Int
  BY <1>6, <1>7
<1>9. SumFunctionOnSet(f, U) = f[FirstOf(U)] + SumFunctionOnSet(f, V)
  BY <1>4, <1>0, SumFirst
<1> QED BY <1>3, <1>5, <1>8, <1>9

\* ... or any other.
LEMMA SumRemove ==
  ASSUME NEW S, IsFiniteSet(S), NEW f, \A x \in S : f[x] \in Int, NEW a \in S
  PROVE  SumFunctionOnSet(f, S) = f[a] + SumFunctionOnSet(f, S \ {a})
<1> DEFINE Wrong(U) == \E b \in U : SumFunctionOnSet(f, U) # f[b] + SumFunctionOnSet(f, U \ {b})
           B == {Cardinality(U) : U \in {V \in SUBSET S : Wrong(V)}}
<1>0. \A U \in SUBSET S : IsFiniteSet(U) /\ Cardinality(U) \in Nat
  BY FS_Subset, FS_CardinalityType
<1>1. SUFFICES ASSUME B # {} PROVE FALSE
  BY <1>1
<1>2. PICK n \in B : \A m \in B : n =< m
  <2>1. B \in SUBSET Nat
    BY <1>0
  <2> HIDE DEF B
  <2> QED BY <1>1, <2>1, LeastNat
<1>3. PICK U \in SUBSET S : Wrong(U) /\ n = Cardinality(U)
  OBVIOUS
<1>4. PICK b \in U : SumFunctionOnSet(f, U) # f[b] + SumFunctionOnSet(f, U \ {b})
  BY <1>3
<1> DEFINE c == FirstOf(U)
<1>5. c \in U
  BY <1>4, FirstIn
<1>6. SumFunctionOnSet(f, U) = f[c] + SumFunctionOnSet(f, U \ {c})
  BY <1>0, <1>4, SumFirst
<1>7. c # b
  BY <1>4, <1>6
<1>8. ASSUME NEW x \in U, NEW y \in U \ {x}
      PROVE  SumFunctionOnSet(f, U \ {x}) = f[y] + SumFunctionOnSet(f, (U \ {x}) \ {y})
  <2> DEFINE V == U \ {x}
  <2>1. Cardinality(V) = Cardinality(U) - 1 /\ V \in SUBSET S /\ Cardinality(V) \in Nat
    BY <1>0, FS_RemoveElement
  <2>2. Cardinality(V) \notin B
    <3>1. Cardinality(V) < n
      BY <2>1, <1>0, <1>3
    <3>2. n \in Nat /\ Cardinality(V) \in Nat
      BY <2>1, <1>0, <1>3
    <3> HIDE DEF B, V
    <3> QED BY <3>1, <3>2, <1>2
  <2>3. ~ Wrong(V)
    BY <2>1, <2>2
  <2> QED BY <2>3
<1>9. SumFunctionOnSet(f, U \ {c}) = f[b] + SumFunctionOnSet(f, (U \ {c}) \ {b})
  BY <1>5, <1>7, <1>8
<1>10. SumFunctionOnSet(f, U \ {b}) = f[c] + SumFunctionOnSet(f, (U \ {b}) \ {c})
  BY <1>5, <1>7, <1>8
<1>11. (U \ {c}) \ {b} = (U \ {b}) \ {c} /\ (U \ {c}) \ {b} \in SUBSET S
  OBVIOUS
<1> DEFINE W == (U \ {c}) \ {b}
<1>12. SumFunctionOnSet(f, W) \in Int
  <2>1. IsFiniteSet(W) /\ \A x \in W : f[x] \in Int
    BY <1>0, <1>11
  <2> HIDE DEF W
  <2> QED BY <2>1, SumType
<1>13. f[b] \in Int /\ f[c] \in Int
  BY <1>5
<1>14. SumFunctionOnSet(f, U) = f[c] + (f[b] + SumFunctionOnSet(f, W))
  BY <1>6, <1>9
<1>15. SumFunctionOnSet(f, U \ {b}) = f[c] + SumFunctionOnSet(f, W)
  BY <1>10, <1>11
<1> HIDE DEF c, W
<1> QED BY <1>4, <1>12, <1>13, <1>14, <1>15

\* An element that joins the set joins the sum.
LEMMA SumAdd ==
  ASSUME NEW S, IsFiniteSet(S), NEW f, NEW a, a \notin S, \A x \in S \cup {a} : f[x] \in Int
  PROVE  SumFunctionOnSet(f, S \cup {a}) = f[a] + SumFunctionOnSet(f, S)
<1>1. IsFiniteSet(S \cup {a}) /\ (S \cup {a}) \ {a} = S /\ a \in S \cup {a}
  BY FS_AddElement
<1> QED BY <1>1, SumRemove

\* Naturals sum to a natural.
LEMMA SumNat ==
  ASSUME NEW S, IsFiniteSet(S), NEW f, \A x \in S : f[x] \in Nat
  PROVE  SumFunctionOnSet(f, S) \in Nat
<1> DEFINE Wrong(U) == SumFunctionOnSet(f, U) \notin Nat
           B == {Cardinality(U) : U \in {V \in SUBSET S : Wrong(V)}}
<1>0. \A U \in SUBSET S : IsFiniteSet(U) /\ Cardinality(U) \in Nat
  BY FS_Subset, FS_CardinalityType
<1>1. SUFFICES ASSUME B # {} PROVE FALSE
  BY <1>1
<1>2. PICK n \in B : \A m \in B : n =< m
  <2>1. B \in SUBSET Nat
    BY <1>0
  <2> HIDE DEF B
  <2> QED BY <1>1, <2>1, LeastNat
<1>3. PICK U \in SUBSET S : Wrong(U) /\ n = Cardinality(U)
  OBVIOUS
<1>4. U # {}
  BY <1>3, SumEmpty
<1> DEFINE V == U \ {FirstOf(U)}
<1>5. FirstOf(U) \in U
  BY <1>4, FirstIn
<1>6. Cardinality(V) = Cardinality(U) - 1 /\ V \in SUBSET S /\ Cardinality(V) \in Nat
  BY <1>5, <1>0, FS_RemoveElement
<1>7. Cardinality(V) \notin B
  BY <1>6, <1>0, <1>2, <1>3
<1>8. SumFunctionOnSet(f, V) \in Nat
  BY <1>6, <1>7
<1>9. SumFunctionOnSet(f, U) = f[FirstOf(U)] + SumFunctionOnSet(f, V)
  BY <1>4, <1>0, SumFirst
<1> QED BY <1>3, <1>5, <1>8, <1>9

\* Functions that agree on a set have one sum over it.
LEMMA SumSame ==
  ASSUME NEW S, IsFiniteSet(S), NEW f, NEW g, \A x \in S : f[x] = g[x]
  PROVE  SumFunctionOnSet(f, S) = SumFunctionOnSet(g, S)
<1> DEFINE Wrong(U) == SumFunctionOnSet(f, U) # SumFunctionOnSet(g, U)
           B == {Cardinality(U) : U \in {V \in SUBSET S : Wrong(V)}}
<1>0. \A U \in SUBSET S : IsFiniteSet(U) /\ Cardinality(U) \in Nat
  BY FS_Subset, FS_CardinalityType
<1>1. SUFFICES ASSUME B # {} PROVE FALSE
  BY <1>1
<1>2. PICK n \in B : \A m \in B : n =< m
  <2>1. B \in SUBSET Nat
    BY <1>0
  <2> HIDE DEF B
  <2> QED BY <1>1, <2>1, LeastNat
<1>3. PICK U \in SUBSET S : Wrong(U) /\ n = Cardinality(U)
  OBVIOUS
<1>4. U # {}
  BY <1>3, SumEmpty
<1> DEFINE V == U \ {FirstOf(U)}
<1>5. FirstOf(U) \in U
  BY <1>4, FirstIn
<1>6. Cardinality(V) = Cardinality(U) - 1 /\ V \in SUBSET S /\ Cardinality(V) \in Nat
  BY <1>5, <1>0, FS_RemoveElement
<1>7. Cardinality(V) \notin B
  BY <1>6, <1>0, <1>2, <1>3
<1>8. SumFunctionOnSet(f, V) = SumFunctionOnSet(g, V)
  BY <1>6, <1>7
<1>9. /\ SumFunctionOnSet(f, U) = f[FirstOf(U)] + SumFunctionOnSet(f, V)
      /\ SumFunctionOnSet(g, U) = g[FirstOf(U)] + SumFunctionOnSet(g, V)
  BY <1>4, <1>0, SumFirst
<1> QED BY <1>3, <1>5, <1>8, <1>9

\* A sum of naturals grows with the set.
LEMMA SumSubset ==
  ASSUME NEW S, IsFiniteSet(S), NEW f, \A x \in S : f[x] \in Nat, NEW T \in SUBSET S
  PROVE  SumFunctionOnSet(f, T) =< SumFunctionOnSet(f, S)
<1> DEFINE Wrong(U) == T \subseteq U /\ ~ (SumFunctionOnSet(f, T) =< SumFunctionOnSet(f, U))
           B == {Cardinality(U) : U \in {V \in SUBSET S : Wrong(V)}}
<1>0. \A U \in SUBSET S : IsFiniteSet(U) /\ Cardinality(U) \in Nat
  BY FS_Subset, FS_CardinalityType
<1>1. SUFFICES ASSUME B # {} PROVE FALSE
  BY <1>1
<1>2. PICK n \in B : \A m \in B : n =< m
  <2>1. B \in SUBSET Nat
    BY <1>0
  <2> HIDE DEF B
  <2> QED BY <1>1, <2>1, LeastNat
<1>3. PICK U \in SUBSET S : Wrong(U) /\ n = Cardinality(U)
  OBVIOUS
<1>4. SumFunctionOnSet(f, T) \in Nat /\ SumFunctionOnSet(f, U) \in Nat
  <2>1. \A V \in SUBSET S : IsFiniteSet(V) /\ \A x \in V : f[x] \in Nat
    BY <1>0
  <2> QED BY <2>1, SumNat
<1>5. PICK a \in U : a \notin T
  <2>1. T # U
    BY <1>3, <1>4
  <2> QED BY <2>1, <1>3
<1> DEFINE V == U \ {a}
<1>6. Cardinality(V) = Cardinality(U) - 1 /\ V \in SUBSET S /\ Cardinality(V) \in Nat
  BY <1>0, FS_RemoveElement
<1>7. Cardinality(V) \notin B
  <2>1. Cardinality(V) < n /\ n \in Nat
    BY <1>6, <1>0, <1>3
  <2> HIDE DEF B, V
  <2> QED BY <2>1, <1>2, <1>6
<1>8. SumFunctionOnSet(f, T) =< SumFunctionOnSet(f, V)
  BY <1>3, <1>5, <1>6, <1>7
<1>9. SumFunctionOnSet(f, U) = f[a] + SumFunctionOnSet(f, V)
  <2>1. IsFiniteSet(U) /\ \A x \in U : f[x] \in Int
    BY <1>0
  <2> QED BY <2>1, SumRemove
<1>10. SumFunctionOnSet(f, V) \in Nat
  <2>1. IsFiniteSet(V) /\ \A x \in V : f[x] \in Nat
    BY <1>0, <1>6
  <2> HIDE DEF V
  <2> QED BY <2>1, SumNat
<1>11. f[a] \in Nat
  OBVIOUS
<1> HIDE DEF V
<1> QED BY <1>3, <1>4, <1>8, <1>9, <1>10, <1>11

\* What comes to nothing one by one comes to nothing.
LEMMA SumZero ==
  ASSUME NEW S, IsFiniteSet(S), NEW f, \A x \in S : f[x] = 0
  PROVE  SumFunctionOnSet(f, S) = 0
<1> DEFINE Wrong(U) == SumFunctionOnSet(f, U) # 0
           B == {Cardinality(U) : U \in {V \in SUBSET S : Wrong(V)}}
<1>0. \A U \in SUBSET S : IsFiniteSet(U) /\ Cardinality(U) \in Nat
  BY FS_Subset, FS_CardinalityType
<1>1. SUFFICES ASSUME B # {} PROVE FALSE
  BY <1>1
<1>2. PICK n \in B : \A m \in B : n =< m
  <2>1. B \in SUBSET Nat
    BY <1>0
  <2> HIDE DEF B
  <2> QED BY <1>1, <2>1, LeastNat
<1>3. PICK U \in SUBSET S : Wrong(U) /\ n = Cardinality(U)
  OBVIOUS
<1>4. U # {}
  BY <1>3, SumEmpty
<1> DEFINE V == U \ {FirstOf(U)}
<1>5. FirstOf(U) \in U
  BY <1>4, FirstIn
<1>6. Cardinality(V) = Cardinality(U) - 1 /\ V \in SUBSET S /\ Cardinality(V) \in Nat
  BY <1>5, <1>0, FS_RemoveElement
<1>7. Cardinality(V) \notin B
  BY <1>6, <1>0, <1>2, <1>3
<1>8. SumFunctionOnSet(f, V) = 0
  BY <1>6, <1>7
<1>9. SumFunctionOnSet(f, U) = f[FirstOf(U)] + SumFunctionOnSet(f, V)
  BY <1>4, <1>0, SumFirst
<1> QED BY <1>3, <1>5, <1>8, <1>9

\* Sets that share nothing add up.
LEMMA SumUnion ==
  ASSUME NEW S, IsFiniteSet(S), NEW T, IsFiniteSet(T), S \cap T = {}, NEW f,
         \A x \in S \cup T : f[x] \in Int
  PROVE  SumFunctionOnSet(f, S \cup T) = SumFunctionOnSet(f, S) + SumFunctionOnSet(f, T)
<1> DEFINE Wrong(U) ==
             SumFunctionOnSet(f, U \cup T) # SumFunctionOnSet(f, U) + SumFunctionOnSet(f, T)
           B == {Cardinality(U) : U \in {V \in SUBSET S : Wrong(V)}}
<1>0. \A U \in SUBSET S : IsFiniteSet(U) /\ Cardinality(U) \in Nat
  BY FS_Subset, FS_CardinalityType
<1>a. \A U \in SUBSET (S \cup T) : IsFiniteSet(U) /\ SumFunctionOnSet(f, U) \in Int
  <2>1. IsFiniteSet(S \cup T)
    BY FS_Union
  <2>2. \A U \in SUBSET (S \cup T) : IsFiniteSet(U) /\ \A x \in U : f[x] \in Int
    BY <2>1, FS_Subset
  <2> QED BY <2>2, SumType
<1>1. SUFFICES ASSUME B # {} PROVE FALSE
  BY <1>1
<1>2. PICK n \in B : \A m \in B : n =< m
  <2>1. B \in SUBSET Nat
    BY <1>0
  <2> HIDE DEF B
  <2> QED BY <1>1, <2>1, LeastNat
<1>3. PICK U \in SUBSET S : Wrong(U) /\ n = Cardinality(U)
  OBVIOUS
<1>4. PICK a : a \in U
  <2>1. U # {}
    <3>1. {} \cup T = T
      OBVIOUS
    <3>2. SumFunctionOnSet(f, T) \in Int
      BY <1>a
    <3> QED BY <1>3, <3>1, <3>2, SumEmpty
  <2> QED BY <2>1
<1> DEFINE V == U \ {a}
<1>6. Cardinality(V) = Cardinality(U) - 1 /\ V \in SUBSET S /\ Cardinality(V) \in Nat
  BY <1>4, <1>0, FS_RemoveElement
<1>7. Cardinality(V) \notin B
  <2>1. Cardinality(V) < n /\ n \in Nat
    BY <1>6, <1>0, <1>3
  <2> HIDE DEF B, V
  <2> QED BY <2>1, <1>2, <1>6
<1>8. SumFunctionOnSet(f, V \cup T) = SumFunctionOnSet(f, V) + SumFunctionOnSet(f, T)
  BY <1>6, <1>7
<1>9. SumFunctionOnSet(f, U) = f[a] + SumFunctionOnSet(f, V)
  BY <1>4, <1>0, SumRemove
<1>10. SumFunctionOnSet(f, U \cup T) = f[a] + SumFunctionOnSet(f, V \cup T)
  <2>1. (U \cup T) \ {a} = V \cup T /\ a \in U \cup T
    BY <1>4
  <2>2. IsFiniteSet(U \cup T) /\ \A x \in U \cup T : f[x] \in Int
    BY <1>a
  <2> HIDE DEF V
  <2> QED BY <2>1, <2>2, SumRemove
<1>11. /\ f[a] \in Int /\ SumFunctionOnSet(f, V) \in Int /\ SumFunctionOnSet(f, T) \in Int
  BY <1>a, <1>4
<1> HIDE DEF V
<1> QED BY <1>3, <1>8, <1>9, <1>10, <1>11

\* A sum over what a one-to-one map reaches is the sum over where it starts.
LEMMA SumImage ==
  ASSUME NEW S, IsFiniteSet(S), NEW g, \A x, y \in S : g[x] = g[y] => x = y,
         NEW f, NEW h, \A x \in S : f[x] \in Int /\ h[g[x]] = f[x]
  PROVE  SumFunctionOnSet(f, S) = SumFunctionOnSet(h, {g[x] : x \in S})
<1> DEFINE Reached(U) == {g[x] : x \in U}
           Wrong(U) == SumFunctionOnSet(f, U) # SumFunctionOnSet(h, Reached(U))
           B == {Cardinality(U) : U \in {V \in SUBSET S : Wrong(V)}}
<1>0. \A U \in SUBSET S : IsFiniteSet(U) /\ Cardinality(U) \in Nat
  BY FS_Subset, FS_CardinalityType
<1>a. \A U \in SUBSET S : IsFiniteSet(Reached(U)) /\ \A y \in Reached(U) : h[y] \in Int
  <2> TAKE U \in SUBSET S
  <2>1. IsFiniteSet(U)
    BY <1>0
  <2>2. PICK e : e = [x \in U |-> g[x]]
    OBVIOUS
  <2>3. e \in Surjection(U, Reached(U))
    BY <2>2 DEF Surjection
  <2>4. IsFiniteSet(Reached(U))
    <3> HIDE DEF Reached
    <3> QED BY <2>1, <2>3, FS_Surjection
  <2>5. \A y \in Reached(U) : h[y] \in Int
    OBVIOUS
  <2> QED BY <2>4, <2>5
<1>1. SUFFICES ASSUME B # {} PROVE FALSE
  <2>1. ASSUME Wrong(S) PROVE Cardinality(S) \in B
    BY <2>1
  <2>2. B = {} => ~ Wrong(S)
    <3> HIDE DEF B, Wrong
    <3> QED BY <2>1
  <2> QED BY <1>1, <2>2
<1>2. PICK n \in B : \A m \in B : n =< m
  <2>1. B \in SUBSET Nat
    BY <1>0
  <2> HIDE DEF B
  <2> QED BY <1>1, <2>1, LeastNat
<1>3. PICK U \in SUBSET S : Wrong(U) /\ n = Cardinality(U)
  OBVIOUS
<1>4. PICK a : a \in U
  <2>1. U # {}
    <3>1. Reached({}) = {}
      OBVIOUS
    <3> QED BY <1>3, <3>1, SumEmpty
  <2> QED BY <2>1
<1> DEFINE V == U \ {a}
<1>6. Cardinality(V) = Cardinality(U) - 1 /\ V \in SUBSET S /\ Cardinality(V) \in Nat
  BY <1>4, <1>0, FS_RemoveElement
<1>7. Cardinality(V) \notin B
  <2>1. Cardinality(V) < n /\ n \in Nat
    BY <1>6, <1>0, <1>3
  <2> HIDE DEF B, V
  <2> QED BY <2>1, <1>2, <1>6
<1>8. SumFunctionOnSet(f, V) = SumFunctionOnSet(h, Reached(V))
  BY <1>6, <1>7
<1>9. SumFunctionOnSet(f, U) = f[a] + SumFunctionOnSet(f, V)
  BY <1>4, <1>0, SumRemove
<1>10. SumFunctionOnSet(h, Reached(U)) = h[g[a]] + SumFunctionOnSet(h, Reached(V))
  <2>1. Reached(U) \ {g[a]} = Reached(V) /\ g[a] \in Reached(U)
    BY <1>4
  <2>2. IsFiniteSet(Reached(U)) /\ \A y \in Reached(U) : h[y] \in Int
    BY <1>a
  <2> HIDE DEF V, Reached
  <2> QED BY <2>1, <2>2, SumRemove
<1>11. h[g[a]] = f[a]
  BY <1>4
<1> HIDE DEF V, Reached
<1> QED BY <1>3, <1>8, <1>9, <1>10, <1>11

\* What is no larger one by one comes to no more.
LEMMA SumMono ==
  ASSUME NEW S, IsFiniteSet(S), NEW f, NEW g, \A x \in S : f[x] \in Int /\ g[x] \in Int /\ f[x] =< g[x]
  PROVE  SumFunctionOnSet(f, S) =< SumFunctionOnSet(g, S)
<1> DEFINE Wrong(U) == ~ (SumFunctionOnSet(f, U) =< SumFunctionOnSet(g, U))
           B == {Cardinality(U) : U \in {V \in SUBSET S : Wrong(V)}}
<1>0. \A U \in SUBSET S : IsFiniteSet(U) /\ Cardinality(U) \in Nat
  BY FS_Subset, FS_CardinalityType
<1>1. SUFFICES ASSUME B # {} PROVE FALSE
  BY <1>1
<1>2. PICK n \in B : \A m \in B : n =< m
  <2>1. B \in SUBSET Nat
    BY <1>0
  <2> HIDE DEF B
  <2> QED BY <1>1, <2>1, LeastNat
<1>3. PICK U \in SUBSET S : Wrong(U) /\ n = Cardinality(U)
  OBVIOUS
<1>4. PICK a : a \in U
  BY <1>3, SumEmpty
<1> DEFINE V == U \ {a}
<1>6. Cardinality(V) = Cardinality(U) - 1 /\ V \in SUBSET S /\ Cardinality(V) \in Nat
  BY <1>4, <1>0, FS_RemoveElement
<1>7. Cardinality(V) \notin B
  <2>1. Cardinality(V) < n /\ n \in Nat
    BY <1>6, <1>0, <1>3
  <2> HIDE DEF B, V
  <2> QED BY <2>1, <1>2, <1>6
<1>8. SumFunctionOnSet(f, V) =< SumFunctionOnSet(g, V)
  BY <1>6, <1>7
<1>9. /\ SumFunctionOnSet(f, U) = f[a] + SumFunctionOnSet(f, V)
      /\ SumFunctionOnSet(g, U) = g[a] + SumFunctionOnSet(g, V)
  BY <1>4, <1>0, SumRemove
<1>10. SumFunctionOnSet(f, V) \in Int /\ SumFunctionOnSet(g, V) \in Int
  BY <1>6, <1>0, SumType
<1>11. f[a] \in Int /\ g[a] \in Int /\ f[a] =< g[a]
  BY <1>4
<1> HIDE DEF V
<1> QED BY <1>3, <1>8, <1>9, <1>10, <1>11

\* The sum of two functions comes to the sum of what they come to.
LEMMA SumPlus ==
  ASSUME NEW S, IsFiniteSet(S), NEW f, NEW g, NEW h,
         \A x \in S : f[x] \in Int /\ g[x] \in Int /\ h[x] = f[x] + g[x]
  PROVE  SumFunctionOnSet(h, S) = SumFunctionOnSet(f, S) + SumFunctionOnSet(g, S)
<1> DEFINE Wrong(U) ==
             SumFunctionOnSet(h, U) # SumFunctionOnSet(f, U) + SumFunctionOnSet(g, U)
           B == {Cardinality(U) : U \in {V \in SUBSET S : Wrong(V)}}
<1>0. \A U \in SUBSET S : IsFiniteSet(U) /\ Cardinality(U) \in Nat
  BY FS_Subset, FS_CardinalityType
<1>1. SUFFICES ASSUME B # {} PROVE FALSE
  BY <1>1
<1>2. PICK n \in B : \A m \in B : n =< m
  <2>1. B \in SUBSET Nat
    BY <1>0
  <2> HIDE DEF B
  <2> QED BY <1>1, <2>1, LeastNat
<1>3. PICK U \in SUBSET S : Wrong(U) /\ n = Cardinality(U)
  OBVIOUS
<1>4. PICK a : a \in U
  BY <1>3, SumEmpty
<1> DEFINE V == U \ {a}
<1>6. Cardinality(V) = Cardinality(U) - 1 /\ V \in SUBSET S /\ Cardinality(V) \in Nat
  BY <1>4, <1>0, FS_RemoveElement
<1>7. Cardinality(V) \notin B
  <2>1. Cardinality(V) < n /\ n \in Nat
    BY <1>6, <1>0, <1>3
  <2> HIDE DEF B, V
  <2> QED BY <2>1, <1>2, <1>6
<1>8. SumFunctionOnSet(h, V) = SumFunctionOnSet(f, V) + SumFunctionOnSet(g, V)
  BY <1>6, <1>7
<1>9. /\ SumFunctionOnSet(f, U) = f[a] + SumFunctionOnSet(f, V)
      /\ SumFunctionOnSet(g, U) = g[a] + SumFunctionOnSet(g, V)
      /\ SumFunctionOnSet(h, U) = h[a] + SumFunctionOnSet(h, V)
  <2>1. IsFiniteSet(U) /\ \A x \in U : f[x] \in Int /\ g[x] \in Int /\ h[x] \in Int
    BY <1>0
  <2> QED BY <1>4, <2>1, SumRemove
<1>10. SumFunctionOnSet(f, V) \in Int /\ SumFunctionOnSet(g, V) \in Int
  BY <1>6, <1>0, SumType
<1>11. f[a] \in Int /\ g[a] \in Int /\ h[a] = f[a] + g[a]
  BY <1>4
<1> HIDE DEF V
<1> QED BY <1>3, <1>8, <1>9, <1>10, <1>11

\* Where one function is more by n, and nowhere else, its sum is more by n.
LEMMA SumBump ==
  ASSUME NEW S, IsFiniteSet(S), NEW f, NEW g, NEW a \in S, NEW n \in Int,
         \A x \in S : f[x] \in Int, g[a] = f[a] + n, \A x \in S \ {a} : g[x] = f[x]
  PROVE  SumFunctionOnSet(g, S) = SumFunctionOnSet(f, S) + n
<1>1. \A x \in S : g[x] \in Int
  OBVIOUS
<1>2. /\ SumFunctionOnSet(f, S) = f[a] + SumFunctionOnSet(f, S \ {a})
      /\ SumFunctionOnSet(g, S) = g[a] + SumFunctionOnSet(g, S \ {a})
  BY <1>1, SumRemove
<1>3. IsFiniteSet(S \ {a}) /\ \A x \in S \ {a} : f[x] \in Int
  BY FS_RemoveElement
<1>4. SumFunctionOnSet(g, S \ {a}) = SumFunctionOnSet(f, S \ {a})
  BY <1>3, SumSame
<1>5. SumFunctionOnSet(f, S \ {a}) \in Int /\ f[a] \in Int
  BY <1>3, SumType
<1> QED BY <1>2, <1>4, <1>5

\* What the pairs of one row come to may be moved to another row.
LEMMA SumRows ==
  ASSUME NEW C, IsFiniteSet(C), NEW W, IsFiniteSet(W), NEW f, NEW g, NEW c \in C, NEW m \in C, c # m,
         \A p \in C \X W : f[p] \in Int,
         \A p \in C \X W : g[p] = IF p[1] = c THEN 0
                                  ELSE IF p[1] = m THEN f[p] + f[<<c, p[2]>>] ELSE f[p]
  PROVE  SumFunctionOnSet(g, C \X W) = SumFunctionOnSet(f, C \X W)
<1> DEFINE Row(d) == {<<d, v>> : v \in W}
           Rest == {p \in C \X W : p[1] # c /\ p[1] # m}
           pick(d) == [v \in W |-> <<d, v>>]
           col(h, d) == [v \in W |-> h[<<d, v>>]]
<1>1. IsFiniteSet(C \X W)
  BY FS_Product
<1>2. \A p \in C \X W : g[p] \in Int
  <2> TAKE p \in C \X W
  <2>1. f[p] \in Int /\ f[<<c, p[2]>>] \in Int
    OBVIOUS
  <2> QED BY <2>1
<1>3. ASSUME NEW h, \A p \in C \X W : h[p] \in Int
      PROVE  SumFunctionOnSet(h, C \X W) = SumFunctionOnSet(col(h, c), W)
               + SumFunctionOnSet(col(h, m), W) + SumFunctionOnSet(h, Rest)
  <2>1. ASSUME NEW d \in C
        PROVE  /\ IsFiniteSet(Row(d)) /\ Row(d) \in SUBSET (C \X W)
               /\ SumFunctionOnSet(h, Row(d)) = SumFunctionOnSet(col(h, d), W)
    <3>1. Row(d) = {pick(d)[v] : v \in W} /\ Row(d) \in SUBSET (C \X W)
      OBVIOUS
    <3>2. \A x, y \in W : pick(d)[x] = pick(d)[y] => x = y
      OBVIOUS
    <3>3. \A v \in W : col(h, d)[v] \in Int /\ h[pick(d)[v]] = col(h, d)[v]
      BY <1>3
    <3>4. SumFunctionOnSet(col(h, d), W) = SumFunctionOnSet(h, {pick(d)[v] : v \in W})
      <4> HIDE DEF pick, col
      <4> QED BY <3>2, <3>3, SumImage
    <3>5. IsFiniteSet(Row(d))
      <4> HIDE DEF Row
      <4> QED BY <3>1, <1>1, FS_Subset
    <3> HIDE DEF Row, pick, col
    <3> QED BY <3>1, <3>4, <3>5
  <2>2. /\ IsFiniteSet(Rest) /\ Rest \in SUBSET (C \X W)
    <3>1. Rest \in SUBSET (C \X W)
      OBVIOUS
    <3> HIDE DEF Rest
    <3> QED BY <3>1, <1>1, FS_Subset
  <2>3. /\ Row(c) \cap Row(m) = {} /\ (Row(c) \cup Row(m)) \cap Rest = {}
        /\ C \X W = (Row(c) \cup Row(m)) \cup Rest
    OBVIOUS
  <2> HIDE DEF Row, Rest, col
  <2>4. IsFiniteSet(Row(c) \cup Row(m))
    BY <2>1, FS_Union
  <2>5. SumFunctionOnSet(h, Row(c) \cup Row(m)) = SumFunctionOnSet(h, Row(c)) + SumFunctionOnSet(h, Row(m))
    <3>1. \A p \in Row(c) \cup Row(m) : h[p] \in Int
      BY <1>3, <2>1
    <3> QED BY <3>1, <2>1, <2>3, SumUnion
  <2>6. SumFunctionOnSet(h, (Row(c) \cup Row(m)) \cup Rest)
          = SumFunctionOnSet(h, Row(c) \cup Row(m)) + SumFunctionOnSet(h, Rest)
    <3>1. \A p \in (Row(c) \cup Row(m)) \cup Rest : h[p] \in Int
      BY <1>3, <2>1, <2>2
    <3> QED BY <3>1, <2>2, <2>3, <2>4, SumUnion
  <2> QED BY <2>1, <2>3, <2>5, <2>6
<1>4. SumFunctionOnSet(col(g, c), W) = 0
  <2>1. \A v \in W : col(g, c)[v] = 0
    OBVIOUS
  <2> HIDE DEF col
  <2> QED BY <2>1, SumZero
<1>5. SumFunctionOnSet(col(g, m), W) = SumFunctionOnSet(col(f, m), W) + SumFunctionOnSet(col(f, c), W)
  <2>1. \A v \in W : /\ col(f, m)[v] \in Int /\ col(f, c)[v] \in Int
                     /\ col(g, m)[v] = col(f, m)[v] + col(f, c)[v]
    <3> TAKE v \in W
    <3>1. <<m, v>> \in C \X W /\ <<c, v>> \in C \X W
      OBVIOUS
    <3>2. g[<<m, v>>] = f[<<m, v>>] + f[<<c, v>>]
      BY <3>1
    <3> QED BY <3>1, <3>2
  <2> HIDE DEF col
  <2> QED BY <2>1, SumPlus
<1>6. SumFunctionOnSet(g, Rest) = SumFunctionOnSet(f, Rest)
  <2>1. (\A p \in Rest : g[p] = f[p]) /\ Rest \in SUBSET (C \X W)
    OBVIOUS
  <2> HIDE DEF Rest
  <2>2. IsFiniteSet(Rest)
    BY <1>1, <2>1, FS_Subset
  <2> QED BY <2>1, <2>2, SumSame
<1>7. /\ SumFunctionOnSet(col(f, m), W) \in Int /\ SumFunctionOnSet(col(f, c), W) \in Int
      /\ SumFunctionOnSet(f, Rest) \in Int
  <2>1. \A v \in W : col(f, m)[v] \in Int /\ col(f, c)[v] \in Int
    OBVIOUS
  <2>2. (\A p \in Rest : f[p] \in Int) /\ Rest \in SUBSET (C \X W)
    OBVIOUS
  <2> HIDE DEF Rest, col
  <2>3. IsFiniteSet(Rest)
    BY <1>1, <2>2, FS_Subset
  <2> QED BY <2>1, <2>2, <2>3, SumType
<1>8. SumFunctionOnSet(g, C \X W) = SumFunctionOnSet(col(g, c), W)
        + SumFunctionOnSet(col(g, m), W) + SumFunctionOnSet(g, Rest)
  <2> HIDE DEF col, Rest
  <2> QED BY <1>2, <1>3
<1>9. SumFunctionOnSet(f, C \X W) = SumFunctionOnSet(col(f, c), W)
        + SumFunctionOnSet(col(f, m), W) + SumFunctionOnSet(f, Rest)
  <2> HIDE DEF col, Rest
  <2> QED BY <1>3
<1> HIDE DEF col, Rest
<1> QED BY <1>4, <1>5, <1>6, <1>7, <1>8, <1>9

\* The same number for each.
LEMMA SumConst ==
  ASSUME NEW S, IsFiniteSet(S), NEW e \in Int, NEW f, \A x \in S : f[x] = e
  PROVE  SumFunctionOnSet(f, S) = e * Cardinality(S)
<1> DEFINE Wrong(U) == SumFunctionOnSet(f, U) # e * Cardinality(U)
           B == {Cardinality(U) : U \in {V \in SUBSET S : Wrong(V)}}
<1>0. \A U \in SUBSET S : IsFiniteSet(U) /\ Cardinality(U) \in Nat
  BY FS_Subset, FS_CardinalityType
<1>1. SUFFICES ASSUME B # {} PROVE FALSE
  BY <1>1
<1>2. PICK n \in B : \A m \in B : n =< m
  <2>1. B \in SUBSET Nat
    BY <1>0
  <2> HIDE DEF B
  <2> QED BY <1>1, <2>1, LeastNat
<1>3. PICK U \in SUBSET S : Wrong(U) /\ n = Cardinality(U)
  OBVIOUS
<1>4. U # {}
  <2>1. e * Cardinality({}) = 0
    BY FS_EmptySet
  <2> QED BY <1>3, <2>1, SumEmpty
<1> DEFINE V == U \ {FirstOf(U)}
<1>5. FirstOf(U) \in U
  BY <1>4, FirstIn
<1>6. Cardinality(V) = Cardinality(U) - 1 /\ V \in SUBSET S /\ Cardinality(V) \in Nat
  BY <1>5, <1>0, FS_RemoveElement
<1>7. Cardinality(V) \notin B
  <2>1. Cardinality(V) < n
    BY <1>6, <1>0, <1>3
  <2>2. n \in Nat /\ Cardinality(V) \in Nat
    BY <1>0, <1>3, <1>6
  <2> HIDE DEF V, B
  <2> QED BY <1>2, <2>1, <2>2
<1>8. SumFunctionOnSet(f, V) = e * Cardinality(V)
  BY <1>6, <1>7
<1>9. SumFunctionOnSet(f, U) = f[FirstOf(U)] + SumFunctionOnSet(f, V)
  BY <1>4, <1>0, SumFirst
<1>10. e * Cardinality(V) = e * Cardinality(U) - e
  <2> DEFINE c == Cardinality(U)
  <2>1. c \in Nat /\ Cardinality(V) = c - 1
    BY <1>0, <1>6
  <2> HIDE DEF c
  <2>2. e * (c - 1) = e * c - e
    BY <2>1
  <2> QED BY <2>1, <2>2 DEF c
<1>11. e * Cardinality(U) \in Int
  BY <1>0
<1> QED BY <1>3, <1>5, <1>8, <1>9, <1>10, <1>11

\* A hundred times each is a hundred times the sum.
LEMMA SumHundred ==
  ASSUME NEW S, IsFiniteSet(S), NEW f, NEW g, \A x \in S : f[x] \in Int /\ g[x] = 100 * f[x]
  PROVE  SumFunctionOnSet(g, S) = 100 * SumFunctionOnSet(f, S)
<1> DEFINE Wrong(U) == SumFunctionOnSet(g, U) # 100 * SumFunctionOnSet(f, U)
           B == {Cardinality(U) : U \in {V \in SUBSET S : Wrong(V)}}
<1>0. \A U \in SUBSET S : IsFiniteSet(U) /\ Cardinality(U) \in Nat
  BY FS_Subset, FS_CardinalityType
<1>1. SUFFICES ASSUME B # {} PROVE FALSE
  BY <1>1
<1>2. PICK n \in B : \A m \in B : n =< m
  <2>1. B \in SUBSET Nat
    BY <1>0
  <2> HIDE DEF B
  <2> QED BY <1>1, <2>1, LeastNat
<1>3. PICK U \in SUBSET S : Wrong(U) /\ n = Cardinality(U)
  OBVIOUS
<1>4. U # {}
  <2>1. SumFunctionOnSet(g, {}) = 100 * SumFunctionOnSet(f, {})
    BY SumEmpty
  <2> QED BY <1>3, <2>1
<1> DEFINE V == U \ {FirstOf(U)}
<1>5. FirstOf(U) \in U
  BY <1>4, FirstIn
<1>6. Cardinality(V) = Cardinality(U) - 1 /\ V \in SUBSET S /\ Cardinality(V) \in Nat
  BY <1>5, <1>0, FS_RemoveElement
<1>7. Cardinality(V) \notin B
  <2>1. Cardinality(V) < n
    BY <1>6, <1>0, <1>3
  <2>2. n \in Nat /\ Cardinality(V) \in Nat
    BY <1>0, <1>3, <1>6
  <2> HIDE DEF V, B
  <2> QED BY <1>2, <2>1, <2>2
<1>8. SumFunctionOnSet(g, V) = 100 * SumFunctionOnSet(f, V)
  BY <1>6, <1>7
<1>9. /\ SumFunctionOnSet(f, U) = f[FirstOf(U)] + SumFunctionOnSet(f, V)
      /\ SumFunctionOnSet(g, U) = g[FirstOf(U)] + SumFunctionOnSet(g, V)
  BY <1>4, <1>0, SumFirst
<1>10. f[FirstOf(U)] \in Int /\ g[FirstOf(U)] = 100 * f[FirstOf(U)]
  BY <1>5
<1>11. SumFunctionOnSet(f, V) \in Int
  BY <1>0, <1>6, SumType
<1> QED BY <1>3, <1>8, <1>9, <1>10, <1>11

\* Sums differ by no more than their terms do.
LEMMA SumWithin ==
  ASSUME NEW S, IsFiniteSet(S), NEW f, NEW g, NEW h,
         \A x \in S : f[x] \in Int /\ g[x] \in Int /\ h[x] \in Int /\ f[x] - g[x] =< h[x] /\ g[x] - f[x] =< h[x]
  PROVE  /\ SumFunctionOnSet(f, S) - SumFunctionOnSet(g, S) =< SumFunctionOnSet(h, S)
         /\ SumFunctionOnSet(g, S) - SumFunctionOnSet(f, S) =< SumFunctionOnSet(h, S)
<1> DEFINE gh == [x \in S |-> g[x] + h[x]]
           fh == [x \in S |-> f[x] + h[x]]
<1>1. \A x \in S : gh[x] = g[x] + h[x] /\ fh[x] = f[x] + h[x]
  OBVIOUS
<1> HIDE DEF gh, fh
<1>2. /\ SumFunctionOnSet(gh, S) = SumFunctionOnSet(g, S) + SumFunctionOnSet(h, S)
      /\ SumFunctionOnSet(fh, S) = SumFunctionOnSet(f, S) + SumFunctionOnSet(h, S)
  BY <1>1, SumPlus
<1>3. \A x \in S : gh[x] \in Int /\ fh[x] \in Int /\ f[x] =< gh[x] /\ g[x] =< fh[x]
  BY <1>1
<1>4. /\ SumFunctionOnSet(f, S) =< SumFunctionOnSet(gh, S)
      /\ SumFunctionOnSet(g, S) =< SumFunctionOnSet(fh, S)
  BY <1>3, SumMono
<1>5. /\ SumFunctionOnSet(f, S) \in Int /\ SumFunctionOnSet(g, S) \in Int /\ SumFunctionOnSet(h, S) \in Int
  BY SumType
<1> QED BY <1>2, <1>4, <1>5
=============================================================================
