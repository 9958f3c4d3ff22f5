---------------------------- MODULE PlayerProofs ----------------------------
(***************************************************************************)
(* The safety properties of the data of a role on the central server, for  *)
(* every value of the constants: of its bag (Backpack: any prototypes,     *)
(* stack sizes and limits), and of its level, experience and coins         *)
(* (PlayerData: any scene servers, levels and limits), with any number of  *)
(* operations, changes of scene server and crashes.                        *)
(*                                                                         *)
(* What the folds and recursive functions of the models compute is proved  *)
(* by hand, from a least counter-example (Least, LeastSubset). The second  *)
(* part takes its lemmas about sums from the first.                        *)
(***************************************************************************)
EXTENDS Backpack, PlayerData, TLAPS, WellFoundedInduction, FiniteSetTheorems

-----------------------------------------------------------------------------
(* The inductive invariant *)

Limited == {Normal, Bank}

Held(items, k) == {g \in DOMAIN items : items[g].pack = k}

\* Items under guids that were handed out, each stack neither empty nor over its size.
Stock(items, high) ==
  /\ items = [g \in DOMAIN items |-> items[g]]
  /\ DOMAIN items \subseteq 1..high
  /\ \A g \in DOMAIN items : items[g] \in Items
       /\ items[g].amount \in 1..MaxCount[items[g].proto]

\* The tables of the packs are what the items say.
Tables(b) ==
  /\ b = [item |-> b.item, packs |-> b.packs, high |-> b.high]
  /\ b.high \in Nat
  /\ b.packs = [k \in Packs |-> Held(b.item, k)]

Fits(items) == \A k \in Limited : Cardinality(Held(items, k)) <= GridLimit[k]

OneWorn(items) == \A g, h \in Held(items, Worn) :
  SubClass[items[g].proto] = SubClass[items[h].proto] => g = h

\* The writes of an operation, and what they leave alone.
Writable(w, high) == w \in Seq(SUBSET (1..high)) /\ \A i \in DOMAIN w : w[i] # {}
Pending(w) == UNION {w[i] : i \in DOMAIN w}

Alike(items, others, g) ==
  /\ g \in DOMAIN items <=> g \in DOMAIN others
  /\ g \in DOMAIN items => items[g] = others[g]

\* While the documents go from the items before to the items after, no item comes
\* into a pack with a limit as long as one has to leave it.
Ordered(before, after, w) ==
  \A k \in Limited : \A i, j \in DOMAIN w : i <= j =>
    \A g \in w[i], h \in w[j] :
      ~(g \in Held(after, k) \ Held(before, k) /\ h \in Held(before, k) \ Held(after, k))

\* The units of a prototype under one guid.
UnitsOf(items, g, p) == IF g \in DOMAIN items /\ items[g].proto = p THEN items[g].amount ELSE 0

\* No stack is lowered as long as one has to be raised.
RaisedFirst(before, after, w) ==
  \A p \in Protos : \A i, j \in DOMAIN w : i <= j =>
    \A g \in w[i], h \in w[j] :
      ~(UnitsOf(after, g, p) < UnitsOf(before, g, p) /\ UnitsOf(after, h, p) > UnitsOf(before, h, p))

MemoryInv == Tables(bag) /\ bag.high <= MaxGuid /\ Stock(bag.item, bag.high) /\ Fits(bag.item)
StoreInv == Stock(db, bag.high) /\ Fits(db)
WritesInv ==
  /\ Writable(writes, bag.high)
  /\ up => \A g \in 1..bag.high : g \in Pending(writes) \/ Alike(db, bag.item, g)
  /\ Ordered(db, bag.item, writes)
DownInv == ~up => writes = <<>> /\ bag.item = NoItems /\ op # "swap"
WornInv == crashes = 0 => OneWorn(bag.item) /\ (~up => OneWorn(db))
SwapInv == op = "swap" =>
  /\ RaisedFirst(db, bag.item, writes)
  /\ \A p \in Protos : Units(db, p) >= Units(bag.item, p)

BackpackInv ==
  /\ up \in BOOLEAN /\ crashes \in 0..MaxCrashes
  /\ MemoryInv /\ StoreInv /\ WritesInv /\ DownInv /\ WornInv /\ SwapInv

-----------------------------------------------------------------------------
(* Sums over finite functions.  What a fold computes is found by induction on  *)
(* the size of its domain, in the form that a set of numbers has a least one.  *)

\* A set of natural numbers has a least one.
LEMMA Least ==
  ASSUME NEW T, T \subseteq Nat, T # {}
  PROVE  \E n \in T : \A m \in T : n <= m
<1> DEFINE R == OpToRel(<, Nat)
<1>1. IsWellFoundedOn(R, Nat)
  BY NatLessThanWellFounded
<1>2. \A i, j \in Nat : i < j => <<i, j>> \in R
  BY DEF OpToRel
<1> HIDE DEF R
<1>3. PICK n \in T : \A m \in T : ~(<<m, n>> \in R)
  BY <1>1, WFMin
<1>4. ASSUME NEW m \in T PROVE n <= m
  <2>1. n \in Nat /\ m \in Nat
    OBVIOUS
  <2>2. ~(m < n)
    BY <1>2, <1>3, <2>1
  <2> QED BY <2>1, <2>2
<1> QED BY <1>4

\* Among the subsets of a finite set that are counter-examples there is one whose
\* subsets are none.
LEMMA LeastSubset ==
  ASSUME NEW D, IsFiniteSet(D), NEW C, C \subseteq SUBSET D, C # {}
  PROVE  \E s \in C : IsFiniteSet(s) /\ \A x \in s : s \ {x} \notin C
<1>1. \A s \in SUBSET D : IsFiniteSet(s) /\ Cardinality(s) \in Nat
  BY FS_Subset, FS_CardinalityType
<1> DEFINE T == {Cardinality(s) : s \in C}
<1>2. T \subseteq Nat /\ T # {}
  BY <1>1
<1> HIDE DEF T
<1>3. PICK n \in T : \A m \in T : n <= m
  BY <1>2, Least
<1>4. PICK s \in C : Cardinality(s) = n
  BY <1>3 DEF T
<1>5. ASSUME NEW x \in s, s \ {x} \in C PROVE FALSE
  <2>1. Cardinality(s \ {x}) = n - 1
    BY <1>1, <1>4, FS_RemoveElement
  <2>2. n \in Nat /\ n <= n - 1
    BY <1>2, <1>3, <1>5, <2>1 DEF T
  <2> QED BY <2>2
<1> QED BY <1>1, <1>4, <1>5

AnyOf(s) == CHOOSE x \in s : TRUE

\* The partial sums of f
IsIter(h, f) ==
  h = [s \in SUBSET DOMAIN f |-> IF s = {} THEN 0 ELSE f[AnyOf(s)] + h[s \ {AnyOf(s)}]]

\* The element a fold takes next is one of the set.
LEMMA AnyOfIn == \A s : s # {} => AnyOf(s) \in s
BY DEF AnyOf

\* The recursion of the fold over a finite function has a solution.
LEMMA IterExists ==
  ASSUME NEW f, IsFiniteSet(DOMAIN f)
  PROVE  \E h : IsIter(h, f)
<1> DEFINE D == DOMAIN f
           Value(h, s) == IF s = {} THEN 0 ELSE f[AnyOf(s)] + h[s \ {AnyOf(s)}]
           Upto(h, n) == \A s \in SUBSET D : Cardinality(s) <= n => h[s] = Value(h, s)
           Good(n) == \E h : h = [s \in SUBSET D |-> h[s]] /\ Upto(h, n)
           T == {n \in Nat : ~Good(n)}
<1>1. \A s \in SUBSET D : IsFiniteSet(s) /\ Cardinality(s) \in Nat
        /\ Cardinality(s) <= Cardinality(D)
  BY FS_Subset, FS_CardinalityType
<1>2. \A s \in SUBSET D : s # {} =>
        s \ {AnyOf(s)} \in SUBSET D /\ Cardinality(s \ {AnyOf(s)}) = Cardinality(s) - 1
  BY <1>1, AnyOfIn, FS_RemoveElement
<1>3. Good(0)
  <2> DEFINE h == [s \in SUBSET D |-> 0]
  <2>1. \A s \in SUBSET D : Cardinality(s) <= 0 => s = {}
    BY <1>1, FS_EmptySet
  <2>2. h = [s \in SUBSET D |-> h[s]] /\ Upto(h, 0)
    BY <2>1
  <2> QED BY <2>2
<1>4. ASSUME NEW n \in Nat, Good(n) PROVE Good(n + 1)
  <2>1. PICK g : g = [s \in SUBSET D |-> g[s]] /\ Upto(g, n)
    BY <1>4
  <2> DEFINE h == [s \in SUBSET D |-> Value(g, s)]
  <2>2. ASSUME NEW s \in SUBSET D, Cardinality(s) <= n + 1
        PROVE  h[s] = Value(h, s)
    <3>1. CASE s = {}
      BY <3>1
    <3>2. CASE s # {}
      <4>1. s \ {AnyOf(s)} \in SUBSET D /\ Cardinality(s \ {AnyOf(s)}) <= n
        BY <1>1, <1>2, <2>2, <3>2
      <4>2. g[s \ {AnyOf(s)}] = h[s \ {AnyOf(s)}]
        BY <2>1, <4>1
      <4> QED BY <3>2, <4>2
    <3> QED BY <3>1, <3>2
  <2>3. h = [s \in SUBSET D |-> h[s]]
    OBVIOUS
  <2> HIDE DEF h
  <2> QED BY <2>2, <2>3
<1> HIDE DEF Good
<1>5. T = {}
  <2> SUFFICES ASSUME T # {} PROVE FALSE
    OBVIOUS
  <2>1. PICK n \in T : \A m \in T : n <= m
    BY Least
  <2>2. n # 0 /\ n \in Nat
    BY <1>3
  <2>3. n - 1 \in Nat /\ ~(n - 1 \in T)
    BY <2>1, <2>2
  <2>4. Good(n)
    BY <1>4, <2>2, <2>3
  <2> QED BY <2>4
<1>6. Good(Cardinality(D))
  BY <1>1, <1>5
<1>7. PICK h : h = [s \in SUBSET D |-> h[s]] /\ Upto(h, Cardinality(D))
  BY <1>6 DEF Good
<1>8. h = [s \in SUBSET D |-> Value(h, s)]
  BY <1>1, <1>7
<1> QED BY <1>8 DEF IsIter

\* A sum is the value of that recursion on the whole domain.
LEMMA SumIter ==
  ASSUME NEW f, IsFiniteSet(DOMAIN f)
  PROVE  \E h : IsIter(h, f) /\ Sum(f) = h[DOMAIN f]
<1> DEFINE h == CHOOSE h : IsIter(h, f)
<1>1. IsIter(h, f)
  BY IterExists
<1>2. Sum(f) = h[DOMAIN f]
  BY DEF Sum, FoldFunction, FoldFunctionOnSet, MapThenFoldSet, IsIter, AnyOf
<1> QED BY <1>1, <1>2

\* The partial sums over a set depend on the values there only.
LEMMA IterSame ==
  ASSUME NEW f, NEW g, NEW h, NEW i, IsIter(h, f), IsIter(i, g), NEW D, IsFiniteSet(D),
         D \subseteq DOMAIN f, D \subseteq DOMAIN g, \A x \in D : f[x] = g[x]
  PROVE  h[D] = i[D]
<1> DEFINE C == {s \in SUBSET D : h[s] # i[s]}
<1>1. \A s \in SUBSET D :
        /\ h[s] = IF s = {} THEN 0 ELSE f[AnyOf(s)] + h[s \ {AnyOf(s)}]
        /\ i[s] = IF s = {} THEN 0 ELSE g[AnyOf(s)] + i[s \ {AnyOf(s)}]
  BY DEF IsIter
<1>2. C = {}
  <2> SUFFICES ASSUME C # {} PROVE FALSE
    OBVIOUS
  <2>1. PICK s \in C : \A x \in s : s \ {x} \notin C
    BY LeastSubset
  <2>2. s # {} /\ s \in SUBSET D
    BY <1>1
  <2>3. AnyOf(s) \in s
    BY <2>2, AnyOfIn
  <2>4. h[s \ {AnyOf(s)}] = i[s \ {AnyOf(s)}]
    BY <2>1, <2>2, <2>3
  <2>5. f[AnyOf(s)] = g[AnyOf(s)]
    BY <2>2, <2>3
  <2> QED BY <1>1, <2>2, <2>4, <2>5
<1> QED BY <1>2

Without(f, x) == [y \in DOMAIN f \ {x} |-> f[y]]

\* A sum is the value at the element taken first, and the sum of the rest.
LEMMA SumAnyOf ==
  ASSUME NEW f, IsFiniteSet(DOMAIN f), DOMAIN f # {}
  PROVE  Sum(f) = f[AnyOf(DOMAIN f)] + Sum(Without(f, AnyOf(DOMAIN f)))
<1> DEFINE D == DOMAIN f
           x == AnyOf(D)
           g == Without(f, x)
<1>1. x \in D /\ DOMAIN g = D \ {x} /\ \A y \in D \ {x} : g[y] = f[y]
  BY AnyOfIn DEF Without
<1>2. IsFiniteSet(D \ {x})
  BY FS_Subset
<1> HIDE DEF g, x
<1>3. PICK h : IsIter(h, f) /\ Sum(f) = h[D]
  BY SumIter
<1>4. PICK i : IsIter(i, g) /\ Sum(g) = i[D \ {x}]
  BY <1>1, <1>2, SumIter
<1>5. h[D \ {x}] = i[D \ {x}]
  BY <1>1, <1>2, <1>3, <1>4, IterSame
<1>6. h[D] = f[x] + h[D \ {x}]
  BY <1>3 DEF IsIter, x
<1> QED BY <1>3, <1>4, <1>5, <1>6 DEF g, x

\* The empty sum
LEMMA SumEmpty ==
  ASSUME NEW f, DOMAIN f = {}
  PROVE  Sum(f) = 0
<1>1. IsFiniteSet(DOMAIN f)
  BY FS_EmptySet
<1>2. PICK h : IsIter(h, f) /\ Sum(f) = h[DOMAIN f]
  BY <1>1, SumIter
<1> QED BY <1>2 DEF IsIter

\* The sum of a function's values on s
Part(f, s) == [x \in s |-> f[x]]

\* Leaving an element out of a part
LEMMA PartWithout ==
  ASSUME NEW f, NEW s, NEW x PROVE Without(Part(f, s), x) = Part(f, s \ {x})
BY DEF Without, Part

\* What a part of a function is
LEMMA PartFacts ==
  ASSUME NEW f, NEW s
  PROVE  DOMAIN Part(f, s) = s /\ \A x \in s : Part(f, s)[x] = f[x]
BY DEF Part

\* The same as SumAnyOf, for the sum over a set
LEMMA SumPart ==
  ASSUME NEW f, NEW s, IsFiniteSet(s), s # {}
  PROVE  Sum(Part(f, s)) = f[AnyOf(s)] + Sum(Part(f, s \ {AnyOf(s)}))
<1>1. AnyOf(s) \in s
  BY AnyOfIn
<1> QED BY <1>1, SumAnyOf, PartWithout, PartFacts

\* A sum of integers is an integer.
LEMMA SumInt ==
  ASSUME NEW D, IsFiniteSet(D), NEW f, \A x \in D : f[x] \in Int
  PROVE  Sum(Part(f, D)) \in Int
<1> DEFINE C == {s \in SUBSET D : Sum(Part(f, s)) \notin Int}
<1>1. C = {}
  <2> SUFFICES ASSUME C # {} PROVE FALSE
    OBVIOUS
  <2>1. PICK s \in C : IsFiniteSet(s) /\ \A x \in s : s \ {x} \notin C
    BY LeastSubset
  <2>2. s # {}
    <3>1. Sum(Part(f, {})) = 0
      BY SumEmpty, PartFacts
    <3> QED BY <3>1
  <2>3. AnyOf(s) \in s /\ s \in SUBSET D
    BY <2>2, AnyOfIn
  <2>4. Sum(Part(f, s \ {AnyOf(s)})) \in Int /\ f[AnyOf(s)] \in Int
    BY <2>1, <2>3
  <2> QED BY <2>1, <2>2, <2>4, SumPart
<1> QED BY <1>1

\* Any element may be taken out first.
LEMMA SumSplit ==
  ASSUME NEW D, IsFiniteSet(D), NEW f, \A x \in D : f[x] \in Int, NEW d \in D
  PROVE  Sum(Part(f, D)) = f[d] + Sum(Part(f, D \ {d}))
<1> DEFINE C == {s \in SUBSET D : \E x \in s : Sum(Part(f, s)) # f[x] + Sum(Part(f, s \ {x}))}
<1>1. C = {}
  <2> SUFFICES ASSUME C # {} PROVE FALSE
    OBVIOUS
  <2>1. PICK s \in C : IsFiniteSet(s) /\ \A x \in s : s \ {x} \notin C
    BY LeastSubset
  <2>2. PICK x \in s : Sum(Part(f, s)) # f[x] + Sum(Part(f, s \ {x}))
    BY <2>1
  <2>3. PICK p \in s : p = AnyOf(s)
    BY <2>2, AnyOfIn
  <2>4. Sum(Part(f, s)) = f[p] + Sum(Part(f, s \ {p}))
    BY <2>1, <2>2, <2>3, SumPart
  <2>5. p # x
    BY <2>2, <2>4
  <2>6. s \ {p} \in SUBSET D /\ s \ {x} \in SUBSET D
    BY <2>1
  <2>7. Sum(Part(f, s \ {p})) = f[x] + Sum(Part(f, (s \ {p}) \ {x}))
    BY <2>1, <2>5, <2>6
  <2>8. Sum(Part(f, s \ {x})) = f[p] + Sum(Part(f, (s \ {x}) \ {p}))
    BY <2>1, <2>5, <2>6
  <2>9. (s \ {x}) \ {p} = (s \ {p}) \ {x}
    OBVIOUS
  <2>10. IsFiniteSet((s \ {p}) \ {x}) /\ \A y \in (s \ {p}) \ {x} : f[y] \in Int
    BY <2>1, FS_Subset
  <2>11. Sum(Part(f, (s \ {p}) \ {x})) \in Int /\ f[x] \in Int /\ f[p] \in Int
    BY <2>1, <2>10, SumInt
  <2> DEFINE r == Sum(Part(f, (s \ {p}) \ {x}))
  <2>12. /\ Sum(Part(f, s)) = f[p] + (f[x] + r)
         /\ f[x] + Sum(Part(f, s \ {x})) = f[x] + (f[p] + r)
    BY <2>4, <2>7, <2>8, <2>9
  <2>13. r \in Int
    BY <2>11
  <2> HIDE DEF r
  <2> QED BY <2>2, <2>11, <2>12, <2>13
<1> QED BY <1>1
\* A sum over a set depends on the values on it only.
LEMMA PartSame ==
  ASSUME NEW f, NEW g, NEW s, \A x \in s : f[x] = g[x]
  PROVE  Part(f, s) = Part(g, s)
BY DEF Part

\* A function is the part of itself on its domain.
LEMMA PartSelf ==
  ASSUME NEW f, f = [x \in DOMAIN f |-> f[x]]
  PROVE  Part(f, DOMAIN f) = f
BY DEF Part

\* A sum of natural numbers is one.
LEMMA SumNat ==
  ASSUME NEW D, IsFiniteSet(D), NEW f, \A x \in D : f[x] \in Nat
  PROVE  Sum(Part(f, D)) \in Nat
<1> DEFINE C == {s \in SUBSET D : Sum(Part(f, s)) \notin Nat}
<1>1. C = {}
  <2> SUFFICES ASSUME C # {} PROVE FALSE
    OBVIOUS
  <2>1. PICK s \in C : IsFiniteSet(s) /\ \A x \in s : s \ {x} \notin C
    BY LeastSubset
  <2>2. s # {}
    <3>1. Sum(Part(f, {})) = 0
      BY SumEmpty, PartFacts
    <3> QED BY <3>1
  <2>3. AnyOf(s) \in s /\ s \in SUBSET D
    BY <2>2, AnyOfIn
  <2>4. Sum(Part(f, s \ {AnyOf(s)})) \in Nat /\ f[AnyOf(s)] \in Nat
    BY <2>1, <2>3
  <2> QED BY <2>1, <2>2, <2>4, SumPart
<1> QED BY <1>1

\* Greater values have a greater sum.
LEMMA SumMono ==
  ASSUME NEW D, IsFiniteSet(D), NEW f, NEW g,
         \A x \in D : f[x] \in Int /\ g[x] \in Int /\ f[x] <= g[x]
  PROVE  Sum(Part(f, D)) <= Sum(Part(g, D))
<1> DEFINE C == {s \in SUBSET D : ~(Sum(Part(f, s)) <= Sum(Part(g, s)))}
<1>1. C = {}
  <2> SUFFICES ASSUME C # {} PROVE FALSE
    OBVIOUS
  <2>1. PICK s \in C : IsFiniteSet(s) /\ \A x \in s : s \ {x} \notin C
    BY LeastSubset
  <2>2. s # {}
    <3>1. Sum(Part(f, {})) = 0 /\ Sum(Part(g, {})) = 0
      BY SumEmpty, PartFacts
    <3> QED BY <3>1
  <2>3. PICK a \in s : a = AnyOf(s)
    BY <2>2, AnyOfIn
  <2> DEFINE F == Sum(Part(f, s \ {a}))
             G == Sum(Part(g, s \ {a}))
  <2>4. IsFiniteSet(s \ {a}) /\ s \ {a} \in SUBSET D /\ a \in D
    BY <2>1, FS_Subset
  <2>5. F \in Int /\ G \in Int
    BY <2>4, SumInt
  <2>6. F <= G
    BY <2>1, <2>3, <2>4
  <2>7. Sum(Part(f, s)) = f[a] + F /\ Sum(Part(g, s)) = g[a] + G
    BY <2>1, <2>2, <2>3, SumPart
  <2> HIDE DEF F, G
  <2>8. f[a] + F <= g[a] + G
    BY <2>4, <2>5, <2>6
  <2> QED BY <2>1, <2>7, <2>8
<1> QED BY <1>1

\* The sum of two functions, added value by value
LEMMA SumPlus ==
  ASSUME NEW D, IsFiniteSet(D), NEW f, NEW g, NEW h,
         \A x \in D : f[x] \in Int /\ g[x] \in Int /\ h[x] = f[x] + g[x]
  PROVE  Sum(Part(h, D)) = Sum(Part(f, D)) + Sum(Part(g, D))
<1> DEFINE C == {s \in SUBSET D : Sum(Part(h, s)) # Sum(Part(f, s)) + Sum(Part(g, s))}
<1>1. C = {}
  <2> SUFFICES ASSUME C # {} PROVE FALSE
    OBVIOUS
  <2>1. PICK s \in C : IsFiniteSet(s) /\ \A x \in s : s \ {x} \notin C
    BY LeastSubset
  <2>2. s # {}
    <3>1. Sum(Part(f, {})) = 0 /\ Sum(Part(g, {})) = 0 /\ Sum(Part(h, {})) = 0
      BY SumEmpty, PartFacts
    <3> QED BY <3>1
  <2>3. PICK a \in s : a = AnyOf(s)
    BY <2>2, AnyOfIn
  <2> DEFINE F == Sum(Part(f, s \ {a}))
             G == Sum(Part(g, s \ {a}))
             H == Sum(Part(h, s \ {a}))
  <2>4. IsFiniteSet(s \ {a}) /\ s \ {a} \in SUBSET D /\ a \in D
    BY <2>1, FS_Subset
  <2>5. F \in Int /\ G \in Int
    BY <2>4, SumInt
  <2>6. H = F + G
    BY <2>1, <2>3, <2>4
  <2>7. /\ Sum(Part(f, s)) = f[a] + F /\ Sum(Part(g, s)) = g[a] + G
        /\ Sum(Part(h, s)) = h[a] + H
    BY <2>1, <2>2, <2>3, SumPart
  <2> HIDE DEF F, G, H
  <2>8. h[a] + H = (f[a] + F) + (g[a] + G)
    BY <2>4, <2>5, <2>6
  <2> QED BY <2>1, <2>7, <2>8
<1> QED BY <1>1

\* A sum of zeros
LEMMA SumNone ==
  ASSUME NEW D, IsFiniteSet(D), NEW f, \A x \in D : f[x] = 0
  PROVE  Sum(Part(f, D)) = 0
<1>1. \A x \in D : f[x] \in Int /\ f[x] = f[x] + f[x]
  OBVIOUS
<1>2. Sum(Part(f, D)) = Sum(Part(f, D)) + Sum(Part(f, D))
  BY <1>1, SumPlus
<1>3. Sum(Part(f, D)) \in Int
  BY <1>1, SumInt
<1> DEFINE n == Sum(Part(f, D))
<1> HIDE DEF n
<1>4. n = n + n /\ n \in Int
  BY <1>2, <1>3 DEF n
<1>5. n = 0
  BY <1>4
<1> QED BY <1>5 DEF n

\* Entries of nothing may be left out.
LEMMA SumSupport ==
  ASSUME NEW D, IsFiniteSet(D), NEW S, S \subseteq D, NEW f, \A x \in D : f[x] \in Int,
         \A x \in D \ S : f[x] = 0
  PROVE  Sum(Part(f, D)) = Sum(Part(f, S))
<1> DEFINE C == {s \in SUBSET D : S \subseteq s /\ Sum(Part(f, s)) # Sum(Part(f, S))}
<1>1. C = {}
  <2> SUFFICES ASSUME C # {} PROVE FALSE
    OBVIOUS
  <2>1. PICK s \in C : IsFiniteSet(s) /\ \A x \in s : s \ {x} \notin C
    <3>1. C \subseteq SUBSET D
      OBVIOUS
    <3> HIDE DEF C
    <3> QED BY <3>1, LeastSubset
  <2>2. s # S
    BY <2>1
  <2>3. PICK a \in s : a \notin S
    BY <2>1, <2>2
  <2>4. s \ {a} \in SUBSET D /\ S \subseteq s \ {a} /\ f[a] = 0
    BY <2>1, <2>3
  <2>5. Sum(Part(f, s \ {a})) = Sum(Part(f, S))
    BY <2>1, <2>4
  <2>6. Sum(Part(f, s)) = f[a] + Sum(Part(f, s \ {a}))
    BY <2>1, <2>3, SumSplit
  <2>7. IsFiniteSet(S)
    BY FS_Subset
  <2>8. Sum(Part(f, S)) \in Int
    BY <2>7, SumInt
  <2> DEFINE n == Sum(Part(f, S))
             m == Sum(Part(f, s \ {a}))
  <2>9. n \in Int /\ m = n /\ Sum(Part(f, s)) = f[a] + m
    BY <2>5, <2>6, <2>8
  <2> HIDE DEF m, n
  <2>10. f[a] + m = n
    BY <2>4, <2>9
  <2> QED BY <2>1, <2>9, <2>10 DEF n
<1> QED BY <1>1

\* A sum over a set is the sum over a part of it and over the rest.
LEMMA SumDisjoint ==
  ASSUME NEW D, IsFiniteSet(D), NEW S, S \subseteq D, NEW f, \A x \in D : f[x] \in Int
  PROVE  Sum(Part(f, D)) = Sum(Part(f, S)) + Sum(Part(f, D \ S))
<1> DEFINE g == [x \in D |-> IF x \in S THEN f[x] ELSE 0]
           h == [x \in D |-> IF x \in S THEN 0 ELSE f[x]]
<1>1. \A x \in D : g[x] \in Int /\ h[x] \in Int /\ f[x] = g[x] + h[x]
  OBVIOUS
<1>2. (\A x \in S : g[x] = f[x]) /\ (\A x \in D \ S : h[x] = f[x] /\ g[x] = 0)
        /\ \A x \in S : h[x] = 0
  OBVIOUS
<1> HIDE DEF g, h
<1>3. Sum(Part(f, D)) = Sum(Part(g, D)) + Sum(Part(h, D))
  BY <1>1, SumPlus
<1>4. Sum(Part(g, D)) = Sum(Part(g, S))
  BY <1>1, <1>2, SumSupport
<1>5. Sum(Part(h, D)) = Sum(Part(h, D \ S))
  <2>1. \A x \in D \ (D \ S) : h[x] = 0
    BY <1>2
  <2> QED BY <1>1, <2>1, SumSupport
<1>6. Part(g, S) = Part(f, S) /\ Part(h, D \ S) = Part(f, D \ S)
  BY <1>2, PartSame
<1> QED BY <1>3, <1>4, <1>5, <1>6

\* The units of a prototype, counted over all guids.
UnitsTable(items, p, D) == [g \in D |-> UnitsOf(items, g, p)]

\* The units of a prototype are the sum of the units under each guid.
LEMMA UnitsCounted ==
  ASSUME NEW items, NEW p, NEW D, IsFiniteSet(D), DOMAIN items \subseteq D,
         \A g \in DOMAIN items : items[g].amount \in Nat
  PROVE  /\ Units(items, p) = Sum(Part(UnitsTable(items, p, D), D))
         /\ \A g \in D : UnitsOf(items, g, p) \in Nat
<1> DEFINE S == {h \in DOMAIN items : items[h].proto = p}
           f == UnitsTable(items, p, D)
<1>1. \A g \in D : f[g] = UnitsOf(items, g, p) /\ UnitsOf(items, g, p) \in Nat
  BY DEF UnitsTable, UnitsOf
<1>2. S \subseteq D /\ (\A g \in D \ S : f[g] = 0) /\ \A g \in S : f[g] = items[g].amount
  BY DEF UnitsTable, UnitsOf
<1>3. Units(items, p) = Sum([g \in S |-> items[g].amount])
  BY DEF Units
<1>4. [g \in S |-> items[g].amount] = Part(f, S)
  BY <1>2 DEF Part
<1> HIDE DEF S, f
<1>5. Sum(Part(f, D)) = Sum(Part(f, S))
  BY <1>1, <1>2, SumSupport
<1> QED BY <1>1, <1>3, <1>4, <1>5 DEF f

-----------------------------------------------------------------------------
(* What the operations on the items in memory do *)

\* The packs, and those with a limit
LEMMA GridFacts ==
  /\ Packs = {Worn, Normal, Bank} /\ Limited \subseteq Packs
  /\ Worn # Normal /\ Worn # Bank /\ Normal # Bank
  /\ \A k \in Limited : GridLimit[k] \in Nat \ {0}
  /\ \A k \in Packs : k # Worn <=> k \in Limited
BY ConstantsAssumption DEF Packs, Limited, Worn, Normal, Bank

\* No prototype has a stack size of zero.
LEMMA MaxCountType == \A p \in Protos : MaxCount[p] \in Nat \ {0}
BY ConstantsAssumption

\* The fields of an item
LEMMA ItemFields ==
  ASSUME NEW i \in Items
  PROVE  i.proto \in Protos /\ i.amount \in Nat /\ i.bind \in BOOLEAN /\ i.pack \in Packs
BY DEF Items

\* An item from its fields
LEMMA ItemFrom ==
  ASSUME NEW p \in Protos, NEW n \in Nat, NEW d \in BOOLEAN, NEW k \in Packs
  PROVE  [proto |-> p, amount |-> n, bind |-> d, pack |-> k] \in Items
BY DEF Items

\* An item with another amount
LEMMA ItemAmount ==
  ASSUME NEW i \in Items, NEW n \in Nat
  PROVE  /\ [i EXCEPT !.amount = n] \in Items
         /\ [i EXCEPT !.amount = n].amount = n
         /\ [i EXCEPT !.amount = n].proto = i.proto
         /\ [i EXCEPT !.amount = n].pack = i.pack
         /\ [i EXCEPT !.amount = n].bind = i.bind
BY DEF Items

\* An item in another pack
LEMMA ItemPack ==
  ASSUME NEW i \in Items, NEW k \in Packs
  PROVE  /\ [i EXCEPT !.pack = k] \in Items
         /\ [i EXCEPT !.pack = k].amount = i.amount
         /\ [i EXCEPT !.pack = k].proto = i.proto
         /\ [i EXCEPT !.pack = k].pack = k
BY DEF Items

\* A bag whose tables are what its items say
LEMMA TablesFrom ==
  ASSUME NEW t, NEW s, NEW n \in Nat, s = [k \in Packs |-> Held(t, k)]
  PROVE  Tables([item |-> t, packs |-> s, high |-> n])
BY DEF Tables

\* The EXCEPT that replaces the items and the tables of the packs
LEMMA NewItemsAndPacks ==
  ASSUME NEW b, b = [item |-> b.item, packs |-> b.packs, high |-> b.high], NEW t, NEW s
  PROVE  [b EXCEPT !.item = t, !.packs = s] = [item |-> t, packs |-> s, high |-> b.high]
<1> DEFINE c == [b EXCEPT !.item = t, !.packs = s]
<1>1. DOMAIN b = {"item", "packs", "high"}
  OBVIOUS
<1>2. DOMAIN c = {"item", "packs", "high"}
  BY <1>1
<1>3. c.item = t /\ c.packs = s /\ c.high = b.high
  BY <1>1
<1>4. c = [x \in {"item", "packs", "high"} |-> c[x]]
  BY <1>1
<1> HIDE DEF c
<1> QED BY <1>3, <1>4

\* What SetItemAmount does
LEMMA SetAmountEffect ==
  ASSUME NEW b, Tables(b), NEW f
  PROVE  SetItemAmount(b, f) =
           [item |-> [g \in DOMAIN b.item |->
                       IF g \in DOMAIN f THEN [b.item[g] EXCEPT !.amount = f[g]] ELSE b.item[g]],
            packs |-> b.packs, high |-> b.high]
<1> DEFINE t == [g \in DOMAIN b.item |->
                  IF g \in DOMAIN f THEN [b.item[g] EXCEPT !.amount = f[g]] ELSE b.item[g]]
<1>1. SetItemAmount(b, f) = [b EXCEPT !.item = t]
  BY DEF SetItemAmount
<1> HIDE DEF t
<1>2. b = [item |-> b.item, packs |-> b.packs, high |-> b.high]
  BY DEF Tables
<1>3. [b EXCEPT !.item = t] = [item |-> t, packs |-> b.packs, high |-> b.high]
  BY <1>2
<1> QED BY <1>1, <1>3 DEF t

\* What RemoveItems does
LEMMA RemoveEffect ==
  ASSUME NEW b, b = [item |-> b.item, packs |-> b.packs, high |-> b.high], NEW S
  PROVE  RemoveItems(b, S) =
           [item |-> [g \in DOMAIN b.item \ S |-> b.item[g]],
            packs |-> [k \in Packs |-> b.packs[k] \ S], high |-> b.high]
<1> DEFINE t == [g \in DOMAIN b.item \ S |-> b.item[g]]
           s == [k \in Packs |-> b.packs[k] \ S]
<1>1. RemoveItems(b, S) = [b EXCEPT !.item = t, !.packs = s]
  BY DEF RemoveItems, Restrict
<1> HIDE DEF t, s
<1>2. [b EXCEPT !.item = t, !.packs = s] = [item |-> t, packs |-> s, high |-> b.high]
  BY NewItemsAndPacks
<1> QED BY <1>1, <1>2 DEF t, s

\* What MoveItem does: the item is in the table of its new pack only.
LEMMA MoveEffect ==
  ASSUME NEW b, Tables(b), NEW g \in DOMAIN b.item, b.item[g].pack \in Packs, NEW k \in Packs,
         k # b.item[g].pack
  PROVE  MoveItem(b, g, k) =
           [item |-> [h \in DOMAIN b.item |->
                       IF h = g THEN [b.item[g] EXCEPT !.pack = k] ELSE b.item[h]],
            packs |-> [l \in Packs |-> IF l = k THEN b.packs[l] \cup {g} ELSE b.packs[l] \ {g}],
            high |-> b.high]
<1> DEFINE t == [h \in DOMAIN b.item |->
                  IF h = g THEN [b.item[g] EXCEPT !.pack = k] ELSE b.item[h]]
           s == [l \in Packs |-> IF l = k THEN b.packs[l] \cup {g} ELSE b.packs[l] \ {g}]
           l0 == b.item[g].pack
           s1 == [b.packs EXCEPT ![l0] = @ \ {g}]
           i == [b.item[g] EXCEPT !.pack = k]
<1>1. Detached(b, g) = [b EXCEPT !.packs = s1]
  <2>1. b = [item |-> b.item, packs |-> b.packs, high |-> b.high]
    BY DEF Tables
  <2> QED BY <2>1 DEF Detached
<1>2. [b EXCEPT !.packs = s1] = [item |-> b.item, packs |-> s1, high |-> b.high]
  <2> HIDE DEF s1
  <2> QED BY DEF Tables
<1>3. MoveItem(b, g, k) =
        [Detached(b, g) EXCEPT !.item = With(Detached(b, g).item, Only(g, i)), !.packs[k] = @ \cup {g}]
  BY DEF MoveItem, AddItemToSpecifyPack
<1>4. With(b.item, Only(g, i)) = t
  BY DEF With, Only
<1>5. [s1 EXCEPT ![k] = @ \cup {g}] = s
  BY DEF Tables, Held
<1>6. [Detached(b, g) EXCEPT !.item = With(Detached(b, g).item, Only(g, i)), !.packs[k] = @ \cup {g}]
      = [item |-> With(b.item, Only(g, i)), packs |-> [s1 EXCEPT ![k] = @ \cup {g}], high |-> b.high]
  <2> DEFINE c == Detached(b, g)
             u == With(b.item, Only(g, i))
             s2 == [s1 EXCEPT ![k] = @ \cup {g}]
  <2>1. c.item = b.item /\ c.packs = s1 /\ c.high = b.high
          /\ c = [item |-> b.item, packs |-> s1, high |-> b.high]
    BY <1>1, <1>2
  <2>2. c = [item |-> c.item, packs |-> c.packs, high |-> c.high]
    BY <2>1
  <2>3. [c EXCEPT !.item = With(c.item, Only(g, i)), !.packs[k] = @ \cup {g}]
          = [c EXCEPT !.item = u, !.packs = s2]
    <3> HIDE DEF c, i, s1
    <3> QED BY <2>1
  <2>4. b.high = c.high
    BY <2>1
  <2> HIDE DEF c, u, s2
  <2>5. [c EXCEPT !.item = u, !.packs = s2] = [item |-> u, packs |-> s2, high |-> c.high]
    BY <2>2, NewItemsAndPacks
  <2> QED BY <2>3, <2>4, <2>5 DEF c, u, s2
<1> QED BY <1>3, <1>4, <1>5, <1>6

-----------------------------------------------------------------------------
(* Items that stay where they are *)

\* There are finitely many items.
LEMMA StockFinite ==
  ASSUME NEW items, NEW n \in Nat, Stock(items, n)
  PROVE  IsFiniteSet(DOMAIN items) /\ \A k \in Packs : IsFiniteSet(Held(items, k))
<1>1. IsFiniteSet(1..n)
  BY FS_Interval
<1>2. DOMAIN items \subseteq 1..n /\ \A k \in Packs : Held(items, k) \subseteq 1..n
  BY DEF Stock, Held
<1> QED BY <1>1, <1>2, FS_Subset

\* The table of each pack
LEMMA TablesHold ==
  ASSUME NEW b, Tables(b)
  PROVE  (\A k \in Packs : b.packs[k] = Held(b.item, k)) /\ b.high \in Nat
BY DEF Tables

\* No item moves to another pack, and none is new.
Stays(before, after) ==
  /\ DOMAIN after \subseteq DOMAIN before
  /\ \A g \in DOMAIN after : after[g].pack = before[g].pack /\ after[g].proto = before[g].proto

\* When no item moves, nothing comes into a pack, and no second item is worn.
LEMMA StaysHeld ==
  ASSUME NEW before, NEW after, Stays(before, after)
  PROVE  /\ \A k \in Packs : Held(after, k) = Held(before, k) \cap DOMAIN after
         /\ \A w : Ordered(before, after, w)
         /\ OneWorn(before) => OneWorn(after)
<1>1. \A k : Held(after, k) = Held(before, k) \cap DOMAIN after
  BY DEF Stays, Held
<1>2. \A w : Ordered(before, after, w)
  BY <1>1 DEF Ordered
<1>3. ASSUME OneWorn(before) PROVE OneWorn(after)
  <2>1. Held(after, Worn) \subseteq Held(before, Worn)
          /\ Held(after, Worn) \subseteq DOMAIN after
    BY <1>1
  <2>2. \A g \in Held(after, Worn) : after[g].proto = before[g].proto
    BY <2>1 DEF Stays
  <2> QED BY <1>3, <2>1, <2>2 DEF OneWorn
<1> QED BY <1>1, <1>2, <1>3

\* A pack that only loses items stays within its limit.
LEMMA FewerFit ==
  ASSUME NEW before, NEW after, NEW n \in Nat, Stock(before, n), Fits(before),
         \A k \in Limited : Held(after, k) \subseteq Held(before, k)
  PROVE  Fits(after)
<1>1. \A k \in Limited : IsFiniteSet(Held(before, k))
  BY StockFinite, GridFacts
<1>2. \A k \in Limited : Cardinality(Held(after, k)) <= Cardinality(Held(before, k))
                         /\ Cardinality(Held(after, k)) \in Nat
                              /\ Cardinality(Held(before, k)) \in Nat
  BY <1>1, FS_Subset, FS_CardinalityType
<1> QED BY <1>2, GridFacts DEF Fits

\* The same, when no item moves
LEMMA StaysFit ==
  ASSUME NEW before, NEW after, Stays(before, after), NEW n \in Nat, Stock(before, n),
    Fits(before)
  PROVE  Fits(after)
<1>1. \A k \in Limited : Held(after, k) \subseteq Held(before, k)
  BY StaysHeld, GridFacts
<1> QED BY <1>1, FewerFit

\* Handing out more guids changes nothing for the items there are.
LEMMA StockGrows ==
  ASSUME NEW items, NEW n \in Nat, NEW m \in Nat, n <= m, Stock(items, n)
  PROVE  Stock(items, m)
<1>1. 1..n \subseteq 1..m
  OBVIOUS
<1> QED BY <1>1 DEF Stock

-----------------------------------------------------------------------------
(* What is to be shown of an operation *)

\* An operation may leave the items b and the writes w.
Sound(b, w) ==
  /\ Tables(b) /\ b.high >= bag.high /\ Stock(b.item, b.high) /\ Fits(b.item)
  /\ Writable(w, b.high)
  /\ \A g \in 1..b.high : g \in Pending(w) \/ Alike(bag.item, b.item, g)
  /\ Ordered(bag.item, b.item, w)
  /\ OneWorn(bag.item) => OneWorn(b.item)

\* Once nothing is left to be written, the documents are the items in memory.
LEMMA Settled ==
  ASSUME BackpackInv, up, writes = <<>>
  PROVE  db = bag.item
<1>1. Pending(writes) = {}
  BY DEF Pending
<1>2. \A g \in 1..bag.high : Alike(db, bag.item, g)
  BY <1>1 DEF BackpackInv, WritesInv
<1>3. DOMAIN db \subseteq 1..bag.high /\ DOMAIN bag.item \subseteq 1..bag.high
  BY DEF BackpackInv, StoreInv, MemoryInv, Stock
<1>4. DOMAIN db = DOMAIN bag.item /\ \A g \in DOMAIN db : db[g] = bag.item[g]
  BY <1>2, <1>3 DEF Alike
<1>5. db = [g \in DOMAIN db |-> db[g]] /\ bag.item = [g \in DOMAIN bag.item |-> bag.item[g]]
  BY DEF BackpackInv, StoreInv, MemoryInv, Stock
<1> QED BY <1>4, <1>5

\* An operation that leaves sound items and writes keeps the invariant.
LEMMA Performed ==
  ASSUME BackpackInv, Ready, NEW name, NEW b, NEW w, Perform(name, b, w), Sound(b, w),
         name = "swap" => /\ RaisedFirst(bag.item, b.item, w)
                          /\ \A p \in Protos : Units(b.item, p) = Units(bag.item, p)
  PROVE  BackpackInv'
<1>1. b.high <= MaxGuid /\ bag' = b /\ writes' = w /\ op' = name /\ db' = db /\ up' = up
      /\ crashes' = crashes /\ up
  BY DEF Perform, Ready
<1>2. db = bag.item
  BY Settled DEF Ready
<1>3. MemoryInv'
  <2>1. Tables(b) /\ b.high <= MaxGuid /\ Stock(b.item, b.high) /\ Fits(b.item)
    BY <1>1 DEF Sound
  <2> QED BY <1>1, <2>1 DEF MemoryInv
<1>4. StoreInv'
  <2>1. bag.high \in Nat /\ b.high \in Nat /\ bag.high <= b.high
    BY DEF Sound, Tables, BackpackInv, MemoryInv
  <2>2. Stock(db, b.high) /\ Fits(db)
    BY <2>1, StockGrows DEF BackpackInv, StoreInv
  <2> QED BY <1>1, <2>2 DEF StoreInv
<1>5. WritesInv'
  <2>1. Writable(w, b.high) /\ (\A g \in 1..b.high : g \in Pending(w) \/ Alike(db, b.item, g))
        /\ Ordered(db, b.item, w)
    BY <1>2 DEF Sound
  <2> QED BY <1>1, <2>1 DEF WritesInv
<1>6. DownInv'
  BY <1>1 DEF DownInv
<1>7. WornInv'
  <2>1. crashes = 0 => OneWorn(b.item)
    BY DEF Sound, BackpackInv, WornInv
  <2> QED BY <1>1, <2>1 DEF WornInv
<1>8. SwapInv'
  <2>1. ASSUME name = "swap"
        PROVE  RaisedFirst(db, b.item, w) /\ \A p \in Protos : Units(db, p) >= Units(b.item, p)
    <3>1. \A p \in Protos : Units(db, p) = Units(b.item, p)
      BY <1>2, <2>1
    <3>2. \A p \in Protos : Units(db, p) \in Nat
      <4>1. IsFiniteSet(DOMAIN db) /\ \A g \in DOMAIN db : db[g].amount \in Nat
        BY StockFinite, ItemFields DEF BackpackInv, StoreInv, MemoryInv, Tables, Stock
      <4>2. \A p \in Protos : Units(db, p) = Sum(Part(UnitsTable(db, p, DOMAIN db), DOMAIN db))
                              /\ \A g \in DOMAIN db : UnitsOf(db, g, p) \in Nat
        BY <4>1, UnitsCounted
      <4>3. \A p \in Protos : \A g \in DOMAIN db : UnitsTable(db, p, DOMAIN db)[g] \in Nat
        BY <4>2 DEF UnitsTable
      <4> QED BY <4>1, <4>2, <4>3, SumNat
    <3> QED BY <1>2, <2>1, <3>1, <3>2
  <2> QED BY <1>1, <2>1 DEF SwapInv
<1> QED BY <1>1, <1>3, <1>4, <1>5, <1>6, <1>7, <1>8 DEF BackpackInv

\* When no item moves, the order of the writes does not matter.
LEMMA SoundIfStays ==
  ASSUME BackpackInv, NEW b, NEW w, Tables(b), b.high = bag.high, Stock(b.item, b.high),
         Stays(bag.item, b.item), Writable(w, bag.high),
         \A g \in 1..bag.high : g \in Pending(w) \/ Alike(bag.item, b.item, g)
  PROVE  Sound(b, w)
<1>1. Fits(b.item)
  BY StaysFit DEF BackpackInv, MemoryInv, Tables
<1>2. Ordered(bag.item, b.item, w) /\ (OneWorn(bag.item) => OneWorn(b.item))
  BY StaysHeld
<1> QED BY <1>1, <1>2 DEF Sound, BackpackInv, MemoryInv, Tables

\* The writes of one loop
LEMMA LoopFacts ==
  ASSUME NEW n \in Nat, NEW S, S \subseteq 1..n
  PROVE  Writable(Loop(S), n) /\ Pending(Loop(S)) = S /\ Len(Loop(S)) \in {0, 1}
<1>1. CASE S = {}
  BY <1>1 DEF Loop, Writable, Pending
<1>2. CASE S # {}
  <2>1. Loop(S) = <<S>>
    BY <1>2 DEF Loop
  <2>2. <<S>> \in Seq(SUBSET (1..n)) /\ DOMAIN <<S>> = {1} /\ <<S>>[1] = S /\ Len(<<S>>) = 1
    OBVIOUS
  <2> QED BY <1>2, <2>1, <2>2 DEF Writable, Pending
<1> QED BY <1>1, <1>2

\* The elements of a concatenation
LEMMA Concatenated ==
  ASSUME NEW S, NEW v \in Seq(S), NEW w \in Seq(S), NEW m, m = Len(v), NEW n, n = Len(w)
  PROVE  /\ v \o w \in Seq(S) /\ Len(v \o w) = m + n
         /\ \A i \in 1..m : (v \o w)[i] = v[i]
         /\ \A i \in m + 1 .. m + n : (v \o w)[i] = w[i - m]
OBVIOUS

\* Writes made one after the other
LEMMA AfterFacts ==
  ASSUME NEW n \in Nat, NEW v, Writable(v, n), NEW w, Writable(w, n)
  PROVE  /\ Writable(v \o w, n) /\ Pending(v \o w) = Pending(v) \cup Pending(w)
         /\ Len(v \o w) = Len(v) + Len(w)
         /\ \A i \in 1..Len(v) : (v \o w)[i] = v[i]
         /\ \A i \in Len(v) + 1 .. Len(v) + Len(w) : (v \o w)[i] = w[i - Len(v)]
<1> DEFINE u == v \o w
<1>1. v \in Seq(SUBSET (1..n)) /\ w \in Seq(SUBSET (1..n))
  BY DEF Writable
<1>2. u \in Seq(SUBSET (1..n)) /\ Len(u) = Len(v) + Len(w) /\ Len(v) \in Nat /\ Len(w) \in Nat
      /\ DOMAIN u = 1 .. Len(v) + Len(w) /\ DOMAIN v = 1..Len(v) /\ DOMAIN w = 1..Len(w)
  BY <1>1
<1>3. \A i \in 1..Len(v) : u[i] = v[i]
  BY <1>1
<1>4. \A i \in Len(v) + 1 .. Len(v) + Len(w) : u[i] = w[i - Len(v)]
  BY <1>1
<1> HIDE DEF u
<1>5. \A i \in DOMAIN u : u[i] # {}
  <2> TAKE i \in DOMAIN u
  <2>1. CASE i \in 1..Len(v)
    BY <1>2, <1>3, <2>1 DEF Writable
  <2>2. CASE i \in Len(v) + 1 .. Len(v) + Len(w)
    <3>1. i - Len(v) \in DOMAIN w
      BY <1>2, <2>2
    <3> QED BY <1>4, <2>2, <3>1 DEF Writable
  <2> QED BY <1>2, <2>1, <2>2
<1>6. Pending(u) \subseteq Pending(v) \cup Pending(w)
  <2> SUFFICES ASSUME NEW i \in DOMAIN u PROVE u[i] \subseteq Pending(v) \cup Pending(w)
    BY DEF Pending
  <2>1. CASE i \in 1..Len(v)
    BY <1>2, <1>3, <2>1 DEF Pending
  <2>2. CASE i \in Len(v) + 1 .. Len(v) + Len(w)
    <3>1. i - Len(v) \in DOMAIN w
      BY <1>2, <2>2
    <3> QED BY <1>4, <2>2, <3>1 DEF Pending
  <2> QED BY <1>2, <2>1, <2>2
<1>7. Pending(v) \subseteq Pending(u)
  <2> SUFFICES ASSUME NEW i \in DOMAIN v PROVE v[i] \subseteq Pending(u)
    BY DEF Pending
  <2>1. i \in DOMAIN u /\ u[i] = v[i]
    BY <1>2, <1>3
  <2> QED BY <2>1 DEF Pending
<1>8. Pending(w) \subseteq Pending(u)
  <2> SUFFICES ASSUME NEW i \in DOMAIN w PROVE w[i] \subseteq Pending(u)
    BY DEF Pending
  <2>1. Len(v) + i \in Len(v) + 1 .. Len(v) + Len(w) /\ (Len(v) + i) - Len(v) = i
    BY <1>2
  <2>2. Len(v) + i \in DOMAIN u /\ u[Len(v) + i] = w[i]
    BY <1>2, <1>4, <2>1
  <2> QED BY <2>2 DEF Pending
<1> QED BY <1>2, <1>3, <1>4, <1>5, <1>6, <1>7, <1>8 DEF u, Writable

-----------------------------------------------------------------------------
(* Taking units and items away *)

\* A bag that is left with some of its items, with other amounts
LEMMA Rebuilt ==
  ASSUME NEW b, Tables(b), Stock(b.item, b.high), NEW t, t = [g \in DOMAIN t |-> t[g]],
         Stays(b.item, t),
         \A g \in DOMAIN t : t[g] \in Items /\ t[g].amount \in 1..MaxCount[t[g].proto],
         NEW s, s = [k \in Packs |-> b.packs[k] \cap DOMAIN t],
         NEW c, c = [item |-> t, packs |-> s, high |-> b.high]
  PROVE  /\ Tables(c) /\ Stock(c.item, c.high) /\ Stays(b.item, c.item)
         /\ c.item = t /\ c.high = b.high
<1>1. c.item = t /\ c.packs = s /\ c.high = b.high /\ b.high \in Nat
  BY DEF Tables
<1>2. \A k \in Packs : Held(t, k) = b.packs[k] \cap DOMAIN t
  BY StaysHeld, TablesHold
<1>3. s = [k \in Packs |-> Held(t, k)]
  BY <1>2
<1>4. Tables(c)
  BY <1>1, <1>3 DEF Tables
<1>5. Stock(t, b.high)
  BY DEF Stock, Stays
<1> QED BY <1>1, <1>4, <1>5

\* Some stacks get other amounts, and those of S go.
LEMMA Reduced ==
  ASSUME NEW b, Tables(b), Stock(b.item, b.high), NEW f, NEW S, NEW c,
         c = RemoveItems(SetItemAmount(b, f), S),
         \A g \in (DOMAIN f \cap DOMAIN b.item) \ S : f[g] \in 1..MaxCount[b.item[g].proto]
  PROVE  /\ Tables(c) /\ Stock(c.item, c.high) /\ Stays(b.item, c.item) /\ c.high = b.high
         /\ DOMAIN c.item = DOMAIN b.item \ S
         /\ \A g \in DOMAIN c.item \cap DOMAIN f :
              c.item[g].amount = f[g] /\ (f[g] = b.item[g].amount => c.item[g] = b.item[g])
         /\ \A g \in DOMAIN c.item \ DOMAIN f : c.item[g] = b.item[g]
<1> DEFINE a == [g \in DOMAIN b.item |->
                  IF g \in DOMAIN f THEN [b.item[g] EXCEPT !.amount = f[g]] ELSE b.item[g]]
           d == [item |-> a, packs |-> b.packs, high |-> b.high]
           t == [g \in DOMAIN a \ S |-> a[g]]
           s == [k \in Packs |-> b.packs[k] \ S]
<1>1. SetItemAmount(b, f) = d
  BY SetAmountEffect
<1>2. d.item = a /\ d.packs = b.packs /\ d.high = b.high
        /\ d = [item |-> d.item, packs |-> d.packs, high |-> d.high]
  OBVIOUS
<1> HIDE DEF a, d
<1>3. c = [item |-> t, packs |-> s, high |-> b.high]
  <2>1. RemoveItems(d, S) = [item |-> [g \in DOMAIN d.item \ S |-> d.item[g]],
                             packs |-> [k \in Packs |-> d.packs[k] \ S], high |-> d.high]
    BY <1>2, RemoveEffect
  <2> QED BY <1>1, <1>2, <2>1
<1>4. DOMAIN a = DOMAIN b.item
  BY DEF a
<1>5. \A g \in DOMAIN b.item : b.item[g] \in Items
        /\ b.item[g].amount \in 1..MaxCount[b.item[g].proto]
                               /\ b.item[g].proto \in Protos
  BY ItemFields DEF Stock
<1>6. \A g \in DOMAIN t : /\ t[g] \in Items /\ t[g].amount \in 1..MaxCount[t[g].proto]
                          /\ t[g].pack = b.item[g].pack /\ t[g].proto = b.item[g].proto
                          /\ (g \in DOMAIN f => t[g].amount = f[g])
                          /\ (g \in DOMAIN f /\ f[g] = b.item[g].amount => t[g] = b.item[g])
                          /\ (g \notin DOMAIN f => t[g] = b.item[g])
  <2> TAKE g \in DOMAIN t
  <2>1. g \in DOMAIN b.item /\ g \notin S /\ t[g] = a[g]
    BY <1>4
  <2>2. CASE g \in DOMAIN f
    <3>1. t[g] = [b.item[g] EXCEPT !.amount = f[g]]
      BY <2>1, <2>2 DEF a
    <3>2. f[g] \in 1..MaxCount[b.item[g].proto] /\ f[g] \in Nat
      BY <1>5, <2>1, <2>2, MaxCountType
    <3>3. b.item[g] \in Items
      BY <1>5, <2>1
    <3> HIDE DEF t
    <3>4. f[g] = b.item[g].amount => t[g] = b.item[g]
      BY <3>1, <3>3 DEF Items
    <3> QED BY <2>2, <3>1, <3>2, <3>3, <3>4, ItemAmount
  <2>3. CASE g \notin DOMAIN f
    <3>1. t[g] = b.item[g]
      BY <2>1, <2>3 DEF a
    <3> HIDE DEF t
    <3> QED BY <1>5, <2>1, <2>3, <3>1
  <2> QED BY <2>2, <2>3
<1>7. DOMAIN t = DOMAIN b.item \ S /\ t = [g \in DOMAIN t |-> t[g]]
  BY <1>4
<1>8. s = [k \in Packs |-> b.packs[k] \cap DOMAIN t]
  <2>1. \A k \in Packs : b.packs[k] \subseteq DOMAIN b.item
    BY TablesHold DEF Held
  <2> QED BY <1>7, <2>1
<1> HIDE DEF t, s
<1>9. Stays(b.item, t)
  BY <1>6, <1>7 DEF Stays
<1>10. /\ Tables(c) /\ Stock(c.item, c.high) /\ Stays(b.item, c.item)
       /\ c.item = t /\ c.high = b.high
  BY <1>3, <1>6, <1>7, <1>8, <1>9, Rebuilt
<1> QED BY <1>6, <1>7, <1>10

\* The same, without a change of amounts
LEMMA Removed ==
  ASSUME NEW b, Tables(b), Stock(b.item, b.high), NEW S, NEW c, c = RemoveItems(b, S)
  PROVE  /\ Tables(c) /\ Stock(c.item, c.high) /\ Stays(b.item, c.item) /\ c.high = b.high
         /\ DOMAIN c.item = DOMAIN b.item \ S
         /\ \A g \in DOMAIN c.item : c.item[g] = b.item[g]
<1> DEFINE t == [g \in DOMAIN b.item \ S |-> b.item[g]]
           s == [k \in Packs |-> b.packs[k] \ S]
<1>1. b = [item |-> b.item, packs |-> b.packs, high |-> b.high]
  BY DEF Tables
<1>2. c = [item |-> t, packs |-> s, high |-> b.high]
  BY <1>1, RemoveEffect
<1>3. \A g \in DOMAIN t : t[g] \in Items /\ t[g].amount \in 1..MaxCount[t[g].proto]
        /\ t[g] = b.item[g]
  BY DEF Stock
<1>4. DOMAIN t = DOMAIN b.item \ S /\ t = [g \in DOMAIN t |-> t[g]]
  OBVIOUS
<1>5. s = [k \in Packs |-> b.packs[k] \cap DOMAIN t]
  <2>1. \A k \in Packs : b.packs[k] \subseteq DOMAIN b.item
    BY TablesHold DEF Held
  <2> QED BY <1>4, <2>1
<1> HIDE DEF t, s
<1>6. Stays(b.item, t)
  BY <1>3, <1>4 DEF Stays
<1>7. /\ Tables(c) /\ Stock(c.item, c.high) /\ Stays(b.item, c.item)
      /\ c.item = t /\ c.high = b.high
  BY <1>2, <1>3, <1>4, <1>5, <1>6, Rebuilt
<1> QED BY <1>3, <1>4, <1>7

\* What the invariant says of the bag
LEMMA BagFacts ==
  ASSUME BackpackInv
  PROVE  /\ Tables(bag) /\ bag.high \in Nat /\ Stock(bag.item, bag.high) /\ Fits(bag.item)
         /\ \A k \in Packs : bag.packs[k] = Held(bag.item, k)
         /\ DOMAIN bag.item \subseteq 1..bag.high
         /\ \A g \in DOMAIN bag.item :
              /\ bag.item[g] \in Items /\ bag.item[g].proto \in Protos
              /\ bag.item[g].pack \in Packs
              /\ bag.item[g].amount \in 1..MaxCount[bag.item[g].proto]
              /\ bag.item[g].amount \in Nat \ {0} /\ MaxCount[bag.item[g].proto] \in Nat \ {0}
<1>1. Tables(bag) /\ Stock(bag.item, bag.high) /\ Fits(bag.item)
  BY DEF BackpackInv, MemoryInv
<1>2. \A g \in DOMAIN bag.item :
        bag.item[g] \in Items /\ bag.item[g].amount \in 1..MaxCount[bag.item[g].proto]
  BY <1>1 DEF Stock
<1>3. \A g \in DOMAIN bag.item : bag.item[g].proto \in Protos /\ bag.item[g].pack \in Packs
                                 /\ bag.item[g].amount \in Nat
  BY <1>2, ItemFields
<1>4. \A g \in DOMAIN bag.item : MaxCount[bag.item[g].proto] \in Nat \ {0}
  BY <1>3, MaxCountType
<1>5. \A g \in DOMAIN bag.item : bag.item[g].amount # 0
  BY <1>2, <1>3, <1>4
<1> QED BY <1>1, <1>2, <1>3, <1>4, <1>5, TablesHold DEF Stock

\* The items of one loop are written, the others are as they were.
LEMMA SoundLoop ==
  ASSUME BackpackInv, NEW c, Tables(c), Stock(c.item, c.high), Stays(bag.item, c.item),
         c.high = bag.high, NEW S, S \subseteq 1..bag.high,
         \A g \in DOMAIN bag.item \ S : g \in DOMAIN c.item /\ c.item[g] = bag.item[g]
  PROVE  Sound(c, Loop(S))
<1>1. Writable(Loop(S), bag.high) /\ Pending(Loop(S)) = S
  BY BagFacts, LoopFacts
<1>2. \A g \in 1..bag.high : g \in S \/ Alike(bag.item, c.item, g)
  BY DEF Alike, Stays
<1> QED BY <1>1, <1>2, SoundIfStays

\* HandleUseItem keeps the invariant.
LEMMA UseStep ==
  ASSUME BackpackInv, NEW g, NEW n \in Amounts, HandleUseItem(g, n)
  PROVE  BackpackInv'
<1> DEFINE i == bag.item[g]
           binds == BindType[i.proto] = "USE_TO_BIND"
           c == [bag EXCEPT !.item[g].amount = @ - n, !.item[g].bind = @ \/ binds]
<1>1. Ready /\ g \in bag.packs[Normal]
  BY DEF HandleUseItem
<1>2. g \in DOMAIN bag.item /\ n \in Nat \ {0}
  BY <1>1, BagFacts, GridFacts, ConstantsAssumption DEF Held, Amounts
<1>3. {g} \subseteq 1..bag.high /\ Loop({g}) = <<{g}>>
  BY <1>2, BagFacts DEF Loop
<1>4. ASSUME Perform("use", RemoveItems(bag, {g}), <<{g}>>) PROVE BackpackInv'
  <2> DEFINE d == RemoveItems(bag, {g})
  <2>1. /\ Tables(d) /\ Stock(d.item, d.high) /\ Stays(bag.item, d.item) /\ d.high = bag.high
        /\ DOMAIN d.item = DOMAIN bag.item \ {g}
             /\ \A h \in DOMAIN d.item : d.item[h] = bag.item[h]
    BY BagFacts, Removed
  <2> HIDE DEF d
  <2>2. Sound(d, Loop({g}))
    BY <1>3, <2>1, SoundLoop
  <2> QED BY <1>1, <1>3, <1>4, <2>2, Performed DEF d
<1>5. ASSUME n < i.amount, Perform("use", c, <<{g}>>) PROVE BackpackInv'
  <2> DEFINE j == [[i EXCEPT !.amount = i.amount - n] EXCEPT !.bind = i.bind \/ binds]
             t == [h \in DOMAIN bag.item |-> IF h = g THEN j ELSE bag.item[h]]
  <2>1. c = [bag EXCEPT !.item = [bag.item EXCEPT ![g] = j]]
    OBVIOUS
  <2>2. [bag.item EXCEPT ![g] = j] = t
    BY BagFacts DEF Stock
  <2>3. j \in Items /\ j.amount = i.amount - n /\ j.proto = i.proto /\ j.pack = i.pack
    <3>1. i \in Items /\ i.amount - n \in Nat
      BY <1>2, <1>5, BagFacts
    <3> HIDE DEF i
    <3> QED BY <3>1 DEF Items
  <2> HIDE DEF j, c
  <2>4. c = [item |-> t, packs |-> bag.packs, high |-> bag.high]
    <3> HIDE DEF t
    <3>1. bag = [item |-> bag.item, packs |-> bag.packs, high |-> bag.high]
      BY BagFacts DEF Tables
    <3>2. [bag EXCEPT !.item = t] = [item |-> t, packs |-> bag.packs, high |-> bag.high]
      BY <3>1
    <3> QED BY <2>1, <2>2, <3>2
  <2>5. \A h \in DOMAIN t : /\ t[h] \in Items /\ t[h].amount \in 1..MaxCount[t[h].proto]
                            /\ t[h].pack = bag.item[h].pack /\ t[h].proto = bag.item[h].proto
    <3> TAKE h \in DOMAIN t
    <3>1. CASE h = g
      <4>1. t[h] = j /\ i.amount - n \in 1..MaxCount[i.proto]
        BY <1>2, <1>5, <3>1, BagFacts
      <4> QED BY <2>3, <3>1, <4>1
    <3>2. CASE h # g
      BY <3>2, BagFacts
    <3> QED BY <3>1, <3>2
  <2>6. DOMAIN t = DOMAIN bag.item /\ t = [h \in DOMAIN t |-> t[h]]
        /\ \A h \in DOMAIN bag.item \ {g} : t[h] = bag.item[h]
    OBVIOUS
  <2> HIDE DEF t
  <2>7. bag.packs = [k \in Packs |-> bag.packs[k] \cap DOMAIN t]
    BY <2>6, BagFacts DEF Tables, Held
  <2>8. Stays(bag.item, t)
    BY <2>5, <2>6 DEF Stays
  <2>9. Tables(c) /\ Stock(c.item, c.high) /\ Stays(bag.item, c.item) /\ c.item = t
          /\ c.high = bag.high
    BY <2>4, <2>5, <2>6, <2>7, <2>8, BagFacts, Rebuilt
  <2>10. Sound(c, Loop({g}))
    BY <1>3, <2>6, <2>9, SoundLoop
  <2> QED BY <1>1, <1>3, <1>5, <2>10, Performed
<1> QED BY <1>4, <1>5 DEF HandleUseItem

\* What is left after units are taken of some stacks
LEMMA TakenFacts ==
  ASSUME BackpackInv, NEW f, DOMAIN f \subseteq DOMAIN bag.item,
         \A g \in DOMAIN f : f[g] \in Nat \ {0} /\ f[g] <= bag.item[g].amount
  PROVE  Sound(Taken(bag, f), Loop(DOMAIN f)) /\ Stays(bag.item, Taken(bag, f).item)
<1> DEFINE rest == [g \in DOMAIN f |-> bag.item[g].amount - f[g]]
           gone == {g \in DOMAIN f : rest[g] = 0}
           c == RemoveItems(SetItemAmount(bag, rest), gone)
<1>1. Taken(bag, f) = c
  BY DEF Taken, Amount
<1>2. \A g \in (DOMAIN rest \cap DOMAIN bag.item) \ gone : rest[g]
        \in 1..MaxCount[bag.item[g].proto]
  BY BagFacts
<1>3. DOMAIN rest = DOMAIN f /\ gone \subseteq DOMAIN f
  OBVIOUS
<1> HIDE DEF rest, gone, c
<1>4. /\ Tables(c) /\ Stock(c.item, c.high) /\ Stays(bag.item, c.item) /\ c.high = bag.high
      /\ DOMAIN c.item = DOMAIN bag.item \ gone
      /\ \A g \in DOMAIN c.item \ DOMAIN rest : c.item[g] = bag.item[g]
  BY <1>2, BagFacts, Reduced DEF c
<1>5. DOMAIN f \subseteq 1..bag.high
  BY BagFacts
<1> QED BY <1>1, <1>3, <1>4, <1>5, SoundLoop

\* HandleSellItem keeps the invariant.
LEMMA SellStep ==
  ASSUME BackpackInv, NEW g, NEW n \in Amounts, HandleSellItem(g, n)
  PROVE  BackpackInv'
<1> DEFINE f == Only(g, n)
<1>1. Ready /\ g \in bag.packs[Normal] /\ n <= bag.item[g].amount
      /\ Perform("sell", Taken(bag, f), <<{g}>>)
  BY DEF HandleSellItem, Amount
<1>2. g \in DOMAIN bag.item /\ n \in Nat \ {0}
  BY <1>1, BagFacts, GridFacts, ConstantsAssumption DEF Held, Amounts
<1>3. DOMAIN f = {g} /\ f[g] = n /\ Loop({g}) = <<{g}>>
  BY DEF Only, Loop
<1> HIDE DEF f
<1>4. Sound(Taken(bag, f), Loop(DOMAIN f))
  BY <1>1, <1>2, <1>3, TakenFacts
<1> QED BY <1>1, <1>3, <1>4, Performed

\* ClearAllPackItems keeps the invariant.
LEMMA ClearStep ==
  ASSUME BackpackInv, NEW S \in {{Normal}, {Bank}, {Normal, Bank}}, ClearAllPackItems(S)
  PROVE  BackpackInv'
<1> DEFINE gone == UNION {bag.packs[k] : k \in S}
           c == RemoveItems(bag, gone)
<1>1. Ready /\ Perform("clear", c, Loop(gone))
  BY DEF ClearAllPackItems
<1>2. gone \subseteq 1..bag.high
  <2>1. \A k \in S : k \in Packs
    BY GridFacts
  <2>2. \A k \in S : bag.packs[k] \subseteq 1..bag.high
    BY <2>1, BagFacts DEF Held
  <2> QED BY <2>2
<1> HIDE DEF gone
<1>3. /\ Tables(c) /\ Stock(c.item, c.high) /\ Stays(bag.item, c.item) /\ c.high = bag.high
      /\ DOMAIN c.item = DOMAIN bag.item \ gone
           /\ \A g \in DOMAIN c.item : c.item[g] = bag.item[g]
  BY BagFacts, Removed
<1> HIDE DEF c
<1>4. Sound(c, Loop(gone))
  BY <1>2, <1>3, SoundLoop
<1> QED BY <1>1, <1>4, Performed

-----------------------------------------------------------------------------
(* Writing the documents *)

\* The writes that may be made next
LEMMA HeadFacts ==
  ASSUME NEW n \in Nat, NEW w, Writable(w, n), w # <<>>
  PROVE  /\ 1 \in DOMAIN w /\ w[1] = Head(w) /\ Head(w) \subseteq 1..n
         /\ Tail(w) \in Seq(SUBSET (1..n)) /\ DOMAIN Tail(w) = 1 .. Len(w) - 1
              /\ Len(w) \in Nat \ {0}
         /\ DOMAIN w = 1..Len(w) /\ \A i \in 1 .. Len(w) - 1 : Tail(w)[i] = w[i + 1]
<1>1. w \in Seq(SUBSET (1..n))
  BY DEF Writable
<1>2. Len(w) \in Nat \ {0} /\ DOMAIN w = 1..Len(w)
  BY <1>1
<1>3. w[1] = Head(w) /\ w[1] \in SUBSET (1..n)
  BY <1>1, <1>2
<1>4. Tail(w) \in Seq(SUBSET (1..n)) /\ Len(Tail(w)) = Len(w) - 1
  BY <1>1, <1>2
<1>5. \A i \in 1 .. Len(w) - 1 : Tail(w)[i] = w[i + 1]
  BY <1>1, <1>2
<1> QED BY <1>2, <1>3, <1>4, <1>5

\* What is left of the writes w once g is written
WritesAfter(w, g) == IF Head(w) = {g} THEN Tail(w) ELSE <<Head(w) \ {g}>> \o Tail(w)

\* The writes left are of the ones there were, in the same turn.
LEMMA WritesLeft ==
  ASSUME NEW n \in Nat, NEW w, Writable(w, n), w # <<>>, NEW g, g \in Head(w), NEW v,
         v = WritesAfter(w, g)
  PROVE  /\ Writable(v, n) /\ Pending(w) \subseteq Pending(v) \cup {g}
         /\ \E d \in {0, 1} : \A i \in DOMAIN v : i \in Nat /\ i + d \in DOMAIN w
              /\ v[i] \subseteq w[i + d]
<1> DEFINE H == Head(w)
           T == Tail(w)
           m == Len(w)
<1>1. /\ 1 \in DOMAIN w /\ w[1] = H /\ H \subseteq 1..n
      /\ T \in Seq(SUBSET (1..n)) /\ DOMAIN T = 1 .. m - 1 /\ m \in Nat \ {0}
      /\ DOMAIN w = 1..m /\ \A i \in 1 .. m - 1 : T[i] = w[i + 1]
  BY HeadFacts
<1> HIDE DEF H, T, m
<1>2. \A i \in 1 .. m - 1 : i + 1 \in DOMAIN w /\ T[i] = w[i + 1] /\ T[i] # {}
  <2>1. \A i \in 1 .. m - 1 : i + 1 \in DOMAIN w
    BY <1>1
  <2> QED BY <1>1, <2>1 DEF Writable
<1>3. \A i \in DOMAIN w : i = 1 \/ (i - 1 \in 1 .. m - 1 /\ w[i] = T[i - 1])
  BY <1>1
<1>4. CASE H = {g}
  <2>1. v = T
    BY <1>4 DEF H, T, WritesAfter
  <2>2. Writable(v, n)
    BY <1>1, <1>2, <2>1 DEF Writable
  <2>3. \A i \in DOMAIN v : i \in Nat /\ i + 1 \in DOMAIN w /\ v[i] \subseteq w[i + 1]
    BY <1>1, <1>2, <2>1
  <2>4. Pending(w) \subseteq Pending(v) \cup {g}
    <3> SUFFICES ASSUME NEW i \in DOMAIN w PROVE w[i] \subseteq Pending(v) \cup {g}
      BY DEF Pending
    <3>1. CASE i = 1
      BY <1>1, <1>4, <3>1
    <3>2. CASE i # 1
      <4>1. i - 1 \in DOMAIN v /\ w[i] = v[i - 1]
        BY <1>1, <1>3, <2>1, <3>2
      <4> QED BY <4>1 DEF Pending
    <3> QED BY <3>1, <3>2
  <2> QED BY <2>2, <2>3, <2>4
<1>5. CASE H # {g}
  <2> DEFINE S == H \ {g}
  <2>1. v = <<S>> \o T /\ g \in H
    BY <1>5 DEF H, T, WritesAfter
  <2>2. S \in SUBSET (1..n) /\ S # {} /\ S \subseteq H
    BY <1>1, <1>5, <2>1
  <2> HIDE DEF S
  <2>3. v \in Seq(SUBSET (1..n)) /\ Len(v) = m /\ v[1] = S /\ \A i \in 2..m : v[i] = T[i - 1]
    <3>1. <<S>> \in Seq(SUBSET (1..n)) /\ Len(<<S>>) = 1 /\ <<S>>[1] = S
      BY <2>2
    <3>2. Len(T) = m - 1
      BY <1>1
    <3> DEFINE s == <<S>>
    <3> HIDE DEF s
    <3>3. /\ s \o T \in Seq(SUBSET (1..n)) /\ Len(s \o T) = 1 + (m - 1)
          /\ \A i \in 1..1 : (s \o T)[i] = s[i]
          /\ \A i \in 1 + 1 .. 1 + (m - 1) : (s \o T)[i] = T[i - 1]
      BY <1>1, <3>1, <3>2, Concatenated DEF s
    <3>4. v = s \o T /\ s[1] = S
      BY <2>1, <3>1 DEF s
    <3>5. 1 + (m - 1) = m /\ 1 + 1 = 2
      BY <1>1
    <3>6. 2..m = 1 + 1 .. 1 + (m - 1)
      BY <3>5
    <3>7. Len(v) = m /\ v \in Seq(SUBSET (1..n))
      BY <3>3, <3>4, <3>5
    <3>8. v[1] = S
      <4>1. 1 \in 1..1
        OBVIOUS
      <4>2. (s \o T)[1] = s[1]
        BY <3>3, <4>1
      <4> QED BY <3>4, <4>2
    <3>9. \A i \in 2..m : v[i] = T[i - 1]
      BY <3>3, <3>4, <3>6
    <3> QED BY <3>7, <3>8, <3>9
  <2>4. DOMAIN v = 1..m
    BY <2>3
  <2>5. \A i \in DOMAIN v : i \in Nat /\ i + 0 \in DOMAIN w /\ v[i] \subseteq w[i + 0]
          /\ v[i] # {}
    <3> TAKE i \in DOMAIN v
    <3>1. CASE i = 1
      BY <1>1, <2>2, <2>3, <3>1
    <3>2. CASE i # 1
      <4>1. i \in 2..m /\ i - 1 \in 1 .. m - 1 /\ (i - 1) + 1 = i /\ i + 0 = i
        BY <1>1, <2>4, <3>2
      <4>2. v[i] = T[i - 1] /\ T[i - 1] = w[(i - 1) + 1] /\ T[i - 1] # {} /\ i \in DOMAIN w
        BY <1>1, <1>2, <2>3, <4>1
      <4> QED BY <4>1, <4>2
    <3> QED BY <3>1, <3>2
  <2>6. Writable(v, n)
    BY <2>3, <2>5 DEF Writable
  <2>7. Pending(w) \subseteq Pending(v) \cup {g}
    <3> SUFFICES ASSUME NEW i \in DOMAIN w PROVE w[i] \subseteq Pending(v) \cup {g}
      BY DEF Pending
    <3>1. CASE i = 1
      <4>1. w[i] \subseteq S \cup {g} /\ S = v[1] /\ 1 \in DOMAIN v
        BY <1>1, <2>3, <2>4, <3>1 DEF S
      <4> QED BY <4>1 DEF Pending
    <3>2. CASE i # 1
      <4>1. i \in 2..m /\ w[i] = T[i - 1]
        BY <1>1, <1>3, <3>2
      <4>2. v[i] = w[i] /\ i \in DOMAIN v
        BY <1>1, <2>3, <2>4, <4>1
      <4> QED BY <4>2 DEF Pending
    <3> QED BY <3>1, <3>2
  <2> QED BY <2>5, <2>6, <2>7
<1> QED BY <1>4, <1>5

\* A write keeps the order of what comes and what leaves.
LEMMA LaterOrdered ==
  ASSUME NEW before, NEW after, NEW w, Ordered(before, after, w), NEW v, NEW d \in {0, 1},
         \A i \in DOMAIN v : i \in Nat /\ i + d \in DOMAIN w /\ v[i] \subseteq w[i + d],
         NEW now, NEW g, Alike(now, after, g), \A h : h # g => Alike(now, before, h)
  PROVE  Ordered(now, after, v)
<1> SUFFICES ASSUME NEW k \in Limited, NEW i \in DOMAIN v, NEW j \in DOMAIN v, i <= j,
                    NEW a \in v[i], NEW h \in v[j],
                    a \in Held(after, k) \ Held(now, k), h \in Held(now, k) \ Held(after, k)
             PROVE  FALSE
  BY DEF Ordered
<1>1. a # g /\ h # g
  BY DEF Alike, Held
<1>2. Alike(now, before, a) /\ Alike(now, before, h)
  BY <1>1
<1>3. a \in Held(after, k) \ Held(before, k) /\ h \in Held(before, k) \ Held(after, k)
  BY <1>2 DEF Alike, Held
<1>4. i + d \in DOMAIN w /\ j + d \in DOMAIN w /\ i + d <= j + d /\ a \in w[i + d]
        /\ h \in w[j + d]
  OBVIOUS
<1> QED BY <1>3, <1>4 DEF Ordered

\* A write keeps the order of what is raised and what is lowered.
LEMMA LaterRaised ==
  ASSUME NEW before, NEW after, NEW w, RaisedFirst(before, after, w), NEW v, NEW d \in {0, 1},
         \A i \in DOMAIN v : i \in Nat /\ i + d \in DOMAIN w /\ v[i] \subseteq w[i + d],
         NEW now, NEW g, Alike(now, after, g), \A h : h # g => Alike(now, before, h),
         \A p : UnitsOf(after, g, p) \in Nat
  PROVE  RaisedFirst(now, after, v)
<1> SUFFICES ASSUME NEW p \in Protos, NEW i \in DOMAIN v, NEW j \in DOMAIN v, i <= j,
                    NEW a \in v[i], NEW h \in v[j],
                    UnitsOf(after, a, p) < UnitsOf(now, a, p), UnitsOf(after, h, p) > UnitsOf(now, h, p)
             PROVE  FALSE
  BY DEF RaisedFirst
<1>1. UnitsOf(now, g, p) = UnitsOf(after, g, p) /\ UnitsOf(after, g, p) \in Nat
  BY DEF Alike, UnitsOf
<1>2. a # g /\ h # g
  BY <1>1
<1>3. Alike(now, before, a) /\ Alike(now, before, h)
  BY <1>2
<1>4. UnitsOf(now, a, p) = UnitsOf(before, a, p) /\ UnitsOf(now, h, p) = UnitsOf(before, h, p)
  BY <1>3 DEF Alike, UnitsOf
<1>5. i + d \in DOMAIN w /\ j + d \in DOMAIN w /\ i + d <= j + d /\ a \in w[i + d]
        /\ h \in w[j + d]
  OBVIOUS
<1> QED BY <1>4, <1>5 DEF RaisedFirst

\* What the invariant says of the documents
LEMMA StoreFacts ==
  ASSUME BackpackInv
  PROVE  /\ Stock(db, bag.high) /\ Fits(db) /\ bag.high \in Nat
         /\ DOMAIN db \subseteq 1..bag.high
         /\ \A g \in DOMAIN db : db[g] \in Items /\ db[g].amount \in Nat
BY ItemFields, BagFacts DEF BackpackInv, StoreInv, Stock

\* The units under each guid are a count.
LEMMA UnitsNat ==
  ASSUME NEW items, NEW n \in Nat, Stock(items, n), NEW p
  PROVE  /\ \A g : UnitsOf(items, g, p) \in Nat
         /\ Units(items, p) = Sum(Part(UnitsTable(items, p, 1..n), 1..n))
         /\ IsFiniteSet(1..n)
<1>1. \A g \in DOMAIN items : items[g].amount \in Nat
  BY ItemFields DEF Stock
<1>2. \A g : UnitsOf(items, g, p) \in Nat
  BY <1>1 DEF UnitsOf
<1>3. IsFiniteSet(1..n) /\ DOMAIN items \subseteq 1..n
  <2>1. IsFiniteSet(1..n)
    BY FS_Interval
  <2> QED BY <2>1 DEF Stock
<1> QED BY <1>1, <1>2, <1>3, UnitsCounted

\* No fewer units under any guid are no fewer units.
LEMMA UnitsMono ==
  ASSUME NEW items, NEW others, NEW n \in Nat, Stock(items, n), Stock(others, n), NEW p,
         \A g \in 1..n : UnitsOf(items, g, p) <= UnitsOf(others, g, p)
  PROVE  Units(items, p) <= Units(others, p)
<1> DEFINE f == UnitsTable(items, p, 1..n)
           h == UnitsTable(others, p, 1..n)
<1>1. \A g \in 1..n : f[g] = UnitsOf(items, g, p) /\ h[g] = UnitsOf(others, g, p)
  BY DEF UnitsTable
<1>2. \A g \in 1..n : UnitsOf(items, g, p) \in Nat /\ UnitsOf(others, g, p) \in Nat
  BY UnitsNat
<1>3. IsFiniteSet(1..n) /\ Units(items, p) = Sum(Part(f, 1..n))
        /\ Units(others, p) = Sum(Part(h, 1..n))
  BY UnitsNat
<1> HIDE DEF f, h
<1>4. \A g \in 1..n : f[g] \in Int /\ h[g] \in Int /\ f[g] <= h[g]
  BY <1>1, <1>2
<1> QED BY <1>3, <1>4, SumMono

\* A comparison of units under every guid but one
LEMMA UnitsInt ==
  ASSUME NEW items, NEW n \in Nat, Stock(items, n), NEW p
  PROVE  Units(items, p) \in Nat
<1> DEFINE f == UnitsTable(items, p, 1..n)
<1>1. \A g \in 1..n : f[g] \in Nat
  BY UnitsNat DEF UnitsTable
<1>2. IsFiniteSet(1..n) /\ Units(items, p) = Sum(Part(f, 1..n))
  BY UnitsNat
<1> QED BY <1>1, <1>2, SumNat

\* A single SaveToDB or DeleteFromDB keeps the invariant.
LEMMA WriteStep ==
  ASSUME BackpackInv, NEW g \in Guids, Write(g)
  PROVE  BackpackInv'
<1> DEFINE item == bag.item
           n == bag.high
           now == IF g \in DOMAIN item THEN With(db, Only(g, item[g]))
                                      ELSE Restrict(db, DOMAIN db \ {g})
           v == WritesAfter(writes, g)
<1>1. writes # <<>> /\ g \in Head(writes) /\ db' = now /\ writes' = v /\ bag' = bag /\ up' = up
      /\ op' = op /\ crashes' = crashes
  BY DEF Write, WritesAfter
<1>2. up /\ up \in BOOLEAN
  BY <1>1 DEF BackpackInv, DownInv
<1>3. Writable(writes, n) /\ n \in Nat /\ Stock(item, n) /\ DOMAIN item \subseteq 1..n
  BY BagFacts DEF BackpackInv, WritesInv
<1>4. Writable(v, n) /\ Pending(writes) \subseteq Pending(v) \cup {g}
  BY <1>1, <1>3, WritesLeft
<1>5. PICK d \in {0, 1} : \A i \in DOMAIN v : i \in Nat /\ i + d \in DOMAIN writes
                                               /\ v[i] \subseteq writes[i + d]
  BY <1>1, <1>3, WritesLeft
<1>6. 1 \in DOMAIN writes /\ writes[1] = Head(writes) /\ Head(writes) \subseteq 1..n
      /\ DOMAIN writes = 1..Len(writes)
  BY <1>1, <1>3, HeadFacts
<1>7. g \in 1..n
  BY <1>1, <1>6
<1>8. /\ now = [h \in DOMAIN now |-> now[h]]
      /\ DOMAIN now \subseteq DOMAIN db \cup DOMAIN item
      /\ Alike(now, item, g) /\ \A h : h # g => Alike(now, db, h)
  BY DEF With, Only, Restrict, Alike
<1> HIDE DEF now, v
<1>9. Stock(now, n)
  <2>1. \A h \in DOMAIN now : (h = g /\ h \in DOMAIN item /\ now[h] = item[h])
                              \/ (h \in DOMAIN db /\ now[h] = db[h])
    BY <1>8 DEF Alike
  <2> QED BY <1>3, <1>8, <2>1, StoreFacts DEF Stock
<1>10. \A h \in 1..n : h \in Pending(writes) \/ Alike(db, item, h)
  BY <1>2 DEF BackpackInv, WritesInv
<1>11. Ordered(db, item, writes)
  BY DEF BackpackInv, WritesInv
<1>12. \A h \in Pending(writes) : \E j \in DOMAIN writes : 1 <= j /\ h \in writes[j]
  BY <1>6 DEF Pending
<1>13. \A k \in Limited : Cardinality(Held(now, k)) <= GridLimit[k]
  <2> TAKE k \in Limited
  <2>1. CASE g \in Held(item, k) \ Held(db, k)
    <3>1. Held(db, k) \subseteq Held(item, k)
      <4> SUFFICES ASSUME NEW h \in Held(db, k), h \notin Held(item, k) PROVE FALSE
        OBVIOUS
      <4>1. ~Alike(db, item, h) /\ h \in 1..n
        BY StoreFacts DEF Alike, Held
      <4>2. PICK j \in DOMAIN writes : 1 <= j /\ h \in writes[j]
        BY <1>10, <1>12, <4>1
      <4> QED BY <1>1, <1>6, <1>11, <2>1, <4>2 DEF Ordered
    <3>2. Held(now, k) \subseteq Held(item, k)
      BY <1>8, <2>1, <3>1 DEF Alike, Held
    <3>3. IsFiniteSet(Held(item, k))
      BY <1>3, StockFinite, GridFacts
    <3>4. Cardinality(Held(now, k)) <= Cardinality(Held(item, k))
          /\ Cardinality(Held(now, k)) \in Nat /\ Cardinality(Held(item, k)) \in Nat
      BY <3>2, <3>3, FS_Subset, FS_CardinalityType
    <3>5. Cardinality(Held(item, k)) <= GridLimit[k]
      BY BagFacts DEF Fits
    <3> QED BY <3>4, <3>5, GridFacts
  <2>2. CASE g \notin Held(item, k) \ Held(db, k)
    <3>1. Held(now, k) \subseteq Held(db, k)
      BY <1>8, <2>2 DEF Alike, Held
    <3>2. IsFiniteSet(Held(db, k))
      BY <1>3, StoreFacts, StockFinite, GridFacts
    <3>3. Cardinality(Held(now, k)) <= Cardinality(Held(db, k))
          /\ Cardinality(Held(now, k)) \in Nat /\ Cardinality(Held(db, k)) \in Nat
      BY <3>1, <3>2, FS_Subset, FS_CardinalityType
    <3>4. Cardinality(Held(db, k)) <= GridLimit[k]
      BY StoreFacts DEF Fits
    <3> QED BY <3>3, <3>4, GridFacts
  <2> QED BY <2>1, <2>2
<1>14. MemoryInv'
  BY <1>1 DEF BackpackInv, MemoryInv
<1>15. StoreInv'
  <2>1. Stock(now, n) /\ Fits(now)
    BY <1>9, <1>13 DEF Fits
  <2> QED BY <1>1, <2>1 DEF StoreInv
<1>16. WritesInv'
  <2>1. \A h \in 1..n : h \in Pending(v) \/ Alike(now, item, h)
    <3> TAKE h \in 1..n
    <3>1. CASE h = g
      BY <1>8, <3>1
    <3>2. CASE h # g /\ h \in Pending(writes)
      BY <1>4, <3>2
    <3>3. CASE h # g /\ Alike(db, item, h)
      BY <1>8, <3>3 DEF Alike
    <3> QED BY <1>10, <3>1, <3>2, <3>3
  <2>2. Ordered(now, item, v)
    BY <1>5, <1>8, <1>11, LaterOrdered
  <2> QED BY <1>1, <1>4, <2>1, <2>2 DEF WritesInv
<1>17. DownInv'
  BY <1>1, <1>2 DEF DownInv
<1>18. WornInv'
  BY <1>1, <1>2 DEF BackpackInv, WornInv
<1>19. SwapInv'
  <2> SUFFICES ASSUME op = "swap"
               PROVE  RaisedFirst(now, item, v)
                 /\ \A p \in Protos : Units(now, p) >= Units(item, p)
    BY <1>1 DEF SwapInv
  <2>1. RaisedFirst(db, item, writes) /\ \A p \in Protos : Units(db, p) >= Units(item, p)
    BY DEF BackpackInv, SwapInv
  <2>2. \A p : UnitsOf(item, g, p) \in Nat
    BY <1>3, UnitsNat
  <2>3. RaisedFirst(now, item, v)
    BY <1>5, <1>8, <2>1, <2>2, LaterRaised
  <2>4. ASSUME NEW p \in Protos PROVE Units(now, p) >= Units(item, p)
    <3>1. \A h \in 1..n : UnitsOf(item, h, p) \in Nat /\ UnitsOf(db, h, p) \in Nat
      BY <1>3, StoreFacts, UnitsNat
    <3>2. UnitsOf(now, g, p) = UnitsOf(item, g, p)
          /\ \A h : h # g => UnitsOf(now, h, p) = UnitsOf(db, h, p)
      BY <1>8 DEF Alike, UnitsOf
    <3>3. Units(now, p) \in Nat /\ Units(item, p) \in Nat /\ Units(db, p) \in Nat
      BY <1>3, <1>9, StoreFacts, UnitsInt
    <3>4. CASE UnitsOf(item, g, p) < UnitsOf(db, g, p)
      <4>1. \A h \in 1..n : UnitsOf(item, h, p) <= UnitsOf(db, h, p)
        <5> SUFFICES ASSUME NEW h \in 1..n,
              ~(UnitsOf(item, h, p) <= UnitsOf(db, h, p)) PROVE FALSE
          OBVIOUS
        <5>1. UnitsOf(item, h, p) > UnitsOf(db, h, p)
          BY <3>1
        <5>2. ~Alike(db, item, h)
          BY <3>1, <5>1 DEF Alike, UnitsOf
        <5>3. PICK j \in DOMAIN writes : 1 <= j /\ h \in writes[j]
          BY <1>10, <1>12, <5>2
        <5> QED BY <1>1, <1>6, <2>1, <3>4, <5>1, <5>3 DEF RaisedFirst
      <4>2. \A h \in 1..n : UnitsOf(item, h, p) <= UnitsOf(now, h, p)
        BY <3>1, <3>2, <4>1
      <4>3. Units(item, p) <= Units(now, p)
        BY <1>3, <1>9, <4>2, UnitsMono
      <4> QED BY <3>3, <4>3
    <3>5. CASE ~(UnitsOf(item, g, p) < UnitsOf(db, g, p))
      <4>1. \A h \in 1..n : UnitsOf(db, h, p) <= UnitsOf(now, h, p)
        BY <1>7, <3>1, <3>2, <3>5
      <4>2. Units(db, p) <= Units(now, p)
        BY <1>3, <1>9, <4>1, StoreFacts, UnitsMono
      <4> QED BY <2>1, <3>3, <4>2
    <3> QED BY <3>4, <3>5
  <2> QED BY <2>3, <2>4
<1>20. up' \in BOOLEAN /\ crashes' \in 0..MaxCrashes
  BY <1>1 DEF BackpackInv
<1> QED BY <1>14, <1>15, <1>16, <1>17, <1>18, <1>19, <1>20 DEF BackpackInv

-----------------------------------------------------------------------------
(* The end of the session, its start and the crash *)

\* The greatest guid of the documents, found by __loadItemMaxGuid
LEMMA GreatestGuid ==
  ASSUME NEW n \in Nat, NEW S, S \subseteq 1..n
  PROVE  GuidOrZero(S) \in 0..n /\ S \subseteq 1..GuidOrZero(S)
<1> DEFINE U == S \cup {0}
           T == {n - x : x \in U}
<1>1. U \subseteq 0..n /\ 0 \in U
  OBVIOUS
<1>2. T \subseteq Nat /\ T # {}
  BY <1>1
<1>3. PICK m \in T : \A x \in T : m <= x
  BY <1>2, Least
<1>4. PICK top \in U : m = n - top
  BY <1>3
<1>5. \A x \in U : top >= x
  <2> TAKE x \in U
  <2>1. n - top <= n - x
    BY <1>3, <1>4
  <2> QED BY <1>1, <2>1
<1> HIDE DEF U
<1>6. GuidOrZero(S) \in U /\ \A x \in U : GuidOrZero(S) >= x
  BY <1>5 DEF GuidOrZero, Max, U
<1> HIDE DEF GuidOrZero
<1>7. GuidOrZero(S) \in 0..n
  BY <1>1, <1>6
<1>8. \A x \in S : x \in 1..n /\ GuidOrZero(S) >= x
  BY <1>6 DEF U
<1> QED BY <1>7, <1>8

\* Nothing is held without items.
LEMMA NothingHeld ==
  /\ DOMAIN NoItems = {} /\ \A k : Held(NoItems, k) = {}
  /\ \A n : Stock(NoItems, n)
  /\ Fits(NoItems) /\ OneWorn(NoItems)
  /\ \A before, after : Ordered(before, after, <<>>)
  /\ \A n : Writable(<<>>, n)
<1>1. DOMAIN NoItems = {} /\ (\A k : Held(NoItems, k) = {}) /\ \A n : Stock(NoItems, n)
  BY DEF NoItems, Held, Stock
<1>2. Fits(NoItems)
  <2>1. Cardinality({}) = 0
    BY FS_EmptySet
  <2>2. \A k \in Limited : Cardinality(Held(NoItems, k)) = 0
    BY <1>1, <2>1
  <2> QED BY <2>2, GridFacts DEF Fits
<1>3. DOMAIN <<>> = {}
  OBVIOUS
<1>4. \A before, after : Ordered(before, after, <<>>)
  BY <1>3 DEF Ordered
<1>5. \A n : Writable(<<>>, n)
  BY <1>3 DEF Writable
<1> QED BY <1>1, <1>2, <1>4, <1>5 DEF OneWorn

\* The tables of the packs without items
LEMMA EmptyTables ==
  ASSUME NEW n \in Nat
  PROVE  Tables([item |-> NoItems, packs |-> Empty, high |-> n])
BY NothingHeld DEF Tables, Empty

\* The invariant holds before the first operation.
LEMMA InitInv == Init => BackpackInv
<1> SUFFICES ASSUME Init PROVE BackpackInv
  OBVIOUS
<1>1. bag = [item |-> NoItems, packs |-> Empty, high |-> 0] /\ db = NoItems /\ writes = <<>>
      /\ up = TRUE /\ op = "load" /\ crashes = 0
  BY DEF Init
<1>2. MemoryInv
  <2>1. bag.high <= MaxGuid
    BY <1>1, ConstantsAssumption
  <2> QED BY <1>1, <2>1, EmptyTables, NothingHeld DEF MemoryInv
<1>3. StoreInv
  BY <1>1, NothingHeld DEF StoreInv
<1>4. WritesInv
  <2>1. \A g \in 1..bag.high : g \in Pending(writes) \/ Alike(db, bag.item, g)
    BY <1>1 DEF Alike
  <2> QED BY <1>1, <2>1, NothingHeld DEF WritesInv
<1>5. DownInv /\ SwapInv
  BY <1>1 DEF DownInv, SwapInv
<1>6. WornInv
  BY <1>1, NothingHeld DEF WornInv
<1>7. up \in BOOLEAN /\ crashes \in 0..MaxCrashes
  BY <1>1, ConstantsAssumption
<1> QED BY <1>2, <1>3, <1>4, <1>5, <1>6, <1>7 DEF BackpackInv

\* Logout keeps the invariant.
LEMMA LogoutStep ==
  ASSUME BackpackInv, Logout
  PROVE  BackpackInv'
<1>1. up' = FALSE /\ op' = "logout" /\ db' = db /\ writes' = <<>> /\ crashes' = crashes
  BY DEF Logout, Ready
<1>2. bag' = [item |-> NoItems, packs |-> Empty, high |-> bag.high]
  <2>1. bag' = [bag EXCEPT !.item = NoItems, !.packs = Empty]
    BY DEF Logout
  <2>2. bag = [item |-> bag.item, packs |-> bag.packs, high |-> bag.high]
    BY BagFacts DEF Tables
  <2> QED BY <2>1, <2>2, NewItemsAndPacks
<1>3. bag'.item = NoItems /\ bag'.high = bag.high /\ bag.high \in Nat /\ bag.high <= MaxGuid
  BY <1>2, BagFacts DEF BackpackInv, MemoryInv
<1>4. db = bag.item
  BY Settled DEF Logout, Ready
<1>5. MemoryInv'
  <2>1. Tables(bag')
    BY <1>2, <1>3, EmptyTables
  <2> QED BY <1>3, <2>1, NothingHeld DEF MemoryInv
<1>6. StoreInv'
  BY <1>1, <1>3, StoreFacts DEF StoreInv
<1>7. WritesInv'
  BY <1>1, <1>3, NothingHeld DEF WritesInv
<1>8. DownInv' /\ SwapInv'
  BY <1>1, <1>3 DEF DownInv, SwapInv
<1>9. WornInv'
  BY <1>1, <1>3, <1>4, NothingHeld DEF BackpackInv, WornInv
<1>10. up' \in BOOLEAN /\ crashes' \in 0..MaxCrashes
  BY <1>1 DEF BackpackInv
<1> QED BY <1>5, <1>6, <1>7, <1>8, <1>9, <1>10 DEF BackpackInv

\* LoadItemsFromDB keeps the invariant.
LEMMA LoadStep ==
  ASSUME BackpackInv, LoadItemsFromDB
  PROVE  BackpackInv'
<1> DEFINE s == [k \in Packs |-> Held(db, k)]
<1>1. ~up /\ up' = TRUE /\ op' = "load" /\ db' = db /\ writes' = writes /\ crashes' = crashes
  BY DEF LoadItemsFromDB
<1>2. writes = <<>>
  BY <1>1 DEF BackpackInv, DownInv
<1>3. bag' = [item |-> db, packs |-> s, high |-> bag.high]
  <2>1. bag' = [bag EXCEPT !.item = db, !.packs = s]
    BY DEF LoadItemsFromDB, Held
  <2>2. bag = [item |-> bag.item, packs |-> bag.packs, high |-> bag.high]
    BY BagFacts DEF Tables
  <2> HIDE DEF s
  <2> QED BY <2>1, <2>2, NewItemsAndPacks
<1>4. bag'.item = db /\ bag'.high = bag.high /\ bag.high \in Nat /\ bag.high <= MaxGuid
  BY <1>3, BagFacts DEF BackpackInv, MemoryInv
<1>5. MemoryInv'
  <2>1. Tables(bag')
    BY <1>3, <1>4, TablesFrom
  <2> QED BY <1>4, <2>1, StoreFacts DEF MemoryInv
<1>6. StoreInv'
  BY <1>1, <1>4, StoreFacts DEF StoreInv
<1>7. WritesInv'
  <2>1. \A g \in 1..bag.high : Alike(db, db, g)
    BY DEF Alike
  <2>2. Ordered(db, db, <<>>) /\ Writable(<<>>, bag.high)
    BY NothingHeld
  <2> QED BY <1>1, <1>2, <1>4, <2>1, <2>2 DEF WritesInv
<1>8. DownInv' /\ SwapInv'
  BY <1>1 DEF DownInv, SwapInv
<1>9. WornInv'
  BY <1>1, <1>4 DEF BackpackInv, WornInv
<1>10. up' \in BOOLEAN /\ crashes' \in 0..MaxCrashes
  BY <1>1 DEF BackpackInv
<1> QED BY <1>5, <1>6, <1>7, <1>8, <1>9, <1>10 DEF BackpackInv

\* A crash keeps the invariant, whichever writes were still to come.
LEMMA CrashStep ==
  ASSUME BackpackInv, Crash
  PROVE  BackpackInv'
<1> DEFINE n == GuidOrZero(DOMAIN db)
<1>1. up' = FALSE /\ op' = "crash" /\ db' = db /\ writes' = <<>> /\ crashes' = crashes + 1
      /\ crashes < MaxCrashes /\ bag' = [item |-> NoItems, packs |-> Empty, high |-> n]
  BY DEF Crash
<1>2. n \in 0..bag.high /\ DOMAIN db \subseteq 1..n
  BY StoreFacts, GreatestGuid
<1>3. n \in Nat /\ n <= MaxGuid
  BY <1>2, BagFacts, ConstantsAssumption DEF BackpackInv, MemoryInv
<1> HIDE DEF n
<1>4. bag'.item = NoItems /\ bag'.high = n
  BY <1>1
<1>5. MemoryInv'
  <2>1. Tables(bag')
    BY <1>1, <1>3, EmptyTables
  <2> QED BY <1>3, <1>4, <2>1, NothingHeld DEF MemoryInv
<1>6. StoreInv'
  <2>1. Stock(db, n) /\ Fits(db)
    BY <1>2, StoreFacts DEF Stock
  <2> QED BY <1>1, <1>4, <2>1 DEF StoreInv
<1>7. WritesInv'
  BY <1>1, <1>4, NothingHeld DEF WritesInv
<1>8. DownInv' /\ SwapInv'
  BY <1>1, <1>4 DEF DownInv, SwapInv
<1>9. up' \in BOOLEAN /\ crashes' \in 0..MaxCrashes /\ crashes' # 0
  <2>1. crashes \in 0..MaxCrashes /\ MaxCrashes \in Nat
    BY ConstantsAssumption DEF BackpackInv
  <2>2. crashes \in Nat /\ crashes + 1 <= MaxCrashes
    BY <1>1, <2>1
  <2>3. crashes + 1 \in 0..MaxCrashes /\ crashes + 1 # 0
    BY <2>1, <2>2
  <2>4. up' \in BOOLEAN
    BY <1>1
  <2>5. crashes' = crashes + 1
    BY <1>1
  <2> QED BY <2>3, <2>4, <2>5
<1>10. WornInv'
  BY <1>9 DEF WornInv
<1> QED BY <1>5, <1>6, <1>7, <1>8, <1>9, <1>10 DEF BackpackInv

-----------------------------------------------------------------------------
(* Filling stacks *)

\* What GetItemObjectCanContainItem may give: no stack gets more than fits.
LEMMA ContainFacts ==
  ASSUME NEW b, Tables(b), Stock(b.item, b.high), NEW p \in Protos, NEW n \in Nat \ {0},
         NEW k \in Packs, NEW f \in ContainItem(b, p, n, k)
  PROVE  /\ f = [g \in DOMAIN f |-> f[g]] /\ DOMAIN f \subseteq Held(b.item, k)
         /\ DOMAIN f \subseteq DOMAIN b.item
         /\ \A g \in DOMAIN f : /\ f[g] \in Nat \ {0} /\ b.item[g].proto = p
                                /\ b.item[g].amount + f[g] \in 1..MaxCount[p]
         /\ MaxCount[p] <= 1 => DOMAIN f = {}
         /\ IsFiniteSet(DOMAIN f) /\ Sum(f) \in Nat /\ Sum(f) <= n
         /\ Remaining(b, p, n, k) = n - Sum(f)
<1> DEFINE S == IF MaxCount[p] <= 1 THEN {} ELSE Stacks(b, p, k)
           all == [g \in S |-> Room(b, g)]
           some == {h \in UNION {[T -> 1..n] : T \in SUBSET S} :
                      /\ Sum(h) = n /\ \A g \in DOMAIN h : h[g] <= Room(b, g)
                      /\ AllButOne(h, all)}
<1>1. ContainItem(b, p, n, k) = IF Sum(all) <= n THEN {all} ELSE some
  BY DEF ContainItem
<1>2. S \subseteq Held(b.item, k) /\ S \subseteq DOMAIN b.item /\ (MaxCount[p] <= 1 => S = {})
      /\ \A g \in S : b.item[g].proto = p /\ Room(b, g) > 0
  BY TablesHold DEF Stacks, Held
<1>3. \A g \in S : Room(b, g) \in Nat \ {0} /\ b.item[g].amount + Room(b, g) = MaxCount[p]
                   /\ b.item[g].amount \in Nat \ {0}
  BY <1>2, MaxCountType DEF Room, Amount, Stock
<1>4. IsFiniteSet(S)
  BY <1>2, StockFinite, FS_Subset, TablesHold
<1> HIDE DEF S
<1>5. ASSUME NEW h \in ContainItem(b, p, n, k)
      PROVE  /\ h = [g \in DOMAIN h |-> h[g]] /\ DOMAIN h \subseteq S
             /\ \A g \in DOMAIN h : h[g] \in Nat \ {0} /\ h[g] <= Room(b, g)
             /\ Sum(h) = IF Sum(all) <= n THEN Sum(all) ELSE n
  <2>1. CASE Sum(all) <= n
    <3>1. h = all
      BY <1>1, <2>1
    <3>2. DOMAIN all = S /\ \A g \in S : all[g] = Room(b, g)
      OBVIOUS
    <3>3. all = [g \in DOMAIN all |-> all[g]]
      OBVIOUS
    <3> HIDE DEF all
    <3> QED BY <1>3, <2>1, <3>1, <3>2, <3>3
  <2>2. CASE ~(Sum(all) <= n)
    <3>1. h \in some
      BY <1>1, <2>2
    <3>2. PICK T \in SUBSET S : h \in [T -> 1..n]
      BY <3>1
    <3>3. Sum(h) = n /\ \A g \in DOMAIN h : h[g] <= Room(b, g)
      BY <3>1
    <3> HIDE DEF all, some
    <3>4. DOMAIN h = T /\ \A g \in T : h[g] \in 1..n
      BY <3>2
    <3>5. h = [g \in DOMAIN h |-> h[g]]
      BY <3>2
    <3> QED BY <2>2, <3>3, <3>4, <3>5
  <2> QED BY <2>1, <2>2
<1> HIDE DEF all, some
<1>6. \A g \in DOMAIN f : b.item[g].amount + f[g] \in 1..MaxCount[p]
  <2> TAKE g \in DOMAIN f
  <2>1. g \in S /\ f[g] \in Nat \ {0} /\ f[g] <= Room(b, g)
    BY <1>5
  <2> QED BY <1>3, <2>1
<1>7. IsFiniteSet(DOMAIN f)
  BY <1>4, <1>5, FS_Subset
<1>8. Sum(f) \in Nat
  <2>1. Sum(Part(f, DOMAIN f)) \in Nat
    BY <1>5, <1>7, SumNat
  <2>2. Part(f, DOMAIN f) = f
    BY <1>5, PartSelf
  <2> QED BY <2>1, <2>2
<1>9. Sum(f) <= n
  <2>1. Sum(f) = IF Sum(all) <= n THEN Sum(all) ELSE n
    BY <1>5
  <2> QED BY <2>1
<1>10. Remaining(b, p, n, k) = n - Sum(f)
  <2> DEFINE h == CHOOSE h \in ContainItem(b, p, n, k) : TRUE
  <2>1. h \in ContainItem(b, p, n, k)
    OBVIOUS
  <2>2. Remaining(b, p, n, k) = n - Sum(h)
    BY DEF Remaining
  <2> HIDE DEF h
  <2>3. Sum(h) = Sum(f)
    BY <1>5, <2>1
  <2> QED BY <2>2, <2>3
<1> QED BY <1>2, <1>5, <1>6, <1>7, <1>8, <1>9, <1>10

\* Some stacks get other amounts.
LEMMA AmountsSet ==
  ASSUME NEW b, Tables(b), Stock(b.item, b.high), NEW f, NEW c, c = SetItemAmount(b, f),
         \A g \in DOMAIN f \cap DOMAIN b.item : f[g] \in 1..MaxCount[b.item[g].proto]
  PROVE  /\ Tables(c) /\ Stock(c.item, c.high) /\ Stays(b.item, c.item) /\ c.high = b.high
         /\ c.packs = b.packs /\ DOMAIN c.item = DOMAIN b.item
         /\ \A g \in DOMAIN b.item \cap DOMAIN f : c.item[g].amount = f[g]
         /\ \A g \in DOMAIN b.item \ DOMAIN f : c.item[g] = b.item[g]
<1> DEFINE t == [g \in DOMAIN b.item |->
                  IF g \in DOMAIN f THEN [b.item[g] EXCEPT !.amount = f[g]] ELSE b.item[g]]
<1>1. c = [item |-> t, packs |-> b.packs, high |-> b.high]
  BY SetAmountEffect
<1>2. \A g \in DOMAIN t : /\ t[g] \in Items /\ t[g].amount \in 1..MaxCount[t[g].proto]
                          /\ t[g].pack = b.item[g].pack /\ t[g].proto = b.item[g].proto
                          /\ (g \in DOMAIN f => t[g].amount = f[g])
                          /\ (g \notin DOMAIN f => t[g] = b.item[g])
  <2> TAKE g \in DOMAIN t
  <2>1. g \in DOMAIN b.item /\ b.item[g] \in Items
    BY DEF Stock
  <2>2. CASE g \in DOMAIN f
    <3>1. t[g] = [b.item[g] EXCEPT !.amount = f[g]]
      BY <2>1, <2>2
    <3>2. f[g] \in 1..MaxCount[b.item[g].proto] /\ b.item[g].proto \in Protos
      BY <2>1, <2>2, ItemFields
    <3>3. f[g] \in Nat
      BY <3>2, MaxCountType
    <3> HIDE DEF t
    <3> QED BY <2>1, <2>2, <3>1, <3>2, <3>3, ItemAmount
  <2>3. CASE g \notin DOMAIN f
    <3>1. t[g] = b.item[g]
      BY <2>1, <2>3
    <3> HIDE DEF t
    <3> QED BY <2>1, <2>3, <3>1 DEF Stock
  <2> QED BY <2>2, <2>3
<1>3. DOMAIN t = DOMAIN b.item /\ t = [g \in DOMAIN t |-> t[g]]
  OBVIOUS
<1> HIDE DEF t
<1>4. b.packs = [k \in Packs |-> b.packs[k] \cap DOMAIN t]
  BY <1>3 DEF Tables, Held
<1>5. Stays(b.item, t)
  BY <1>2, <1>3 DEF Stays
<1>6. /\ Tables(c) /\ Stock(c.item, c.high) /\ Stays(b.item, c.item)
      /\ c.item = t /\ c.high = b.high
  BY <1>1, <1>2, <1>3, <1>4, <1>5, Rebuilt
<1>7. c.packs = b.packs
  BY <1>1
<1> QED BY <1>2, <1>3, <1>6, <1>7

\* The stacks of f after they are filled
LEMMA FilledFacts ==
  ASSUME NEW b, Tables(b), Stock(b.item, b.high), NEW p \in Protos, NEW n \in Nat \ {0},
         NEW k \in Packs, NEW f \in ContainItem(b, p, n, k), NEW c, c = Filled(b, f)
  PROVE  /\ Tables(c) /\ Stock(c.item, c.high) /\ Stays(b.item, c.item) /\ c.high = b.high
         /\ c.packs = b.packs /\ DOMAIN c.item = DOMAIN b.item
         /\ \A g \in DOMAIN f : c.item[g].amount = b.item[g].amount + f[g]
         /\ \A g \in DOMAIN b.item \ DOMAIN f : c.item[g] = b.item[g]
<1> DEFINE more == [g \in DOMAIN f |-> b.item[g].amount + f[g]]
<1>1. c = SetItemAmount(b, more)
  BY DEF Filled, Amount
<1>2. DOMAIN f \subseteq DOMAIN b.item
        /\ \A g \in DOMAIN f : more[g] \in 1..MaxCount[b.item[g].proto]
  BY ContainFacts
<1>3. DOMAIN more = DOMAIN f /\ \A g \in DOMAIN f : more[g] = b.item[g].amount + f[g]
  OBVIOUS
<1> HIDE DEF more
<1>4. /\ Tables(c) /\ Stock(c.item, c.high) /\ Stays(b.item, c.item) /\ c.high = b.high
      /\ c.packs = b.packs /\ DOMAIN c.item = DOMAIN b.item
      /\ \A g \in DOMAIN b.item \cap DOMAIN more : c.item[g].amount = more[g]
      /\ \A g \in DOMAIN b.item \ DOMAIN more : c.item[g] = b.item[g]
  BY <1>1, <1>2, <1>3, AmountsSet
<1> QED BY <1>2, <1>3, <1>4

-----------------------------------------------------------------------------
(* Moving an item to another pack *)

Moved(b, c, g, k) ==
  /\ Tables(c) /\ Stock(c.item, c.high) /\ c.high = b.high
  /\ DOMAIN c.item = DOMAIN b.item
  /\ \A h \in DOMAIN b.item \ {g} : c.item[h] = b.item[h]
  /\ c.item[g].proto = b.item[g].proto /\ c.item[g].amount = b.item[g].amount
  /\ Held(c.item, k) = Held(b.item, k) \cup {g}
  /\ \A l \in Packs \ {k} : Held(c.item, l) = Held(b.item, l) \ {g}

\* What a move does to the tables, the limits and the writes
LEMMA MovedFacts ==
  ASSUME NEW b, Tables(b), Stock(b.item, b.high), NEW g \in DOMAIN b.item, NEW k \in Packs,
         k # b.item[g].pack, NEW c, c = MoveItem(b, g, k)
  PROVE  Moved(b, c, g, k)
<1> DEFINE i == b.item[g]
           j == [i EXCEPT !.pack = k]
           t == [h \in DOMAIN b.item |-> IF h = g THEN j ELSE b.item[h]]
           s == [l \in Packs |-> IF l = k THEN b.packs[l] \cup {g} ELSE b.packs[l] \ {g}]
<1>1. i \in Items /\ i.amount \in 1..MaxCount[i.proto]
  BY DEF Stock
<1>2. i.pack \in Packs
  BY <1>1, ItemFields
<1>3. c = [item |-> t, packs |-> s, high |-> b.high]
  BY <1>2, MoveEffect
<1>4. j \in Items /\ j.amount = i.amount /\ j.proto = i.proto /\ j.pack = k
  BY <1>1, ItemPack
<1>5. DOMAIN t = DOMAIN b.item /\ t = [h \in DOMAIN t |-> t[h]] /\ t[g] = j
      /\ \A h \in DOMAIN b.item \ {g} : t[h] = b.item[h]
  OBVIOUS
<1> HIDE DEF t, j
<1>6. Held(t, k) = Held(b.item, k) \cup {g}
  BY <1>4, <1>5 DEF Held
<1>7. \A l \in Packs \ {k} : Held(t, l) = Held(b.item, l) \ {g}
  BY <1>4, <1>5 DEF Held
<1>8. \A l \in Packs : s[l] = Held(t, l)
  BY <1>6, <1>7, TablesHold
<1>9. s = [l \in Packs |-> Held(t, l)] /\ b.high \in Nat
  BY <1>8, TablesHold
<1> HIDE DEF s
<1>10. Tables(c)
  BY <1>3, <1>9, TablesFrom
<1>11. Stock(t, b.high)
  <2>1. \A h \in DOMAIN t : t[h] \in Items /\ t[h].amount \in 1..MaxCount[t[h].proto]
    BY <1>1, <1>4, <1>5 DEF Stock
  <2> QED BY <1>5, <2>1 DEF Stock
<1>12. c.item = t /\ c.high = b.high
  BY <1>3
<1> QED BY <1>4, <1>5, <1>6, <1>7, <1>10, <1>11, <1>12 DEF Moved

\* What a request to move an item finds
LEMMA SwapGuard ==
  ASSUME BackpackInv, NEW g \in DOMAIN bag.item, NEW k \in Packs,
    CanSwapItemToSpecifyPack(g, k),
         NEW f \in ContainItem(bag, bag.item[g].proto, bag.item[g].amount, k)
  PROVE  /\ k # bag.item[g].pack /\ g \notin DOMAIN f
         /\ k = Worn => DOMAIN f = {} /\ Sum(f) = 0
         /\ DOMAIN f \subseteq Held(bag.item, k) /\ DOMAIN f \subseteq DOMAIN bag.item
         /\ \A h \in DOMAIN f : /\ f[h] \in Nat \ {0} /\ bag.item[h].proto = bag.item[g].proto
                                /\ bag.item[h].amount + f[h] \in 1..MaxCount[bag.item[h].proto]
         /\ f = [h \in DOMAIN f |-> f[h]] /\ Sum(f) \in Nat /\ Sum(f) <= bag.item[g].amount
         /\ k \in Limited /\ bag.item[g].amount - Sum(f) > 0
              => Cardinality(Held(bag.item, k)) < GridLimit[k]
<1> DEFINE i == bag.item[g]
<1>1. i.proto \in Protos /\ i.amount \in Nat \ {0} /\ Tables(bag) /\ Stock(bag.item, bag.high)
  BY BagFacts
<1>2. /\ f = [h \in DOMAIN f |-> f[h]] /\ DOMAIN f \subseteq Held(bag.item, k)
      /\ DOMAIN f \subseteq DOMAIN bag.item
      /\ \A h \in DOMAIN f : /\ f[h] \in Nat \ {0} /\ bag.item[h].proto = i.proto
                             /\ bag.item[h].amount + f[h] \in 1..MaxCount[i.proto]
      /\ MaxCount[i.proto] <= 1 => DOMAIN f = {}
      /\ Sum(f) \in Nat /\ Sum(f) <= i.amount
      /\ Remaining(bag, i.proto, i.amount, k) = i.amount - Sum(f)
  BY <1>1, ContainFacts
<1>3. i.pack # k /\ (k = Worn => i.proto \in Equipment)
      /\ (k # Worn /\ Remaining(bag, i.proto, i.amount, k) > 0
            => Cardinality(bag.packs[k]) < GridLimit[k])
  BY DEF CanSwapItemToSpecifyPack
<1>4. bag.packs[k] = Held(bag.item, k)
  BY BagFacts
<1>5. ASSUME k = Worn PROVE DOMAIN f = {} /\ Sum(f) = 0
  <2>1. MaxCount[i.proto] = 1
    BY <1>3, <1>5, ConstantsAssumption
  <2>2. DOMAIN f = {}
    BY <1>2, <2>1
  <2> QED BY <2>2, SumEmpty
<1>6. g \notin DOMAIN f
  BY <1>2, <1>3 DEF Held
<1>7. ASSUME k \in Limited, i.amount - Sum(f) > 0 PROVE Cardinality(Held(bag.item, k)) < GridLimit[k]
  <2>1. k # Worn
    BY <1>7, GridFacts
  <2>2. Remaining(bag, i.proto, i.amount, k) > 0
    BY <1>2, <1>7
  <2> QED BY <1>3, <1>4, <2>1, <2>2
<1> QED BY <1>2, <1>3, <1>5, <1>6, <1>7

\* The item of a swap: moved with what is left of it, or gone
LEMMA SwappedFacts ==
  ASSUME BackpackInv, NEW g \in DOMAIN bag.item, NEW k \in Packs,
    CanSwapItemToSpecifyPack(g, k),
         NEW f \in ContainItem(bag, bag.item[g].proto, bag.item[g].amount, k),
         NEW remain, remain = bag.item[g].amount - Sum(f),
         NEW c, c = Swapped(g, k, f)
  PROVE  /\ Tables(c) /\ Stock(c.item, c.high) /\ c.high = bag.high
         /\ remain \in Nat
         /\ remain > 0 => /\ DOMAIN c.item = DOMAIN bag.item
                          /\ c.item[g].amount = remain /\ c.item[g].proto = bag.item[g].proto
                          /\ Held(c.item, k) = Held(bag.item, k) \cup {g}
                          /\ \A l \in Packs \ {k} : Held(c.item, l) = Held(bag.item, l) \ {g}
         /\ remain = 0 => DOMAIN c.item = DOMAIN bag.item \ {g} /\ Stays(bag.item, c.item)
         /\ \A h \in DOMAIN f : /\ c.item[h].amount = bag.item[h].amount + f[h]
                                /\ c.item[h].proto = bag.item[h].proto
         /\ \A h \in DOMAIN bag.item \ (DOMAIN f \cup {g}) : c.item[h] = bag.item[h]
<1> DEFINE i == bag.item[g]
           b == Filled(bag, f)
<1>1. i.proto \in Protos /\ i.amount \in Nat \ {0} /\ Tables(bag) /\ Stock(bag.item, bag.high)
      /\ i.amount \in 1..MaxCount[i.proto] /\ MaxCount[i.proto] \in Nat
  BY BagFacts
<1>2. /\ k # i.pack /\ g \notin DOMAIN f /\ DOMAIN f \subseteq DOMAIN bag.item
      /\ Sum(f) \in Nat /\ Sum(f) <= i.amount
  BY SwapGuard
<1>3. /\ Tables(b) /\ Stock(b.item, b.high) /\ Stays(bag.item, b.item) /\ b.high = bag.high
      /\ b.packs = bag.packs /\ DOMAIN b.item = DOMAIN bag.item
      /\ \A h \in DOMAIN f : b.item[h].amount = bag.item[h].amount + f[h]
      /\ \A h \in DOMAIN bag.item \ DOMAIN f : b.item[h] = bag.item[h]
  BY <1>1, FilledFacts
<1>4. remain \in Nat
  BY <1>1, <1>2
<1>5. c = IF remain > 0 THEN MoveItem(SetItemAmount(b, Only(g, remain)), g, k) ELSE RemoveItems(b, {g})
  BY DEF Swapped, Amount
<1>6. /\ g \in DOMAIN b.item /\ b.item[g] = i
      /\ \A h \in DOMAIN b.item :
           b.item[h].proto = bag.item[h].proto /\ b.item[h].pack = bag.item[h].pack
  BY <1>2, <1>3 DEF Stays
<1> HIDE DEF b
<1>7. \A l \in Packs : Held(b.item, l) = Held(bag.item, l)
  BY <1>3, <1>6 DEF Held
<1>8. CASE remain > 0
  <2> DEFINE e == Only(g, remain)
             d == SetItemAmount(b, e)
  <2>1. DOMAIN e = {g} /\ e[g] = remain /\ remain \in 1..MaxCount[i.proto]
    BY <1>1, <1>2, <1>8 DEF Only
  <2>2. \A h \in DOMAIN e \cap DOMAIN b.item : e[h] \in 1..MaxCount[b.item[h].proto]
    BY <1>6, <2>1
  <2> HIDE DEF e
  <2>3. /\ Tables(d) /\ Stock(d.item, d.high) /\ Stays(b.item, d.item) /\ d.high = b.high
        /\ d.packs = b.packs /\ DOMAIN d.item = DOMAIN b.item
        /\ \A h \in DOMAIN b.item \cap DOMAIN e : d.item[h].amount = e[h]
        /\ \A h \in DOMAIN b.item \ DOMAIN e : d.item[h] = b.item[h]
    BY <1>3, <2>2, AmountsSet
  <2> HIDE DEF d
  <2>4. g \in DOMAIN d.item /\ d.item[g].amount = remain /\ d.item[g].pack = i.pack
        /\ d.item[g].proto = i.proto
        /\ \A h \in DOMAIN d.item : d.item[h].proto = bag.item[h].proto
             /\ d.item[h].pack = bag.item[h].pack
    BY <1>6, <2>1, <2>3 DEF Stays
  <2>5. \A l \in Packs : Held(d.item, l) = Held(bag.item, l)
    BY <1>3, <2>3, <2>4 DEF Held
  <2>6. c = MoveItem(d, g, k)
    BY <1>5, <1>8 DEF d, e
  <2>7. /\ Tables(c) /\ Stock(c.item, c.high) /\ c.high = d.high
        /\ DOMAIN c.item = DOMAIN d.item
        /\ \A h \in DOMAIN d.item \ {g} : c.item[h] = d.item[h]
        /\ c.item[g].proto = d.item[g].proto /\ c.item[g].amount = d.item[g].amount
        /\ Held(c.item, k) = Held(d.item, k) \cup {g}
        /\ \A l \in Packs \ {k} : Held(c.item, l) = Held(d.item, l) \ {g}
    <3>1. k # d.item[g].pack /\ g \in DOMAIN d.item
      BY <1>2, <2>4
    <3>2. Tables(d) /\ Stock(d.item, d.high)
      BY <2>3
    <3>3. Moved(d, c, g, k)
      BY <2>6, <3>1, <3>2, MovedFacts
    <3> QED BY <3>3 DEF Moved
  <2>8. \A h \in DOMAIN bag.item \ {g} : c.item[h] = b.item[h]
    BY <1>3, <2>1, <2>3, <2>7
  <2>9. /\ \A h \in DOMAIN f : /\ c.item[h].amount = bag.item[h].amount + f[h]
                               /\ c.item[h].proto = bag.item[h].proto
        /\ \A h \in DOMAIN bag.item \ (DOMAIN f \cup {g}) : c.item[h] = bag.item[h]
    BY <1>2, <1>3, <1>6, <2>8
  <2> QED BY <1>3, <1>4, <1>8, <2>3, <2>4, <2>5, <2>7, <2>9
<1>9. CASE ~(remain > 0)
  <2>1. remain = 0 /\ c = RemoveItems(b, {g})
    BY <1>4, <1>5, <1>9
  <2>2. /\ Tables(c) /\ Stock(c.item, c.high) /\ Stays(b.item, c.item) /\ c.high = b.high
        /\ DOMAIN c.item = DOMAIN b.item \ {g}
        /\ \A h \in DOMAIN c.item : c.item[h] = b.item[h]
    BY <1>3, <2>1, Removed
  <2>3. Stays(bag.item, c.item)
    BY <1>3, <1>6, <2>2 DEF Stays
  <2>4. /\ \A h \in DOMAIN f : /\ c.item[h].amount = bag.item[h].amount + f[h]
                               /\ c.item[h].proto = bag.item[h].proto
        /\ \A h \in DOMAIN bag.item \ (DOMAIN f \cup {g}) : c.item[h] = bag.item[h]
    BY <1>2, <1>3, <1>6, <2>2
  <2> QED BY <1>3, <1>4, <1>9, <2>1, <2>2, <2>3, <2>4
<1> QED BY <1>8, <1>9

\* Items that keep prototype and amount keep the units.
LEMMA UnitsSame ==
  ASSUME NEW items, NEW others, NEW n \in Nat, Stock(items, n), Stock(others, n), NEW p,
         \A g \in 1..n : UnitsOf(others, g, p) = UnitsOf(items, g, p)
  PROVE  Units(others, p) = Units(items, p)
<1>1. \A g \in 1..n : UnitsTable(others, p, 1..n)[g] = UnitsTable(items, p, 1..n)[g]
  BY DEF UnitsTable
<1>2. Part(UnitsTable(others, p, 1..n), 1..n) = Part(UnitsTable(items, p, 1..n), 1..n)
  BY <1>1, PartSame
<1> QED BY <1>2, UnitsNat

\* What one stack loses goes to others.
LEMMA UnitsMoved ==
  ASSUME NEW items, NEW others, NEW n \in Nat, Stock(items, n), Stock(others, n), NEW p,
         NEW f, f = [h \in DOMAIN f |-> f[h]], \A h \in DOMAIN f : f[h] \in Nat,
         NEW g \in 1..n, g \notin DOMAIN f, DOMAIN f \subseteq 1..n,
         \A h \in DOMAIN f : UnitsOf(others, h, p) = UnitsOf(items, h, p) + f[h],
         UnitsOf(others, g, p) + Sum(f) = UnitsOf(items, g, p),
         \A h \in 1..n : h \notin DOMAIN f
           /\ h # g => UnitsOf(others, h, p) = UnitsOf(items, h, p)
  PROVE  Units(others, p) = Units(items, p)
<1> DEFINE D == 1..n
           E == D \ {g}
           u == UnitsTable(items, p, D)
           v == UnitsTable(others, p, D)
           more == [h \in E |-> IF h \in DOMAIN f THEN f[h] ELSE 0]
<1>1. IsFiniteSet(D) /\ Units(items, p) = Sum(Part(u, D)) /\ Units(others, p) = Sum(Part(v, D))
  BY UnitsNat
<1>2. \A h \in D : u[h] = UnitsOf(items, h, p) /\ v[h] = UnitsOf(others, h, p)
  BY DEF UnitsTable
<1>3. \A h \in D : u[h] \in Int /\ v[h] \in Int
  BY <1>2, UnitsNat
<1>4. IsFiniteSet(E) /\ E \subseteq D /\ g \in D
  BY <1>1, FS_Subset
<1>5. (\A h \in E : more[h] = IF h \in DOMAIN f THEN f[h] ELSE 0) /\ DOMAIN f \subseteq E
  OBVIOUS
<1> HIDE DEF D, E, u, v, more
<1>6. \A h \in E : more[h] \in Int /\ v[h] = u[h] + more[h]
  <2> TAKE h \in E
  <2>1. h \in 1..n /\ h # g /\ h \in D
    BY <1>4 DEF D, E
  <2>2. u[h] \in Int /\ u[h] = UnitsOf(items, h, p) /\ v[h] = UnitsOf(others, h, p)
    BY <1>2, <1>3, <2>1
  <2>3. CASE h \in DOMAIN f
    BY <1>5, <2>2, <2>3
  <2>4. CASE h \notin DOMAIN f
    BY <1>5, <2>1, <2>2, <2>4
  <2> QED BY <2>3, <2>4
<1>7. Sum(Part(v, E)) = Sum(Part(u, E)) + Sum(Part(more, E))
  <2>1. \A h \in E : u[h] \in Int /\ more[h] \in Int /\ v[h] = u[h] + more[h]
    BY <1>3, <1>4, <1>6
  <2> QED BY <1>4, <2>1, SumPlus
<1>8. Sum(Part(more, E)) = Sum(f)
  <2>1. Sum(Part(more, E)) = Sum(Part(more, DOMAIN f))
    BY <1>4, <1>5, <1>6, SumSupport
  <2>2. Part(more, DOMAIN f) = Part(f, DOMAIN f)
    BY <1>5, PartSame
  <2>3. Part(f, DOMAIN f) = f
    BY PartSelf
  <2> QED BY <2>1, <2>2, <2>3
<1>9. Sum(Part(u, D)) = u[g] + Sum(Part(u, E)) /\ Sum(Part(v, D)) = v[g] + Sum(Part(v, E))
  BY <1>1, <1>3, <1>4, SumSplit DEF E
<1>10. Sum(Part(u, E)) \in Int /\ Sum(Part(more, E)) \in Int /\ u[g] \in Int /\ v[g] \in Int
  BY <1>3, <1>4, <1>6, SumInt
<1>11. v[g] + Sum(f) = u[g]
  BY <1>2, <1>4
<1> DEFINE U == Sum(Part(u, E))
           F == Sum(f)
<1>12. /\ U \in Int /\ F \in Int /\ u[g] \in Int /\ v[g] \in Int
       /\ Units(items, p) = u[g] + U /\ Units(others, p) = v[g] + (U + F) /\ v[g] + F = u[g]
  BY <1>1, <1>7, <1>8, <1>9, <1>10, <1>11
<1> HIDE DEF U, F
<1> QED BY <1>12

\* The item goes to the other pack, in whole or in part, and nothing comes back.
LEMMA SwapAway ==
  ASSUME BackpackInv, Ready, NEW g \in DOMAIN bag.item, NEW k \in Packs,
         CanSwapItemToSpecifyPack(g, k),
         NEW f \in ContainItem(bag, bag.item[g].proto, bag.item[g].amount, k),
         ExistItems(g, k) = {}, Perform("swap", Swapped(g, k, f), SwapWrites(f, g))
  PROVE  /\ BackpackInv'
         /\ \A p \in Protos : Units(bag'.item, p) = Units(bag.item, p)
<1> DEFINE item == bag.item
           n == bag.high
           i == item[g]
           remain == i.amount - Sum(f)
           c == Swapped(g, k, f)
           w == SwapWrites(f, g)
<1>1. /\ k # i.pack /\ g \notin DOMAIN f
      /\ DOMAIN f \subseteq Held(item, k) /\ DOMAIN f \subseteq DOMAIN item
      /\ \A h \in DOMAIN f : /\ f[h] \in Nat \ {0} /\ item[h].proto = i.proto
                             /\ item[h].amount + f[h] \in 1..MaxCount[item[h].proto]
      /\ f = [h \in DOMAIN f |-> f[h]] /\ Sum(f) \in Nat /\ Sum(f) <= i.amount
      /\ k \in Limited /\ remain > 0 => Cardinality(Held(item, k)) < GridLimit[k]
  BY SwapGuard
<1>2. /\ Tables(c) /\ Stock(c.item, c.high) /\ c.high = n /\ remain \in Nat
      /\ remain > 0 => /\ DOMAIN c.item = DOMAIN item
                       /\ c.item[g].amount = remain /\ c.item[g].proto = i.proto
                       /\ Held(c.item, k) = Held(item, k) \cup {g}
                       /\ \A l \in Packs \ {k} : Held(c.item, l) = Held(item, l) \ {g}
      /\ remain = 0 => DOMAIN c.item = DOMAIN item \ {g} /\ Stays(item, c.item)
      /\ \A h \in DOMAIN f : /\ c.item[h].amount = item[h].amount + f[h]
                             /\ c.item[h].proto = item[h].proto
      /\ \A h \in DOMAIN item \ (DOMAIN f \cup {g}) : c.item[h] = item[h]
  BY SwappedFacts
<1>3. n \in Nat /\ Stock(item, n) /\ Fits(item) /\ DOMAIN item \subseteq 1..n
      /\ i.proto \in Protos /\ i.amount \in Nat \ {0} /\ i.pack \in Packs
      /\ \A h \in DOMAIN item : item[h].amount \in Nat
  BY BagFacts
<1> HIDE DEF c, remain
<1>4. DOMAIN c.item \subseteq DOMAIN item
        /\ \A h \in DOMAIN c.item : c.item[h].proto = item[h].proto
  BY <1>2
<1>5. /\ Writable(w, n) /\ Pending(w) = DOMAIN f \cup {g} /\ DOMAIN w = 1..Len(w)
           /\ Len(w) \in Nat
      /\ \A a \in DOMAIN w : g \in w[a] => a = Len(w) /\ w[a] = {g}
  <2>1. DOMAIN f \subseteq 1..n /\ {g} \subseteq 1..n
    BY <1>1, <1>3
  <2>2. Writable(Loop(DOMAIN f), n) /\ Pending(Loop(DOMAIN f)) = DOMAIN f
          /\ Len(Loop(DOMAIN f)) \in {0, 1}
    BY <1>3, <2>1, LoopFacts
  <2> DEFINE v == Loop(DOMAIN f)
             u == Loop({g})
  <2>3. u = <<{g}>>
    BY DEF Loop
  <2>4. Len(u) = 1 /\ u[1] = {g}
    BY <2>3
  <2>5. Writable(u, n) /\ Pending(u) = {g}
    BY <1>3, <2>1, LoopFacts
  <2>6. w = v \o u
    BY <2>3 DEF SwapWrites
  <2> HIDE DEF u
  <2>7. Writable(v, n) /\ Writable(u, n) /\ Len(u) = 1 /\ u[1] = {g} /\ Pending(u) = {g}
        /\ Pending(v) = DOMAIN f /\ Len(v) \in Nat /\ w = v \o u
    BY <2>2, <2>4, <2>5, <2>6
  <2> HIDE DEF v
  <2>8. /\ Writable(v \o u, n) /\ Pending(v \o u) = Pending(v) \cup Pending(u)
        /\ Len(v \o u) = Len(v) + Len(u)
        /\ \A a \in 1..Len(v) : (v \o u)[a] = v[a]
        /\ \A a \in Len(v) + 1 .. Len(v) + Len(u) : (v \o u)[a] = u[a - Len(v)]
    <3>1. n \in Nat /\ Writable(v, n) /\ Writable(u, n)
      BY <1>3, <2>7
    <3> HIDE DEF n
    <3> QED BY <3>1, AfterFacts
  <2>9. Writable(w, n) /\ Pending(w) = DOMAIN f \cup {g} /\ Len(w) = Len(v) + 1
    BY <2>7, <2>8
  <2>10. DOMAIN w = 1..Len(w)
    BY <2>9 DEF Writable
  <2> HIDE DEF w
  <2>11. DOMAIN v = 1..Len(v)
    BY <2>7 DEF Writable
  <2>12. ASSUME NEW a \in DOMAIN w, g \in w[a] PROVE a = Len(w) /\ w[a] = {g}
    <3>1. CASE a \in 1..Len(v)
      <4>1. g \in v[a]
        BY <2>7, <2>8, <2>12, <3>1
      <4>2. g \in Pending(v)
        BY <2>11, <3>1, <4>1 DEF Pending
      <4> QED BY <1>1, <2>7, <4>2
    <3>2. CASE a \notin 1..Len(v)
      <4>1. a = Len(v) + 1 /\ a - Len(v) = 1
        BY <2>7, <2>9, <2>10, <3>2
      <4>2. a \in Len(v) + 1 .. Len(v) + Len(u)
        BY <2>7, <4>1
      <4>3. w[a] = u[a - Len(v)]
        BY <2>7, <2>8, <4>2
      <4> QED BY <2>7, <2>9, <4>1, <4>3
    <3> QED BY <3>1, <3>2
  <2> QED BY <2>7, <2>9, <2>10, <2>12
<1> HIDE DEF w
<1>6. Fits(c.item)
  <2>1. CASE remain = 0
    BY <1>2, <1>3, <2>1, StaysFit
  <2>2. CASE remain > 0
    <3> SUFFICES ASSUME NEW l \in Limited PROVE Cardinality(Held(c.item, l)) <= GridLimit[l]
      BY DEF Fits
    <3>1. IsFiniteSet(Held(item, l)) /\ l \in Packs
            /\ Cardinality(Held(item, l)) <= GridLimit[l]
      BY <1>3, StockFinite, GridFacts DEF Fits
    <3>2. Cardinality(Held(item, l)) \in Nat /\ GridLimit[l] \in Nat
      BY <3>1, FS_CardinalityType, GridFacts
    <3>3. CASE l = k
      <4>1. Held(c.item, l) = Held(item, l) \cup {g}
        BY <1>2, <2>2, <3>3
      <4>2. g \notin Held(item, l)
        BY <1>1, <3>3 DEF Held
      <4>3. Cardinality(Held(c.item, l)) = Cardinality(Held(item, l)) + 1
        BY <3>1, <4>1, <4>2, FS_AddElement
      <4>4. Cardinality(Held(item, l)) < GridLimit[l]
        BY <1>1, <2>2, <3>3
      <4> QED BY <3>2, <4>3, <4>4
    <3>4. CASE l # k
      <4>1. Held(c.item, l) \subseteq Held(item, l)
        BY <1>2, <2>2, <3>1, <3>4
      <4>2. Cardinality(Held(c.item, l)) <= Cardinality(Held(item, l))
            /\ Cardinality(Held(c.item, l)) \in Nat
        BY <3>1, <4>1, FS_Subset, FS_CardinalityType
      <4> QED BY <3>1, <3>2, <4>2
    <3> QED BY <3>3, <3>4
  <2> QED BY <1>2, <2>1, <2>2
<1>7. Ordered(item, c.item, w)
  <2>1. CASE remain = 0
    BY <1>2, <2>1, StaysHeld
  <2>2. CASE remain > 0
    <3>1. \A l \in Packs : Held(c.item, l) \subseteq Held(item, l) \/ Held(item, l) \subseteq Held(c.item, l)
      BY <1>2, <2>2
    <3> QED BY <3>1, GridFacts DEF Ordered
  <2> QED BY <1>2, <2>1, <2>2
<1>8. ASSUME OneWorn(item) PROVE OneWorn(c.item)
  <2>1. CASE remain = 0
    BY <1>2, <1>8, <2>1, StaysHeld
  <2>2. CASE remain > 0 /\ k # Worn
    <3>1. Held(c.item, Worn) \subseteq Held(item, Worn)
            /\ Held(c.item, Worn) \subseteq DOMAIN c.item
      BY <1>2, <2>2, GridFacts DEF Held
    <3> QED BY <1>4, <1>8, <3>1 DEF OneWorn
  <2>3. CASE remain > 0 /\ k = Worn
    <3>1. Held(c.item, Worn) = Held(item, Worn) \cup {g}
            /\ Held(c.item, Worn) \subseteq DOMAIN c.item
      BY <1>2, <2>3 DEF Held
    <3>2. \A h \in Held(item, Worn) : SubClass[item[h].proto] # SubClass[i.proto]
      <4>1. bag.packs[Worn] = Held(item, Worn)
        BY BagFacts, GridFacts
      <4> QED BY <2>3, <4>1 DEF ExistItems
    <3>3. ASSUME NEW x \in Held(c.item, Worn), NEW y \in Held(c.item, Worn),
                 SubClass[c.item[x].proto] = SubClass[c.item[y].proto]
          PROVE  x = y
      <4>1. SubClass[item[x].proto] = SubClass[item[y].proto]
        BY <1>4, <3>1, <3>3
      <4>2. CASE x \in Held(item, Worn) /\ y \in Held(item, Worn)
        BY <1>8, <4>1, <4>2 DEF OneWorn
      <4>3. CASE x = g \/ y = g
        BY <3>1, <3>2, <3>3, <4>1, <4>3
      <4> QED BY <3>1, <4>2, <4>3
    <3> QED BY <3>3 DEF OneWorn
  <2> QED BY <1>2, <2>1, <2>2, <2>3
<1>9. \A h \in 1..n : h \in Pending(w) \/ Alike(item, c.item, h)
  <2> SUFFICES ASSUME NEW h \in 1..n, h \notin DOMAIN f, h # g PROVE Alike(item, c.item, h)
    BY <1>5
  <2>1. h \in DOMAIN item <=> h \in DOMAIN c.item
    BY <1>2
  <2> QED BY <1>2, <2>1 DEF Alike
<1>10. Sound(c, w)
  BY <1>2, <1>3, <1>5, <1>6, <1>7, <1>8, <1>9 DEF Sound
<1>11. \A p : /\ p # i.proto => \A h \in 1..n : UnitsOf(c.item, h, p) = UnitsOf(item, h, p)
              /\ p = i.proto => /\ \A h \in DOMAIN f : UnitsOf(c.item, h, p)
                                     = UnitsOf(item, h, p) + f[h]
                                /\ UnitsOf(c.item, g, p) = remain
                                     /\ UnitsOf(item, g, p) = i.amount
              /\ \A h \in 1..n : h \notin DOMAIN f
                   /\ h # g => UnitsOf(c.item, h, p) = UnitsOf(item, h, p)
  <2> TAKE p
  <2>1. \A h \in 1..n : h \notin DOMAIN f
          /\ h # g => UnitsOf(c.item, h, p) = UnitsOf(item, h, p)
    BY <1>5, <1>9 DEF Alike, UnitsOf
  <2>2. ASSUME p # i.proto PROVE \A h \in 1..n : UnitsOf(c.item, h, p) = UnitsOf(item, h, p)
    <3> TAKE h \in 1..n
    <3>1. CASE h \in DOMAIN f \/ h = g
      BY <1>1, <1>2, <1>4, <2>2, <3>1 DEF UnitsOf
    <3> QED BY <2>1, <3>1
  <2>3. ASSUME p = i.proto
        PROVE  /\ \A h \in DOMAIN f : UnitsOf(c.item, h, p) = UnitsOf(item, h, p) + f[h]
               /\ UnitsOf(c.item, g, p) = remain /\ UnitsOf(item, g, p) = i.amount
    <3>1. \A h \in DOMAIN f : h \in DOMAIN c.item /\ h \in DOMAIN item
      BY <1>1, <1>2
    <3>2. UnitsOf(item, g, p) = i.amount
      BY <2>3 DEF UnitsOf
    <3>3. UnitsOf(c.item, g, p) = remain
      BY <1>2, <2>3 DEF UnitsOf
    <3> QED BY <1>1, <1>2, <2>3, <3>1, <3>2, <3>3 DEF UnitsOf
  <2> QED BY <2>1, <2>2, <2>3
<1>12. \A p \in Protos : Units(c.item, p) = Units(item, p)
  <2> TAKE p \in Protos
  <2>1. CASE p # i.proto
    BY <1>2, <1>3, <1>11, <2>1, UnitsSame
  <2>2. CASE p = i.proto
    <3>1. UnitsOf(c.item, g, p) + Sum(f) = UnitsOf(item, g, p)
      BY <1>1, <1>3, <1>11, <2>2 DEF remain
    <3>2. DOMAIN f \subseteq 1..n /\ g \in 1..n /\ \A h \in DOMAIN f : f[h] \in Nat
      BY <1>1, <1>3
    <3>3. Stock(c.item, n) /\ Stock(item, n) /\ n \in Nat
      BY <1>2, <1>3
    <3>4. /\ \A h \in DOMAIN f : UnitsOf(c.item, h, p) = UnitsOf(item, h, p) + f[h]
          /\ \A h \in 1..n : h \notin DOMAIN f
               /\ h # g => UnitsOf(c.item, h, p) = UnitsOf(item, h, p)
      BY <1>11, <2>2
    <3>5. f = [h \in DOMAIN f |-> f[h]] /\ g \notin DOMAIN f
      BY <1>1
    <3> QED BY <3>1, <3>2, <3>3, <3>4, <3>5, UnitsMoved
  <2> QED BY <2>1, <2>2
<1>13. RaisedFirst(item, c.item, w)
  <2> SUFFICES ASSUME NEW p \in Protos, NEW a \in DOMAIN w, NEW d \in DOMAIN w, a <= d,
                      NEW x \in w[a], NEW y \in w[d],
                      UnitsOf(c.item, x, p) < UnitsOf(item, x, p), UnitsOf(c.item, y, p) > UnitsOf(item, y, p)
               PROVE  FALSE
    BY DEF RaisedFirst
  <2>1. \A h \in 1..n : UnitsOf(item, h, p) \in Nat
    BY <1>3, UnitsNat
  <2>2. x \in DOMAIN f \cup {g} /\ y \in DOMAIN f \cup {g}
    BY <1>5 DEF Pending
  <2>3. p = i.proto /\ x \in 1..n /\ y \in 1..n
    BY <1>1, <1>3, <1>11, <2>1, <2>2
  <2>4. x = g
    <3>1. \A h \in DOMAIN f : UnitsOf(item, h, p) \in Nat /\ f[h] \in Nat
      BY <1>1, <1>3, <2>1
    <3> QED BY <1>11, <2>2, <2>3, <3>1
  <2>5. a = Len(w) /\ d = Len(w) /\ w[d] = {g}
    BY <1>5, <2>4
  <2>6. remain <= i.amount
    BY <1>1, <1>3 DEF remain
  <2> QED BY <1>2, <1>3, <1>11, <2>3, <2>5, <2>6
<1>14. bag' = c
  BY DEF Perform, c
<1>15. Perform("swap", c, w)
  BY DEF c, w
<1>16. BackpackInv'
  BY <1>10, <1>12, <1>13, <1>15, Performed
<1> QED BY <1>12, <1>14, <1>16

\* A sequence with one more element
LEMMA Appended ==
  ASSUME NEW S, NEW v \in Seq(S), NEW x \in S, NEW m, m = Len(v)
  PROVE  /\ Append(v, x) \in Seq(S) /\ Len(Append(v, x)) = m + 1
         /\ \A i \in 1..m : Append(v, x)[i] = v[i]
         /\ Append(v, x)[m + 1] = x
OBVIOUS

\* An item is put on in place of one that goes back to where it came from.
LEMMA SwapBack ==
  ASSUME BackpackInv, Ready, NEW g \in DOMAIN bag.item, NEW k \in Packs,
         CanSwapItemToSpecifyPack(g, k),
         NEW f \in ContainItem(bag, bag.item[g].proto, bag.item[g].amount, k),
         NEW h \in ExistItems(g, k), NEW c,
           c = MoveItem(Swapped(g, k, f), h, bag.item[g].pack),
         Perform("swap", c, Append(SwapWrites(f, g), {h}))
  PROVE  /\ BackpackInv'
         /\ \A p \in Protos : Units(bag'.item, p) = Units(bag.item, p)
<1> DEFINE item == bag.item
           n == bag.high
           i == item[g]
           src == i.pack
           remain == i.amount - Sum(f)
           d == Swapped(g, k, f)
           w == Append(SwapWrites(f, g), {h})
<1>1. n \in Nat /\ Stock(item, n) /\ Fits(item) /\ DOMAIN item \subseteq 1..n
      /\ i.proto \in Protos /\ i.amount \in Nat \ {0} /\ src \in Packs /\ Tables(bag)
  BY BagFacts
<1>2. k = Worn /\ h \in Held(item, Worn) /\ SubClass[item[h].proto] = SubClass[i.proto]
  <2>1. bag.packs[Worn] = Held(item, Worn)
    BY BagFacts, GridFacts
  <2> QED BY <2>1 DEF ExistItems
<1>3. src # Worn /\ DOMAIN f = {} /\ Sum(f) = 0
  BY <1>2, SwapGuard
<1>4. h \in DOMAIN item /\ h # g /\ item[h].pack = Worn /\ src \in Limited
  BY <1>1, <1>2, <1>3, GridFacts DEF Held
<1>5. remain = i.amount /\ remain > 0
  BY <1>1, <1>3
<1>6. /\ Tables(d) /\ Stock(d.item, d.high) /\ d.high = n
      /\ DOMAIN d.item = DOMAIN item
      /\ d.item[g].amount = i.amount /\ d.item[g].proto = i.proto
      /\ Held(d.item, Worn) = Held(item, Worn) \cup {g}
      /\ \A l \in Packs \ {Worn} : Held(d.item, l) = Held(item, l) \ {g}
      /\ \A x \in DOMAIN item \ {g} : d.item[x] = item[x]
  <2>1. /\ Tables(d) /\ Stock(d.item, d.high) /\ d.high = n
        /\ remain > 0 => /\ DOMAIN d.item = DOMAIN item
                         /\ d.item[g].amount = remain /\ d.item[g].proto = i.proto
                         /\ Held(d.item, k) = Held(item, k) \cup {g}
                         /\ \A l \in Packs \ {k} : Held(d.item, l) = Held(item, l) \ {g}
        /\ \A x \in DOMAIN item \ (DOMAIN f \cup {g}) : d.item[x] = item[x]
    BY SwappedFacts
  <2> HIDE DEF d, remain
  <2>2. DOMAIN f \cup {g} = {g}
    BY <1>3
  <2> QED BY <1>2, <1>5, <2>1, <2>2
<1>7. c = MoveItem(d, h, src)
  OBVIOUS
<1> HIDE DEF d
<1>8. Moved(d, c, h, src)
  <2>1. h \in DOMAIN d.item /\ d.item[h] = item[h] /\ src # d.item[h].pack
    BY <1>3, <1>4, <1>6
  <2> QED BY <1>1, <1>6, <1>7, <2>1, MovedFacts
<1>9. /\ Tables(c) /\ Stock(c.item, c.high) /\ c.high = n
      /\ DOMAIN c.item = DOMAIN item
      /\ \A x \in DOMAIN item \ {g, h} : c.item[x] = item[x]
      /\ \A x \in DOMAIN item : c.item[x].proto = item[x].proto
           /\ c.item[x].amount = item[x].amount
      /\ Held(c.item, src) = (Held(item, src) \ {g}) \cup {h}
      /\ Held(c.item, Worn) = (Held(item, Worn) \cup {g}) \ {h}
      /\ \A l \in Packs \ {Worn, src} : Held(c.item, l) \subseteq Held(item, l)
  <2>1. Tables(c) /\ Stock(c.item, c.high) /\ c.high = n /\ DOMAIN c.item = DOMAIN item
    BY <1>6, <1>8 DEF Moved
  <2>2. \A x \in DOMAIN item \ {h} : c.item[x] = d.item[x]
    BY <1>6, <1>8 DEF Moved
  <2>3. \A x \in DOMAIN item \ {g, h} : c.item[x] = item[x]
    BY <1>6, <2>2
  <2>4. \A x \in DOMAIN item : c.item[x].proto = item[x].proto
          /\ c.item[x].amount = item[x].amount
    <3>1. c.item[h].proto = item[h].proto /\ c.item[h].amount = item[h].amount
      BY <1>4, <1>6, <1>8 DEF Moved
    <3>2. c.item[g].proto = item[g].proto /\ c.item[g].amount = item[g].amount
      BY <1>4, <1>6, <2>2
    <3> QED BY <2>3, <3>1, <3>2
  <2>5. Held(c.item, src) = Held(d.item, src) \cup {h}
        /\ \A l \in Packs \ {src} : Held(c.item, l) = Held(d.item, l) \ {h}
    BY <1>8 DEF Moved
  <2>6. Held(c.item, src) = (Held(item, src) \ {g}) \cup {h}
    BY <1>1, <1>3, <1>6, <2>5
  <2>7. Held(c.item, Worn) = (Held(item, Worn) \cup {g}) \ {h}
    BY <1>3, <1>6, <2>5, GridFacts
  <2>8. \A l \in Packs \ {Worn, src} : Held(c.item, l) \subseteq Held(item, l)
    BY <1>6, <2>5
  <2> QED BY <2>1, <2>3, <2>4, <2>6, <2>7, <2>8
<1>10. /\ Writable(w, n) /\ Pending(w) = {g, h} /\ DOMAIN w = {1, 2} /\ w[1] = {g}
            /\ w[2] = {h}
  <2>1. SwapWrites(f, g) = <<{g}>>
    <3>1. Loop(DOMAIN f) = <<>>
      BY <1>3 DEF Loop
    <3>2. <<>> \o <<{g}>> = <<{g}>>
      OBVIOUS
    <3> QED BY <3>1, <3>2 DEF SwapWrites
  <2> DEFINE u == <<{g}>>
  <2>2. w = Append(u, {h})
    BY <2>1
  <2> HIDE DEF w
  <2>3. w \in Seq(SUBSET (1..n)) /\ DOMAIN w = {1, 2} /\ w[1] = {g} /\ w[2] = {h}
    <3>1. {g} \in SUBSET (1..n) /\ {h} \in SUBSET (1..n)
      BY <1>1, <1>4
    <3>2. u \in Seq(SUBSET (1..n)) /\ Len(u) = 1 /\ u[1] = {g}
      BY <3>1
    <3> HIDE DEF u
    <3>3. w \in Seq(SUBSET (1..n)) /\ Len(w) = 2 /\ w[1] = {g} /\ w[2] = {h}
      <4> DEFINE R == SUBSET (1..n)
                 x == {h}
      <4>1. u \in Seq(R) /\ x \in R /\ w = Append(u, x) /\ Len(u) = 1
        BY <2>2, <3>1, <3>2
      <4> HIDE DEF R, x
      <4>2. w \in Seq(R) /\ Len(w) = 1 + 1 /\ (\A a \in 1..1 : w[a] = u[a]) /\ w[1 + 1] = x
        BY <4>1, Appended
      <4> QED BY <3>2, <4>2 DEF R, x
    <3> QED BY <3>3
  <2>4. Writable(w, n)
    BY <2>3 DEF Writable
  <2>5. Pending(w) = {g, h}
    BY <2>3 DEF Pending
  <2> QED BY <2>3, <2>4, <2>5
<1> HIDE DEF w
<1>11. Fits(c.item)
  <2> SUFFICES ASSUME NEW l \in Limited PROVE Cardinality(Held(c.item, l)) <= GridLimit[l]
    BY DEF Fits
  <2>1. IsFiniteSet(Held(item, l)) /\ l \in Packs /\ l # Worn
          /\ Cardinality(Held(item, l)) <= GridLimit[l]
    BY <1>1, StockFinite, GridFacts DEF Fits
  <2>2. Cardinality(Held(item, l)) \in Nat /\ GridLimit[l] \in Nat
    BY <2>1, FS_CardinalityType, GridFacts
  <2>3. CASE l = src
    <3> DEFINE S == Held(item, l) \ {g}
    <3>1. g \in Held(item, l)
      BY <2>3 DEF Held
    <3>2. IsFiniteSet(S) /\ Cardinality(S) = Cardinality(Held(item, l)) - 1
      BY <2>1, <3>1, FS_RemoveElement
    <3>3. h \notin S
      BY <1>3, <1>4, <2>3 DEF Held
    <3> HIDE DEF S
    <3>4. Cardinality(S \cup {h}) = Cardinality(S) + 1
      BY <3>2, <3>3, FS_AddElement
    <3>5. Held(c.item, l) = S \cup {h}
      BY <1>9, <2>3 DEF S
    <3> QED BY <2>1, <2>2, <3>2, <3>4, <3>5
  <2>4. CASE l # src
    <3>1. Held(c.item, l) \subseteq Held(item, l)
      BY <1>9, <2>1, <2>4
    <3>2. Cardinality(Held(c.item, l)) <= Cardinality(Held(item, l))
          /\ Cardinality(Held(c.item, l)) \in Nat
      BY <2>1, <3>1, FS_Subset, FS_CardinalityType
    <3> QED BY <2>1, <2>2, <3>2
  <2> QED BY <2>3, <2>4
<1>12. Ordered(item, c.item, w)
  <2> SUFFICES ASSUME NEW l \in Limited, NEW a \in DOMAIN w, NEW e \in DOMAIN w, a <= e,
                      NEW x \in w[a], NEW y \in w[e],
                      x \in Held(c.item, l) \ Held(item, l),
                      y \in Held(item, l) \ Held(c.item, l)
               PROVE  FALSE
    BY DEF Ordered
  <2>1. l \in Packs /\ l # Worn
    BY GridFacts
  <2>2. l = src
    BY <1>9, <2>1
  <2>3. x = h
    BY <1>9, <2>2
  <2>4. y # h
    BY <1>3, <1>4, <2>2 DEF Held
  <2>5. a = 2 /\ e = 1
    BY <1>4, <1>10, <2>3, <2>4
  <2> QED BY <2>5
<1>13. ASSUME OneWorn(item) PROVE OneWorn(c.item)
  <2>1. Held(c.item, Worn) \subseteq DOMAIN item
    BY <1>9 DEF Held
  <2>2. \A y \in Held(item, Worn) : SubClass[item[y].proto] = SubClass[i.proto] => y = h
    BY <1>2, <1>13 DEF OneWorn
  <2>3. ASSUME NEW x \in Held(c.item, Worn), NEW y \in Held(c.item, Worn),
               SubClass[c.item[x].proto] = SubClass[c.item[y].proto]
        PROVE  x = y
    <3>1. SubClass[item[x].proto] = SubClass[item[y].proto] /\ x # h /\ y # h
      BY <1>9, <2>1, <2>3
    <3>2. CASE x \in Held(item, Worn) /\ y \in Held(item, Worn)
      BY <1>13, <3>1, <3>2 DEF OneWorn
    <3>3. CASE x = g \/ y = g
      BY <1>9, <2>2, <2>3, <3>1, <3>3
    <3> QED BY <1>9, <3>2, <3>3
  <2> QED BY <2>3 DEF OneWorn
<1>14. \A x \in 1..n : x \in Pending(w) \/ Alike(item, c.item, x)
  BY <1>9, <1>10 DEF Alike
<1>15. Sound(c, w)
  <2>1. c.high = n /\ n >= bag.high
    BY <1>1, <1>9
  <2>2. Tables(c) /\ c.high >= bag.high /\ Stock(c.item, c.high) /\ Writable(w, c.high)
    BY <1>9, <1>10, <2>1
  <2>3. \A x \in 1..c.high : x \in Pending(w) \/ Alike(bag.item, c.item, x)
    BY <1>14, <2>1
  <2> HIDE DEF item
  <2>4. item = bag.item
    BY DEF item
  <2> QED BY <1>11, <1>12, <1>13, <2>2, <2>3, <2>4 DEF Sound
<1>16. \A p, x : UnitsOf(c.item, x, p) = UnitsOf(item, x, p)
  BY <1>9 DEF UnitsOf
<1>17. \A p \in Protos : Units(c.item, p) = Units(item, p)
  BY <1>1, <1>9, <1>16, UnitsSame
<1>18. RaisedFirst(item, c.item, w)
  <2> SUFFICES ASSUME NEW p \in Protos, NEW x \in Pending(w),
        UnitsOf(item, x, p) < UnitsOf(item, x, p)
               PROVE  FALSE
    BY <1>16 DEF RaisedFirst, Pending
  <2>1. UnitsOf(item, x, p) \in Nat
    BY <1>1, UnitsNat
  <2> QED BY <2>1
<1>19. Perform("swap", c, w) /\ bag' = c
  BY DEF Perform, w
<1>20. BackpackInv'
  BY <1>15, <1>17, <1>18, <1>19, Performed
<1> QED BY <1>17, <1>19, <1>20

\* HandleSwapItem keeps the invariant and the units.
LEMMA SwapStep ==
  ASSUME BackpackInv, NEW g, NEW k \in Packs, HandleSwapItem(g, k)
  PROVE  /\ BackpackInv'
         /\ \A p \in Protos : Units(bag'.item, p) = Units(bag.item, p)
<1> DEFINE i == bag.item[g]
<1>1. Ready /\ g \in DOMAIN bag.item /\ CanSwapItemToSpecifyPack(g, k)
  BY DEF HandleSwapItem
<1>2. PICK f \in ContainItem(bag, i.proto, i.amount, k) :
        LET r == [bag |-> Swapped(g, k, f), writes |-> SwapWrites(f, g)]
        IN  IF ExistItems(g, k) = {} THEN Perform("swap", r.bag, r.writes)
            ELSE \E h \in ExistItems(g, k) : LET s == PutBack(r, h, i.pack)
                                             IN  Perform("swap", s.bag, s.writes)
  BY DEF HandleSwapItem
<1>3. CASE ExistItems(g, k) = {}
  <2>1. Perform("swap", Swapped(g, k, f), SwapWrites(f, g))
    BY <1>2, <1>3
  <2> QED BY <1>1, <1>3, <2>1, SwapAway
<1>4. CASE ExistItems(g, k) # {}
  <2>1. PICK h \in ExistItems(g, k) :
          Perform("swap", MoveItem(Swapped(g, k, f), h, i.pack), Append(SwapWrites(f, g), {h}))
    BY <1>2, <1>4 DEF PutBack
  <2> QED BY <1>1, <2>1, SwapBack
<1> QED BY <1>3, <1>4

-----------------------------------------------------------------------------
(* Creating items *)

\* How many stacks the units that are left need, and what the last one holds
LEMMA CeilingFacts ==
  ASSUME NEW a \in Nat, NEW m \in Nat \ {0}, NEW q, q = Ceiling(a, m)
  PROVE  /\ q \in Nat /\ (a = 0 => q = 0)
         /\ a > 0 => q > 0 /\ a - (q - 1) * m \in 1..m
<1>1. q = (a + m - 1) \div m
  BY DEF Ceiling
<1>2. q \in Int /\ m * q <= a + m - 1 /\ a + m - 1 < m * q + m
  BY <1>1
<1>3. q >= 0
  <2> SUFFICES ASSUME q <= -1 PROVE FALSE
    BY <1>2
  <2>1. m * q <= m * (-1)
    BY <1>2
  <2>2. m * q + m <= 0
    BY <1>2, <2>1
  <2> QED BY <1>2, <2>2
<1>4. ASSUME a = 0 PROVE q = 0
  <2> SUFFICES ASSUME q >= 1 PROVE FALSE
    BY <1>2, <1>3
  <2>1. m * q >= m
    BY <1>2
  <2> QED BY <1>2, <1>4, <2>1
<1>5. ASSUME a > 0 PROVE q > 0 /\ a - (q - 1) * m \in 1..m
  <2>1. q # 0
    BY <1>2, <1>5
  <2>2. (q - 1) * m = m * q - m
    BY <1>2
  <2>3. m * q \in Int
    BY <1>2
  <2> DEFINE r == m * q
  <2>4. r \in Int /\ r <= a + m - 1 /\ a + m - 1 < r + m /\ (q - 1) * m = r - m
    BY <1>2, <2>2, <2>3
  <2> HIDE DEF r
  <2>5. a - (r - m) \in 1..m
    BY <2>4
  <2> QED BY <1>2, <1>3, <2>1, <2>4, <2>5
<1> QED BY <1>2, <1>3, <1>4, <1>5

\* No item leaves, and those that come are written.
Grown(b, c, w) ==
  /\ Tables(c) /\ c.high \in Nat /\ c.high >= b.high /\ Stock(c.item, c.high) /\ Fits(c.item)
  /\ DOMAIN b.item \subseteq DOMAIN c.item
  /\ \A g \in DOMAIN b.item : c.item[g].pack = b.item[g].pack
       /\ c.item[g].proto = b.item[g].proto
  /\ \A g \in DOMAIN c.item \ DOMAIN b.item : g > b.high /\ c.item[g].pack # Worn
  /\ Writable(w, c.high)
  /\ \A g \in Pending(w) : g <= b.high => g \in DOMAIN b.item
  /\ \A g \in 1..c.high : g \in Pending(w) \/ Alike(b.item, c.item, g)

\* CreateItemToBackpack only adds, within the limit, and writes what it adds.
LEMMA CreatedFacts ==
  ASSUME NEW b, Tables(b), Stock(b.item, b.high), Fits(b.item), NEW p \in Protos,
         NEW n \in Nat \ {0}, CreateItemToBackpackCheck(b, p, n),
         NEW y \in CreateItemToBackpack(b, p, n)
  PROVE  Grown(b, y.bag, y.writes)
<1>1. PICK f \in ContainItem(b, p, n, Normal) :
        LET remain == n - Sum(f)
            new == Ceiling(remain, MaxCount[p])
            stack(i) == [proto |-> p, bind |-> Binds(p), pack |-> Normal,
                         amount |-> IF i < new THEN MaxCount[p]
                                               ELSE remain - (new - 1) * MaxCount[p]]
            made == [g \in b.high + 1 .. b.high + new |-> stack(g - b.high)]
        IN  y = [bag |-> [item |-> With(Filled(b, f).item, made),
                          packs |-> With(b.packs, Only(Normal, b.packs[Normal] \cup DOMAIN made)),
                          high |-> b.high + new],
                 writes |-> Loop(DOMAIN f) \o [i \in 1..new |-> {b.high + i}]]
  BY DEF CreateItemToBackpack
<1> DEFINE m == MaxCount[p]
           remain == n - Sum(f)
           new == Ceiling(remain, m)
           top == b.high + new
           stack(i) == [proto |-> p, bind |-> Binds(p), pack |-> Normal,
                        amount |-> IF i < new THEN m ELSE remain - (new - 1) * m]
           made == [g \in b.high + 1 .. top |-> stack(g - b.high)]
           c == Filled(b, f)
           t == With(c.item, made)
           s == With(b.packs, Only(Normal, b.packs[Normal] \cup DOMAIN made))
           u == [i \in 1..new |-> {b.high + i}]
<1>2. y.bag = [item |-> t, packs |-> s, high |-> top] /\ y.writes = Loop(DOMAIN f) \o u
  BY <1>1
<1>3. /\ DOMAIN f \subseteq DOMAIN b.item /\ Sum(f) \in Nat /\ Sum(f) <= n
      /\ Remaining(b, p, n, Normal) = remain /\ b.high \in Nat /\ m \in Nat \ {0}
           /\ Normal \in Packs
  BY ContainFacts, GridFacts, TablesHold, MaxCountType
<1>4. remain \in Nat
  BY <1>3
<1>5. /\ Tables(c) /\ Stock(c.item, c.high) /\ Stays(b.item, c.item) /\ c.high = b.high
      /\ DOMAIN c.item = DOMAIN b.item
      /\ \A g \in DOMAIN b.item \ DOMAIN f : c.item[g] = b.item[g]
  BY <1>3, FilledFacts
<1>6. new \in Nat /\ (remain = 0 => new = 0)
        /\ (remain > 0 => new > 0 /\ remain - (new - 1) * m \in 1..m)
  <2> HIDE DEF new, remain, m
  <2>1. new = Ceiling(remain, m)
    BY DEF new
  <2> QED BY <1>3, <1>4, <2>1, CeilingFacts
<1> DEFINE last == remain - (new - 1) * m
           made_d == b.high + 1 .. top
<1>7. \A g \in made_d : stack(g - b.high) \in Items
                        /\ stack(g - b.high).amount \in 1..m
                        /\ stack(g - b.high).proto = p /\ stack(g - b.high).pack = Normal
  <2> TAKE g \in made_d
  <2>1. new > 0
    BY <1>3, <1>6
  <2>2. last \in 1..m
    BY <1>4, <1>6, <2>1
  <2> HIDE DEF last
  <2>3. stack(g - b.high) = [proto |-> p, bind |-> Binds(p), pack |-> Normal,
                             amount |-> IF g - b.high < new THEN m ELSE last]
    BY DEF last
  <2> DEFINE a == IF g - b.high < new THEN m ELSE last
  <2>4. a \in 1..m /\ a \in Nat
    BY <1>3, <2>2
  <2> HIDE DEF a, m, new
  <2>5. Binds(p) \in BOOLEAN
    BY DEF Binds
  <2>6. [proto |-> p, amount |-> a, bind |-> Binds(p), pack |-> Normal] \in Items
    BY <1>3, <2>4, <2>5, ItemFrom
  <2> QED BY <2>3, <2>4, <2>6 DEF a
<1>8. DOMAIN made = made_d /\ \A g \in made_d : made[g] \in Items /\ made[g].amount \in 1..m
                                              /\ made[g].proto = p /\ made[g].pack = Normal
  BY <1>7
<1> HIDE DEF made, new, remain, m, c, last, u
<1>9. top \in Nat /\ b.high <= top /\ DOMAIN c.item \subseteq 1..b.high
      /\ \A g \in made_d : g \in 1..top /\ g > b.high /\ g \notin DOMAIN c.item
  <2>1. top \in Nat /\ b.high <= top /\ DOMAIN c.item \subseteq 1..b.high
    BY <1>3, <1>5, <1>6 DEF Stock
  <2>2. \A g \in made_d : g \in 1..top /\ g > b.high
    BY <1>3, <2>1
  <2> QED BY <1>3, <2>1, <2>2
<1> HIDE DEF top
<1>10. /\ DOMAIN t = DOMAIN b.item \cup made_d /\ t = [g \in DOMAIN t |-> t[g]]
       /\ \A g \in made_d : t[g] = made[g]
       /\ \A g \in DOMAIN b.item : t[g] = c.item[g] /\ g \notin made_d
  <2>1. DOMAIN t = DOMAIN b.item \cup made_d
    BY <1>5, <1>8 DEF With
  <2>2. t = [g \in DOMAIN t |-> t[g]]
    BY DEF With
  <2>3. \A g \in made_d : t[g] = made[g]
    BY <1>8 DEF With
  <2>4. \A g \in DOMAIN b.item : t[g] = c.item[g] /\ g \notin made_d
    BY <1>5, <1>8, <1>9 DEF With
  <2> QED BY <2>1, <2>2, <2>3, <2>4
<1>11. s = [k \in Packs |-> IF k = Normal THEN b.packs[k] \cup made_d ELSE b.packs[k]]
  <2>1. DOMAIN b.packs = Packs
    BY DEF Tables
  <2>2. Packs \cup {Normal} = Packs
    BY <1>3
  <2> QED BY <1>8, <2>1, <2>2 DEF With, Only
<1> HIDE DEF t, s
<1>12. Held(t, Normal) = Held(b.item, Normal) \cup made_d
       /\ \A k \in Packs \ {Normal} : Held(t, k) = Held(b.item, k)
  BY <1>5, <1>8, <1>10 DEF Held, Stays
<1>13. \A k \in Packs : s[k] = Held(t, k)
  BY <1>11, <1>12, TablesHold
<1>14. s = [k \in Packs |-> Held(t, k)]
  BY <1>11, <1>13
<1>15. Tables(y.bag) /\ y.bag.item = t /\ y.bag.high = top
  BY <1>2, <1>9, <1>14, TablesFrom
<1>16. Stock(t, top)
  <2>1. \A g \in DOMAIN t : t[g] \in Items /\ t[g].amount \in 1..MaxCount[t[g].proto]
    <3> TAKE g \in DOMAIN t
    <3>1. CASE g \in made_d
      BY <1>8, <1>10, <3>1 DEF m
    <3>2. CASE g \in DOMAIN b.item
      BY <1>5, <1>10, <3>2 DEF Stock
    <3> QED BY <1>10, <3>1, <3>2
  <2>2. DOMAIN t \subseteq 1..top
    <3>1. 1..b.high \subseteq 1..top
      BY <1>3, <1>9
    <3> QED BY <1>5, <1>9, <1>10, <3>1
  <2> QED BY <1>10, <2>1, <2>2 DEF Stock
<1>17. Fits(t)
  <2> SUFFICES ASSUME NEW k \in Limited PROVE Cardinality(Held(t, k)) <= GridLimit[k]
    BY DEF Fits
  <2>1. IsFiniteSet(Held(b.item, k)) /\ k \in Packs
          /\ Cardinality(Held(b.item, k)) <= GridLimit[k]
    BY <1>3, StockFinite, GridFacts DEF Fits
  <2>2. CASE k # Normal
    <3>1. Held(t, k) = Held(b.item, k)
      BY <1>12, <2>1, <2>2
    <3> QED BY <2>1, <3>1
  <2>3. CASE k = Normal
    <3>1. IsFiniteSet(made_d) /\ Cardinality(made_d) = new
      <4>1. b.high + 1 \in Int /\ top \in Int /\ top = b.high + new
        BY <1>3, <1>9 DEF top
      <4>2. IsFiniteSet(made_d)
            /\ Cardinality(made_d) = IF b.high + 1 > top THEN 0 ELSE top - (b.high + 1) + 1
        BY <4>1, FS_Interval
      <4> QED BY <1>3, <1>6, <4>1, <4>2
    <3>2. Held(b.item, k) \cap made_d = {}
      BY <1>10 DEF Held
    <3>3. Cardinality(Held(b.item, k) \cup made_d) = Cardinality(Held(b.item, k)) + new
      <4>1. Cardinality(Held(b.item, k) \cup made_d)
            = Cardinality(Held(b.item, k)) + Cardinality(made_d) - Cardinality(Held(b.item, k) \cap made_d)
        BY <2>1, <3>1, FS_Union
      <4>2. Cardinality(Held(b.item, k) \cap made_d) = 0
        BY <3>2, FS_EmptySet
      <4>3. Cardinality(Held(b.item, k)) \in Nat
        BY <2>1, FS_CardinalityType
      <4> QED BY <1>6, <3>1, <4>1, <4>2, <4>3
    <3>4. Cardinality(Held(b.item, k)) \in Nat /\ GridLimit[k] \in Nat
      BY <2>1, FS_CardinalityType, GridFacts
    <3>5. CASE remain = 0
      <4>1. new = 0
        BY <1>6, <3>5
      <4>2. Cardinality(Held(t, k)) = Cardinality(Held(b.item, k)) + new
        BY <1>12, <2>3, <3>3
      <4>3. Cardinality(Held(t, k)) = Cardinality(Held(b.item, k))
        BY <3>4, <4>1, <4>2
      <4> QED BY <2>1, <4>3
    <3>6. CASE remain > 0
      <4>1. Cardinality(b.packs[Normal]) + new <= GridLimit[Normal]
        BY <1>3, <3>6 DEF CreateItemToBackpackCheck, new, m
      <4>2. b.packs[Normal] = Held(b.item, Normal)
        BY <1>3, TablesHold
      <4> QED BY <1>12, <2>3, <3>3, <4>1, <4>2
    <3> QED BY <1>4, <3>5, <3>6
  <2> QED BY <2>2, <2>3
<1>18. /\ Writable(y.writes, top) /\ Pending(y.writes) = DOMAIN f \cup made_d
  <2> DEFINE v == Loop(DOMAIN f)
  <2>1. DOMAIN f \subseteq 1..top
    <3>1. 1..b.high \subseteq 1..top
      BY <1>3, <1>9
    <3> QED BY <1>3, <1>5, <1>9, <3>1
  <2>2. Writable(v, top) /\ Pending(v) = DOMAIN f
    BY <1>9, <2>1, LoopFacts
  <2>3. u \in Seq(SUBSET (1..top)) /\ DOMAIN u = 1..new
          /\ \A i \in 1..new : u[i] = {b.high + i}
    <3>1. \A i \in 1..new : {b.high + i} \in SUBSET (1..top)
      BY <1>3, <1>6 DEF top
    <3> QED BY <1>6, <3>1 DEF u
  <2>4. Writable(u, top)
    BY <2>3 DEF Writable
  <2>5. Pending(u) = made_d
    <3>1. Pending(u) \subseteq made_d
      <4>1. \A i \in 1..new : b.high + i \in made_d
        BY <1>3, <1>6 DEF top
      <4> QED BY <2>3, <4>1 DEF Pending
    <3>2. made_d \subseteq Pending(u)
      <4> SUFFICES ASSUME NEW g \in made_d PROVE g \in Pending(u)
        OBVIOUS
      <4>1. g - b.high \in 1..new /\ b.high + (g - b.high) = g
        BY <1>3, <1>6 DEF top
      <4>2. g \in u[g - b.high]
        BY <2>3, <4>1
      <4> QED BY <2>3, <4>1, <4>2 DEF Pending
    <3> QED BY <3>1, <3>2
  <2> HIDE DEF v
  <2>6. Writable(v \o u, top) /\ Pending(v \o u) = Pending(v) \cup Pending(u)
    BY <1>9, <2>2, <2>4, AfterFacts
  <2> QED BY <1>2, <2>2, <2>5, <2>6 DEF v
<1>19. \A g \in 1..top : g \in Pending(y.writes) \/ Alike(b.item, t, g)
  <2> SUFFICES ASSUME NEW g \in 1..top, g \notin DOMAIN f,
        g \notin made_d PROVE Alike(b.item, t, g)
    BY <1>18
  <2> QED BY <1>5, <1>10 DEF Alike
<1>20. \A g \in Pending(y.writes) : g <= b.high => g \in DOMAIN b.item
  <2>1. \A g \in made_d : ~(g <= b.high)
    BY <1>3, <1>9
  <2> QED BY <1>3, <1>18, <2>1
<1>21. /\ DOMAIN b.item \subseteq DOMAIN t
       /\ \A g \in DOMAIN b.item : t[g].pack = b.item[g].pack /\ t[g].proto = b.item[g].proto
       /\ \A g \in DOMAIN t \ DOMAIN b.item : g > b.high /\ t[g].pack # Worn
  <2>1. \A g \in DOMAIN b.item : t[g].pack = b.item[g].pack /\ t[g].proto = b.item[g].proto
    BY <1>5, <1>10 DEF Stays
  <2>2. \A g \in made_d : g > b.high /\ t[g].pack # Worn
    BY <1>8, <1>9, <1>10, GridFacts
  <2> QED BY <1>10, <2>1, <2>2
<1> HIDE DEF made_d
<1> QED BY <1>9, <1>15, <1>16, <1>17, <1>18, <1>19, <1>20, <1>21 DEF Grown


\* No item has moved to another pack.
Keeps(b) == \A g \in DOMAIN bag.item \cap DOMAIN b.item :
  b.item[g].pack = bag.item[g].pack /\ b.item[g].proto = bag.item[g].proto

\* Handing out more guids changes nothing for the writes there are.
LEMMA WritableGrows ==
  ASSUME NEW n \in Nat, NEW m \in Nat, n <= m, NEW w, Writable(w, n)
  PROVE  Writable(w, m)
<1>1. 1..n \subseteq 1..m
  OBVIOUS
<1>2. SUBSET (1..n) \subseteq SUBSET (1..m)
  BY <1>1
<1>3. w \in Seq(SUBSET (1..m))
  <2> DEFINE A == SUBSET (1..n)
             B == SUBSET (1..m)
  <2>1. A \subseteq B /\ w \in Seq(A)
    BY <1>2 DEF Writable
  <2> HIDE DEF A, B
  <2>2. w \in Seq(B)
    BY <2>1
  <2> QED BY <2>2 DEF B
<1> QED BY <1>3 DEF Writable

\* After sound items and writes, items may be added and written.
LEMMA SoundGrown ==
  ASSUME BackpackInv, NEW b, NEW v, Sound(b, v), Keeps(b), NEW c, NEW w, Grown(b, c, w)
  PROVE  Sound(c, v \o w) /\ Keeps(c)
<1>1. bag.high \in Nat /\ b.high \in Nat /\ c.high \in Nat /\ bag.high <= b.high
        /\ b.high <= c.high
  BY BagFacts, TablesHold DEF Sound, Grown
<1>2. DOMAIN bag.item \subseteq 1..bag.high /\ DOMAIN b.item \subseteq 1..b.high
  BY BagFacts DEF Sound, Stock
<1>3. \A g \in DOMAIN bag.item : g \in Nat /\ g <= b.high
  BY <1>1, <1>2
<1>4. \A g \in DOMAIN b.item : g \in DOMAIN c.item /\ c.item[g].pack = b.item[g].pack
                               /\ c.item[g].proto = b.item[g].proto
  BY DEF Grown
<1>5. \A g \in DOMAIN c.item \ DOMAIN b.item : ~(g <= b.high) /\ c.item[g].pack # Worn
  <2>1. DOMAIN c.item \subseteq 1..c.high
    BY DEF Grown, Stock
  <2>2. \A g \in DOMAIN c.item : g \in Int
    BY <1>1, <2>1
  <2> QED BY <1>1, <2>2 DEF Grown
<1>6. Keeps(c)
  <2> SUFFICES ASSUME NEW g \in DOMAIN bag.item, g \in DOMAIN c.item
               PROVE  c.item[g].pack = bag.item[g].pack /\ c.item[g].proto = bag.item[g].proto
    BY DEF Keeps
  <2>1. g \in DOMAIN b.item
    BY <1>3, <1>5
  <2> QED BY <1>4, <2>1 DEF Keeps
<1>7. Writable(v, c.high) /\ Writable(w, c.high)
  BY <1>1, WritableGrows DEF Sound, Grown
<1> DEFINE u == v \o w
           m == Len(v)
           n == Len(w)
           top == c.high
<1>8. top \in Nat /\ Writable(v, top) /\ Writable(w, top)
  BY <1>1, <1>7
<1> HIDE DEF top
<1>9. /\ Writable(u, top) /\ Pending(u) = Pending(v) \cup Pending(w) /\ Len(u) = m + n
      /\ \A i \in 1..m : u[i] = v[i]
      /\ \A i \in m + 1 .. m + n : u[i] = w[i - m]
  BY <1>8, AfterFacts
<1>10. /\ Writable(u, c.high) /\ Pending(u) = Pending(v) \cup Pending(w) /\ Len(u) = m + n
       /\ \A i \in 1..m : u[i] = v[i]
       /\ \A i \in m + 1 .. m + n : u[i] = w[i - m]
  BY <1>9 DEF top
<1>11. m \in Nat /\ n \in Nat /\ DOMAIN v = 1..m /\ DOMAIN w = 1..n /\ DOMAIN u = 1..m + n
  <2>1. v \in Seq(SUBSET (1..c.high)) /\ w \in Seq(SUBSET (1..c.high))
          /\ u \in Seq(SUBSET (1..c.high))
    BY <1>7, <1>10 DEF Writable
  <2> HIDE DEF u
  <2> QED BY <1>10, <2>1
<1> HIDE DEF u, m, n
<1>12. ASSUME NEW g \in 1..c.high, g \notin Pending(u) PROVE Alike(bag.item, c.item, g)
  <2>1. Alike(b.item, c.item, g) /\ g \notin Pending(v)
    BY <1>10, <1>12 DEF Grown
  <2>2. CASE g <= b.high
    <3>1. g \in 1..b.high
      BY <1>1, <2>2
    <3>2. Alike(bag.item, b.item, g)
      BY <2>1, <3>1 DEF Sound
    <3> QED BY <2>1, <3>2 DEF Alike
  <2>3. CASE ~(g <= b.high)
    <3>1. g \notin DOMAIN bag.item /\ g \notin DOMAIN b.item
      BY <1>1, <1>2, <1>3, <2>3
    <3> QED BY <2>1, <3>1 DEF Alike
  <2> QED BY <2>2, <2>3
<1>13. Ordered(bag.item, c.item, u)
  <2> SUFFICES ASSUME NEW k \in Limited, NEW i \in DOMAIN u, NEW j \in DOMAIN u, i <= j,
                      NEW g \in u[i], NEW h \in u[j], g \in Held(c.item, k),
                        g \notin Held(bag.item, k),
                      h \in Held(bag.item, k), h \notin Held(c.item, k)
               PROVE  FALSE
    BY DEF Ordered
  <2>1. h \in DOMAIN bag.item /\ g \in DOMAIN c.item /\ c.item[g].pack = k
    BY DEF Held
  <2>2. h \notin DOMAIN c.item /\ h \notin DOMAIN b.item
    BY <1>4, <1>6, <2>1 DEF Held, Keeps
  <2>3. j \in 1..m
    <3> SUFFICES ASSUME j \in m + 1 .. m + n PROVE FALSE
      BY <1>11
    <3>1. j - m \in DOMAIN w /\ u[j] = w[j - m]
      BY <1>10, <1>11
    <3>2. h \in Pending(w)
      BY <3>1 DEF Pending
    <3>3. h \in DOMAIN b.item
      BY <1>3, <2>1, <3>2 DEF Grown
    <3> QED BY <2>2, <3>3
  <2>4. i \in 1..m /\ u[i] = v[i] /\ u[j] = v[j]
    BY <1>10, <1>11, <2>3
  <2>5. g \notin DOMAIN bag.item
    BY <1>6, <2>1 DEF Held, Keeps
  <2>6. g \in 1..b.high
    <3>1. v \in Seq(SUBSET (1..b.high))
      BY DEF Sound, Writable
    <3>2. v[i] \in SUBSET (1..b.high)
      BY <1>11, <2>4, <3>1
    <3> QED BY <2>4, <3>2
  <2>7. g \in DOMAIN b.item
    BY <1>1, <1>5, <2>1, <2>6
  <2>8. g \in Held(b.item, k) \ Held(bag.item, k) /\ h \in Held(bag.item, k) \ Held(b.item, k)
    BY <1>4, <2>1, <2>2, <2>5, <2>7 DEF Held
  <2>9. g \in v[i] /\ h \in v[j] /\ i \in DOMAIN v /\ j \in DOMAIN v
    BY <1>11, <2>3, <2>4
  <2> QED BY <2>8, <2>9 DEF Ordered, Sound
<1>14. ASSUME OneWorn(bag.item) PROVE OneWorn(c.item)
  <2>1. OneWorn(b.item)
    BY <1>14 DEF Sound
  <2>2. \A g \in Held(c.item, Worn) : g \in Held(b.item, Worn)
          /\ c.item[g].proto = b.item[g].proto
    BY <1>4, <1>5 DEF Held
  <2> QED BY <2>1, <2>2 DEF OneWorn
<1>15. Tables(c) /\ Stock(c.item, c.high) /\ Fits(c.item)
  BY DEF Grown
<1>16. c.high >= bag.high
  BY <1>1
<1>17. Sound(c, u)
  BY <1>10, <1>12, <1>13, <1>14, <1>15, <1>16 DEF Sound
<1> QED BY <1>6, <1>17 DEF u

\* The same, for CreateItemToBackpack
LEMMA SoundCreated ==
  ASSUME BackpackInv, NEW b, NEW v, Sound(b, v), Keeps(b), NEW p \in Protos,
    NEW n \in Nat \ {0},
         CreateItemToBackpackCheck(b, p, n), NEW y \in CreateItemToBackpack(b, p, n)
  PROVE  Sound(y.bag, v \o y.writes) /\ Keeps(y.bag)
<1>1. Tables(b) /\ Stock(b.item, b.high) /\ Fits(b.item)
  BY DEF Sound
<1>2. Grown(b, y.bag, y.writes)
  BY <1>1, CreatedFacts
<1> QED BY <1>2, SoundGrown

\* The bag is sound before anything is done to it.
LEMMA SoundNow ==
  ASSUME BackpackInv
  PROVE  Sound(bag, <<>>) /\ Keeps(bag)
<1>1. Stays(bag.item, bag.item) /\ Keeps(bag)
  BY DEF Stays, Keeps
<1>2. \A g \in DOMAIN bag.item \ {} : g \in DOMAIN bag.item /\ bag.item[g] = bag.item[g]
  OBVIOUS
<1>3. Loop({}) = <<>>
  BY DEF Loop
<1>4. Sound(bag, Loop({}))
  <2> DEFINE S == {}
  <2>1. S \subseteq 1..bag.high
    OBVIOUS
  <2> QED BY <1>1, <1>2, <2>1, BagFacts, SoundLoop
<1> QED BY <1>1, <1>3, <1>4

\* __gmGetItem keeps the invariant.
LEMMA GetStep ==
  ASSUME BackpackInv, NEW p \in Protos, NEW n \in Amounts, GetItem(p, n)
  PROVE  BackpackInv'
<1>1. Ready /\ CreateItemToBackpackCheck(bag, p, n)
  BY DEF GetItem
<1>2. PICK r \in CreateItemToBackpack(bag, p, n) : Perform("get", r.bag, r.writes)
  BY DEF GetItem
<1>3. n \in Nat \ {0}
  BY ConstantsAssumption DEF Amounts
<1>4. Sound(r.bag, <<>> \o r.writes)
  BY <1>1, <1>3, SoundNow, SoundCreated
<1>5. Grown(bag, r.bag, r.writes)
  BY <1>1, <1>3, BagFacts, CreatedFacts
<1>6. <<>> \o r.writes = r.writes
  <2>1. r.writes \in Seq(SUBSET (1..r.bag.high))
    BY <1>5 DEF Grown, Writable
  <2> QED BY <2>1
<1> QED BY <1>1, <1>2, <1>4, <1>6, Performed

\* One entry of a bonus
LEMMA GrantedSound ==
  ASSUME BackpackInv, NEW x, Sound(x.bag, x.writes), Keeps(x.bag), NEW e, e[1] \in Protos,
         e[2] \in Nat \ {0}, NEW y \in Granted(x, e)
  PROVE  Sound(y.bag, y.writes) /\ Keeps(y.bag)
<1>1. CASE CreateItemToBackpackCheck(x.bag, e[1], e[2])
  <2>1. PICK z \in CreateItemToBackpack(x.bag, e[1], e[2]) :
          y = [bag |-> z.bag, writes |-> x.writes \o z.writes]
    BY <1>1 DEF Granted
  <2>2. y.bag = z.bag /\ y.writes = x.writes \o z.writes
    BY <2>1
  <2> QED BY <1>1, <2>2, SoundCreated
<1>2. CASE ~CreateItemToBackpackCheck(x.bag, e[1], e[2])
  BY <1>2 DEF Granted
<1> QED BY <1>1, <1>2

AllGranted(S, e) == UNION {Granted(x, e) : x \in S}

IsGranted(h, r, list) ==
  h = [i \in 0..Len(list) |-> IF i = 0 THEN {r} ELSE AllGranted(h[i - 1], list[i])]

\* The recursion of Bonus, for the lists there are
LEMMA BonusFacts ==
  ASSUME NEW r, NEW list \in Grants
  PROVE  \E h : /\ IsGranted(h, r, list)
                /\ Bonus(r, list) \in {h[Len(list)], {r}}
<1> DEFINE d == [i \in 0..Len(list) |->
                  IF i = 0 THEN {r} ELSE
                  IF i = 1 THEN AllGranted({r}, list[1])
                           ELSE AllGranted(AllGranted({r}, list[1]), list[2])]
           h == CHOOSE h : h = [i \in 0..Len(list) |->
                  IF i = 0 THEN {r} ELSE UNION {Granted(x, list[i]) : x \in h[i - 1]}]
<1>1. Len(list) \in {0, 2}
  BY DEF Grants
<1>2. IsGranted(d, r, list)
  <2>1. \A i \in 0..Len(list) : d[i] = IF i = 0 THEN {r} ELSE AllGranted(d[i - 1], list[i])
    <3> TAKE i \in 0..Len(list)
    <3>1. CASE i = 0
      BY <1>1, <3>1
    <3>2. CASE i = 1
      <4>1. d[0] = {r} /\ d[1] = AllGranted({r}, list[1])
        BY <1>1, <3>2
      <4> HIDE DEF d
      <4>2. d[i - 1] = {r} /\ d[i] = AllGranted({r}, list[i]) /\ i # 0
        BY <3>2, <4>1
      <4> QED BY <4>2
    <3>3. CASE i = 2
      <4>1. d[1] = AllGranted({r}, list[1])
            /\ d[2] = AllGranted(AllGranted({r}, list[1]), list[2])
        BY <1>1, <3>3
      <4> HIDE DEF d
      <4> QED BY <3>3, <4>1
    <3> QED BY <1>1, <3>1, <3>2, <3>3
  <2>2. d = [i \in 0..Len(list) |-> d[i]]
    OBVIOUS
  <2> HIDE DEF d
  <2> QED BY <2>1, <2>2 DEF IsGranted
<1> HIDE DEF d
<1>3. IsGranted(h, r, list)
  BY <1>2 DEF IsGranted, AllGranted
<1>4. Bonus(r, list) = IF CanCreateItemListToBackpack(r.bag, list) THEN h[Len(list)] ELSE {r}
  BY DEF Bonus
<1> QED BY <1>3, <1>4

\* A bonus leaves sound items and writes, whichever of its entries fit.
LEMMA BonusSound ==
  ASSUME BackpackInv, NEW r, Sound(r.bag, r.writes), Keeps(r.bag), NEW list \in Grants,
         NEW y \in Bonus(r, list)
  PROVE  Sound(y.bag, y.writes) /\ Keeps(y.bag)
<1> DEFINE Fine(S) == \A x \in S : Sound(x.bag, x.writes) /\ Keeps(x.bag)
<1>1. PICK h : IsGranted(h, r, list) /\ Bonus(r, list) \in {h[Len(list)], {r}}
  BY BonusFacts
<1>2. Len(list) \in {0, 2} /\ \A i \in 1..Len(list) : list[i][1] \in Protos
        /\ list[i][2] \in Nat \ {0}
  <2>1. CASE list = <<>>
    BY <2>1
  <2>2. CASE list # <<>>
    <3>1. PICK p \in Protos, n \in Amounts : list = <<<<p, 1>>, <<p, n>>>>
      BY <2>2 DEF Grants
    <3>2. n \in Nat \ {0}
      BY ConstantsAssumption DEF Amounts
    <3> QED BY <3>1, <3>2
  <2> QED BY <2>1, <2>2
<1>3. Fine(h[0]) /\ Fine({r})
  <2>1. h[0] = {r}
    BY <1>1, <1>2 DEF IsGranted
  <2> QED BY <2>1
<1>4. ASSUME NEW i \in 1..Len(list), Fine(h[i - 1]) PROVE Fine(h[i])
  <2>1. i \in 0..Len(list) /\ i # 0
    BY <1>2
  <2>2. h[i] = AllGranted(h[i - 1], list[i])
    BY <1>1, <2>1 DEF IsGranted
  <2>3. SUFFICES ASSUME NEW z \in h[i] PROVE Sound(z.bag, z.writes) /\ Keeps(z.bag)
    OBVIOUS
  <2>4. PICK x \in h[i - 1] : z \in Granted(x, list[i])
    BY <2>2 DEF AllGranted
  <2>5. Sound(x.bag, x.writes) /\ Keeps(x.bag)
    BY <1>4
  <2>6. list[i][1] \in Protos /\ list[i][2] \in Nat \ {0}
    BY <1>2
  <2> QED BY <2>4, <2>5, <2>6, GrantedSound
<1> HIDE DEF Fine
<1>5. Fine(h[Len(list)])
  <2>1. CASE Len(list) = 0
    BY <1>3, <2>1
  <2>2. CASE Len(list) = 2
    <3>1. 1 \in 1..Len(list) /\ 2 \in 1..Len(list) /\ 1 - 1 = 0 /\ 2 - 1 = 1
      BY <2>2
    <3>2. Fine(h[1])
      BY <1>3, <1>4, <3>1
    <3> QED BY <1>4, <2>2, <3>1, <3>2
  <2> QED BY <1>2, <2>1, <2>2
<1>6. Fine(Bonus(r, list))
  BY <1>1, <1>3, <1>5
<1> QED BY <1>6 DEF Fine

\* HandleDoMountAdvance keeps the invariant.
LEMMA MountStep ==
  ASSUME BackpackInv, NEW p \in Protos, NEW n \in Amounts, HandleDoMountAdvance(p, n)
  PROVE  BackpackInv'
<1>1. PICK f \in RemoveAmount(bag, p, n, TRUE), list \in Grants :
        \E r \in Bonus([bag |-> Taken(bag, f), writes |-> Loop(DOMAIN f)], list) :
          Perform("mount", r.bag, r.writes)
  BY DEF HandleDoMountAdvance
<1> DEFINE s == [bag |-> Taken(bag, f), writes |-> Loop(DOMAIN f)]
<1>2. PICK r \in Bonus(s, list) : Perform("mount", r.bag, r.writes)
  BY <1>1
<1>3. DOMAIN f \subseteq DOMAIN bag.item
      /\ \A g \in DOMAIN f : f[g] \in Nat \ {0} /\ f[g] <= bag.item[g].amount
  <2> DEFINE S == {g \in bag.packs[Normal] : bag.item[g].proto = p}
  <2>1. PICK D \in SUBSET S : f \in [D -> 1..n] /\ \A g \in DOMAIN f : f[g] <= Amount(bag, g)
    BY DEF RemoveAmount
  <2>2. S \subseteq DOMAIN bag.item
    BY BagFacts, GridFacts DEF Held
  <2>3. n \in Nat
    BY ConstantsAssumption DEF Amounts
  <2> HIDE DEF S
  <2> QED BY <2>1, <2>2, <2>3 DEF Amount
<1>4. Sound(Taken(bag, f), Loop(DOMAIN f)) /\ Stays(bag.item, Taken(bag, f).item)
  BY <1>3, TakenFacts
<1>5. s.bag = Taken(bag, f) /\ s.writes = Loop(DOMAIN f)
  OBVIOUS
<1> HIDE DEF s
<1>6. Sound(s.bag, s.writes) /\ Keeps(s.bag)
  BY <1>4, <1>5 DEF Stays, Keeps
<1>7. Sound(r.bag, r.writes)
  BY <1>2, <1>6, BonusSound
<1>8. Ready
  BY DEF HandleDoMountAdvance
<1> QED BY <1>2, <1>7, <1>8, Performed

-----------------------------------------------------------------------------
(* Tidying a pack up *)

\* Between the turns no stack is over its size, and the units stay the same.
Balanced(m, order, M, full, total) ==
  /\ DOMAIN m.amount = M /\ \A g \in M : m.amount[g] \in 0..full
  /\ Len(order) = 0 \/ m.front \in 0..Len(order)
  /\ Sum(Part(m.amount, M)) = total

\* Units that go from one stack to another
LEMMA Shifted ==
  ASSUME NEW M, IsFiniteSet(M), NEW f, \A x \in M : f[x] \in Int, NEW x \in M, NEW y \in M,
    x # y,
         NEW h, \A z \in M : h[z] \in Int, \A z \in M \ {x, y} : h[z] = f[z],
         h[x] + h[y] = f[x] + f[y]
  PROVE  Sum(Part(h, M)) = Sum(Part(f, M))
<1> DEFINE R == (M \ {x}) \ {y}
           rest(a) == Sum(Part(a, R))
<1>1. IsFiniteSet(M \ {x}) /\ IsFiniteSet(R)
  BY FS_Subset
<1>2. y \in M \ {x} /\ \A z \in M \ {x} : f[z] \in Int /\ h[z] \in Int
  OBVIOUS
<1>3. Sum(Part(f, M)) = f[x] + Sum(Part(f, M \ {x}))
        /\ Sum(Part(h, M)) = h[x] + Sum(Part(h, M \ {x}))
  BY SumSplit
<1>4. Sum(Part(f, M \ {x})) = f[y] + rest(f) /\ Sum(Part(h, M \ {x})) = h[y] + rest(h)
  BY <1>1, <1>2, SumSplit
<1>5. rest(f) = rest(h)
  <2>1. \A z \in R : f[z] = h[z]
    OBVIOUS
  <2> HIDE DEF R
  <2>2. Part(f, R) = Part(h, R)
    BY <2>1, PartSame
  <2> QED BY <2>2
<1>6. rest(f) \in Int
  <2>1. \A z \in R : f[z] \in Int
    OBVIOUS
  <2> HIDE DEF R
  <2> QED BY <1>1, <2>1, SumInt
<1> HIDE DEF rest
<1>7. f[x] \in Int /\ f[y] \in Int /\ h[x] \in Int /\ h[y] \in Int
  OBVIOUS
<1> QED BY <1>3, <1>4, <1>5, <1>6, <1>7

\* The smaller of two numbers
LEMMA MinOfTwo ==
  ASSUME NEW a \in Int, NEW b \in Int
  PROVE  Min({a, b}) = IF a <= b THEN a ELSE b
BY DEF Min

\* The next front stack is one of the order, or there is none.
LEMMA FrontIndex ==
  ASSUME NEW order, Len(order) \in Nat, NEW full, NEW a
  PROVE  NextFront(full, order, a) \in 0..Len(order)
<1> DEFINE I == {i \in 1..Len(order) : a[order[i]] \in 1 .. full - 1}
<1>1. NextFront(full, order, a) = IF I # {} THEN Min(I) ELSE 0
  BY DEF NextFront, SelectInSeq
<1>2. I \subseteq Nat /\ I \subseteq 1..Len(order)
  OBVIOUS
<1> HIDE DEF I
<1>3. ASSUME I # {} PROVE Min(I) \in I
  <2>1. \E n \in I : \A m \in I : n <= m
    BY <1>2, <1>3, Least
  <2> QED BY <2>1 DEF Min
<1>4. CASE I = {}
  BY <1>1, <1>4
<1>5. CASE I # {}
  <2>1. NextFront(full, order, a) \in I
    BY <1>1, <1>3, <1>5
  <2> DEFINE n == NextFront(full, order, a)
  <2>2. n \in 1..Len(order)
    BY <1>2, <2>1
  <2> HIDE DEF n
  <2>3. n \in 0..Len(order)
    BY <2>2
  <2> QED BY <2>3 DEF n
<1> QED BY <1>4, <1>5

\* A turn moves units from one stack to another.
LEMMA TurnBalanced ==
  ASSUME NEW M, IsFiniteSet(M), NEW full \in Nat, NEW total, NEW order,
    Len(order) \in Nat \ {0},
         \A i \in 1..Len(order) : order[i] \in M, NEW m, Balanced(m, order, M, full, total),
           NEW g \in M
  PROVE  Balanced(MergeTurn(full, order, m, g), order, M, full, total)
<1> DEFINE front == order[m.front]
           af == m.amount[front]
           ag == m.amount[g]
           sum == MergedAmount(full, af, ag)
           a == [m.amount EXCEPT ![front] = sum, ![g] = @ + af - sum]
           r == [front |-> IF sum = full THEN NextFront(full, order, a) ELSE m.front, amount |-> a]
           stay == m.front = 0 \/ g = front \/ ag = full
<1>1. MergeTurn(full, order, m, g) = IF stay THEN m ELSE r
  BY DEF MergeTurn
<1>2. CASE stay
  BY <1>1, <1>2
<1>3. CASE ~stay
  <2>1. front \in M /\ front # g
    BY <1>3 DEF Balanced
  <2>2. af \in 0..full /\ ag \in 0..full /\ DOMAIN m.amount = M
    BY <2>1 DEF Balanced
  <2>3. sum = IF full <= af + ag THEN full ELSE af + ag
    BY <2>2, MinOfTwo DEF MergedAmount
  <2>4. /\ DOMAIN a = M /\ a[front] = sum /\ a[g] = ag + af - sum
        /\ \A h \in M \ {front, g} : a[h] = m.amount[h]
    BY <2>1, <2>2
  <2>5. NextFront(full, order, a) \in 0..Len(order)
    BY FrontIndex
  <2> DEFINE next == NextFront(full, order, a)
  <2>6. m.front \in 0..Len(order)
    BY DEF Balanced
  <2> HIDE DEF a, front, sum, af, ag, next
  <2>7. sum \in 0..full /\ ag + af - sum \in 0..full /\ sum + (ag + af - sum) = af + ag
    BY <2>2, <2>3
  <2>8. \A h \in M : a[h] \in 0..full
    BY <2>4, <2>7 DEF Balanced
  <2>9. Sum(Part(a, M)) = total
    <3>1. \A h \in M : m.amount[h] \in Int /\ a[h] \in Int
      BY <2>8 DEF Balanced
    <3>2. a[front] + a[g] = m.amount[front] + m.amount[g]
      BY <2>4, <2>7 DEF af, ag
    <3>3. Sum(Part(a, M)) = Sum(Part(m.amount, M))
      <4> DEFINE f == m.amount
      <4>1. \A h \in M : a[h] \in Int
        BY <3>1
      <4>2. \A h \in M : f[h] \in Int
        BY <3>1
      <4>3. a[front] + a[g] = f[front] + f[g]
        BY <3>2
      <4>4. \A h \in M \ {front, g} : a[h] = f[h]
        BY <2>4
      <4> HIDE DEF f
      <4>5. Sum(Part(a, M)) = Sum(Part(f, M))
        BY <2>1, <4>1, <4>2, <4>3, <4>4, Shifted
      <4> QED BY <4>5 DEF f
    <3> QED BY <3>3 DEF Balanced
  <2>10. r.amount = a /\ r.front \in {next, m.front}
    BY DEF next
  <2> HIDE DEF r
  <2>11. Balanced(r, order, M, full, total)
    BY <2>4, <2>5, <2>6, <2>8, <2>9, <2>10 DEF Balanced, next
  <2> QED BY <1>1, <1>3, <2>11
<1> QED BY <1>2, <1>3

MergeStart(order) == [front |-> 1, amount |-> [g \in ToSet(order) |-> Amount(bag, g)]]
MergeValue(h, full, order, i) ==
  IF i = 0 THEN MergeStart(order) ELSE MergeTurn(full, order, h[i - 1], order[i])
IsMerge(h, full, order) == h = [i \in 0..Len(order) |-> MergeValue(h, full, order, i)]

\* The recursion of MergedStacks has a solution.
LEMMA MergeExists ==
  ASSUME NEW full, NEW order, Len(order) \in Nat
  PROVE  \E h : IsMerge(h, full, order)
<1> DEFINE Good(n) == \E h : \A i \in 0..n : h[i] = MergeValue(h, full, order, i)
           T == {n \in Nat : ~Good(n)}
<1>1. Good(0)
  <2> DEFINE h == [i \in {0} |-> MergeStart(order)]
  <2>1. \A i \in 0..0 : h[i] = MergeValue(h, full, order, i)
    BY DEF MergeValue
  <2> HIDE DEF h
  <2> QED BY <2>1
<1>2. ASSUME NEW n \in Nat, Good(n) PROVE Good(n + 1)
  <2>1. PICK g : \A i \in 0..n : g[i] = MergeValue(g, full, order, i)
    BY <1>2
  <2> DEFINE h == [i \in 0..n + 1 |-> MergeValue(g, full, order, i)]
  <2>2. \A i \in 0..n : h[i] = g[i]
    BY <2>1
  <2>3. \A i \in 0..n + 1 : h[i] = MergeValue(g, full, order, i)
    OBVIOUS
  <2> HIDE DEF h
  <2>4. ASSUME NEW i \in 0..n + 1 PROVE h[i] = MergeValue(h, full, order, i)
    <3>1. CASE i = 0
      BY <2>3, <3>1 DEF MergeValue
    <3>2. CASE i # 0
      <4>1. h[i - 1] = g[i - 1]
        BY <2>2, <3>2
      <4> QED BY <2>3, <3>2, <4>1 DEF MergeValue
    <3> QED BY <3>1, <3>2
  <2> QED BY <2>4
<1> HIDE DEF Good
<1>3. T = {}
  <2> SUFFICES ASSUME T # {} PROVE FALSE
    OBVIOUS
  <2>1. PICK n \in T : \A m \in T : n <= m
    BY Least
  <2>2. n # 0 /\ n \in Nat
    BY <1>1
  <2>3. n - 1 \in Nat /\ ~(n - 1 \in T)
    BY <2>1, <2>2
  <2>4. Good(n)
    BY <1>2, <2>2, <2>3
  <2> QED BY <2>4
<1>4. PICK h : \A i \in 0..Len(order) : h[i] = MergeValue(h, full, order, i)
  BY <1>3 DEF Good
<1> DEFINE k == [i \in 0..Len(order) |-> h[i]]
<1>5. \A i \in 0..Len(order) : k[i] = MergeValue(k, full, order, i)
  <2> TAKE i \in 0..Len(order)
  <2>1. CASE i = 0
    BY <1>4, <2>1 DEF MergeValue
  <2>2. CASE i # 0
    <3>1. k[i - 1] = h[i - 1] /\ k[i] = h[i]
      BY <2>2
    <3> HIDE DEF k
    <3> QED BY <1>4, <2>2, <3>1 DEF MergeValue
  <2> QED BY <2>1, <2>2
<1>6. k = [i \in 0..Len(order) |-> k[i]]
  OBVIOUS
<1> HIDE DEF k
<1>7. IsMerge(k, full, order)
  BY <1>5, <1>6 DEF IsMerge
<1> QED BY <1>7

\* MergedStacks is the value of that recursion after the last turn.
LEMMA MergedBy ==
  ASSUME NEW full, NEW order, Len(order) \in Nat
  PROVE  \E h : IsMerge(h, full, order) /\ MergedStacks(full, order) = h[Len(order)].amount
<1> DEFINE h == CHOOSE h : IsMerge(h, full, order)
<1>1. IsMerge(h, full, order)
  BY MergeExists
<1>2. MergedStacks(full, order) = h[Len(order)].amount
  BY DEF MergedStacks, IsMerge, MergeValue, MergeStart
<1> QED BY <1>1, <1>2

\* The turns of all stacks
LEMMA AllTurns ==
  ASSUME NEW M, IsFiniteSet(M), NEW full \in Nat, NEW total, NEW order, Len(order) \in Nat,
         \A i \in 1..Len(order) : order[i] \in M,
         Balanced(MergeStart(order), order, M, full, total)
  PROVE  LET new == MergedStacks(full, order)
         IN  (\A g \in M : new[g] \in 0..full) /\ Sum(Part(new, M)) = total
<1>1. PICK h : IsMerge(h, full, order) /\ MergedStacks(full, order) = h[Len(order)].amount
  BY MergedBy
<1> DEFINE Good(i) == Balanced(h[i], order, M, full, total)
           T == {i \in 0..Len(order) : ~Good(i)}
<1>2. \A i \in 0..Len(order) : h[i] = MergeValue(h, full, order, i)
  BY <1>1 DEF IsMerge
<1>3. Good(0)
  BY <1>2 DEF MergeValue
<1>4. ASSUME NEW i \in 1..Len(order), Good(i - 1) PROVE Good(i)
  <2>1. h[i] = MergeTurn(full, order, h[i - 1], order[i])
    BY <1>2 DEF MergeValue
  <2>2. Len(order) \in Nat \ {0} /\ order[i] \in M
    OBVIOUS
  <2> QED BY <1>4, <2>1, <2>2, TurnBalanced
<1> HIDE DEF Good
<1>5. T = {}
  <2> SUFFICES ASSUME T # {} PROVE FALSE
    OBVIOUS
  <2>1. T \subseteq Nat
    OBVIOUS
  <2>2. PICK i \in T : \A j \in T : i <= j
    BY <2>1, Least
  <2>3. i # 0 /\ i \in 1..Len(order)
    BY <1>3
  <2>4. i - 1 \in 0..Len(order) /\ ~(i - 1 \in T)
    BY <2>2, <2>3
  <2>5. Good(i)
    BY <1>4, <2>3, <2>4
  <2> QED BY <2>5
<1>6. Good(Len(order))
  BY <1>5
<1> QED BY <1>1, <1>6 DEF Good, Balanced

\* An order that pairs() may find the stacks in has each of them.
LEMMA OrderFacts ==
  ASSUME NEW M, IsFiniteSet(M), NEW order \in SetToSeqs(M)
  PROVE  /\ Len(order) \in Nat /\ \A i \in 1..Len(order) : order[i] \in M
         /\ ToSet(order) = M
<1> DEFINE n == Cardinality(M)
<1>1. n \in Nat
  BY FS_CardinalityType
<1>2. order \in [1..n -> M] /\ \A i, j \in 1..n : i # j => order[i] # order[j]
  BY DEF SetToSeqs
<1>3. IsFiniteSet(1..n) /\ Cardinality(1..n) = n
  BY <1>1, FS_Interval
<1>4. order \in Injection(1..n, M)
  BY <1>2 DEF Injection, IsInjective
<1>5. order \in Surjection(1..n, M)
  BY <1>3, <1>4, FS_Injection
<1>6. \A x \in M : \E i \in 1..n : order[i] = x
  BY <1>5 DEF Surjection
<1>7. DOMAIN order = 1..n /\ Len(order) = n
  <2> HIDE DEF n
  <2> QED BY <1>1, <1>2
<1> QED BY <1>1, <1>2, <1>6, <1>7 DEF ToSet

\* The stacks of one prototype
LEMMA StacksMerged ==
  ASSUME BackpackInv, NEW k \in Packs, NEW p \in Protos,
    NEW order \in SetToSeqs(Mergeable(p, k)),
         NEW new, new = MergedStacks(MaxCount[p], order), NEW M, M = Mergeable(p, k),
         NEW old, old = [g \in M |-> bag.item[g].amount]
  PROVE  (\A g \in M : new[g] \in 0..MaxCount[p]) /\ Sum(Part(new, M)) = Sum(Part(old, M))
<1> DEFINE full == MaxCount[p]
<1>1. M \subseteq DOMAIN bag.item /\ \A g \in M : bag.item[g].proto = p
  BY BagFacts DEF Mergeable, Held
<1>2. IsFiniteSet(M)
  BY <1>1, StockFinite, BagFacts, FS_Subset
<1>3. Len(order) \in Nat /\ (\A i \in 1..Len(order) : order[i] \in M) /\ ToSet(order) = M
  BY <1>2, OrderFacts
<1>4. MergeStart(order).amount = old /\ MergeStart(order).front = 1
  BY <1>3 DEF MergeStart, Amount
<1>5. full \in Nat /\ \A g \in M : old[g] \in 0..full
  BY <1>1, BagFacts, MaxCountType
<1> DEFINE total == Sum(Part(old, M))
<1>6. DOMAIN old = M /\ (Len(order) = 0 \/ 1 \in 0..Len(order))
  BY <1>3
<1> HIDE DEF full
<1>7. Balanced(MergeStart(order), order, M, full, total)
  BY <1>4, <1>5, <1>6 DEF Balanced
<1> HIDE DEF total
<1>8. LET n == MergedStacks(full, order)
      IN  (\A g \in M : n[g] \in 0..full) /\ Sum(Part(n, M)) = total
  BY <1>2, <1>3, <1>5, <1>7, AllTurns
<1> QED BY <1>8 DEF full, total

\* HandleMergePacketItems keeps the invariant and the units.
LEMMA MergeStep ==
  ASSUME BackpackInv, NEW k \in Packs, HandleMergePacketItems(k)
  PROVE  BackpackInv' /\ \A p \in Protos : Units(bag'.item, p) = Units(bag.item, p)
<1>1. PICK orders \in Orders(k) :
        LET new == [g \in UNION {Mergeable(p, k) : p \in Protos} |->
                     LET p == bag.item[g].proto
                     IN  MergedStacks(MaxCount[p], orders[p])[g]]
            changed == {g \in DOMAIN new : new[g] # Amount(bag, g)}
            gone == {g \in changed : new[g] = 0}
        IN Perform("merge", RemoveItems(SetItemAmount(bag, new), gone),
                   Loop(changed \ gone) \o Loop(gone))
  BY DEF HandleMergePacketItems
<1> DEFINE U == UNION {Mergeable(p, k) : p \in Protos}
           merged(p) == MergedStacks(MaxCount[p], orders[p])
           new == [g \in U |-> merged(bag.item[g].proto)[g]]
           changed == {g \in U : new[g] # bag.item[g].amount}
           gone == {g \in changed : new[g] = 0}
           c == RemoveItems(SetItemAmount(bag, new), gone)
           w == Loop(changed \ gone) \o Loop(gone)
<1>2. Perform("merge", c, w)
  BY <1>1 DEF Amount
<1>3. \A p \in Protos : /\ Mergeable(p, k) \subseteq DOMAIN bag.item
                        /\ \A g \in Mergeable(p, k) : bag.item[g].proto = p
  BY BagFacts DEF Mergeable, Held
<1>4. U \subseteq DOMAIN bag.item /\ DOMAIN new = U
  BY <1>3
<1>5. ASSUME NEW p \in Protos
      PROVE  /\ \A g \in Mergeable(p, k) : g \in U /\ new[g] = merged(p)[g]
                  /\ new[g] \in 0..MaxCount[p]
             /\ Sum(Part(new, Mergeable(p, k)))
                = Sum(Part([g \in Mergeable(p, k) |-> bag.item[g].amount], Mergeable(p, k)))
  <2> DEFINE M == Mergeable(p, k)
             old == [g \in M |-> bag.item[g].amount]
             n == merged(p)
  <2>1. orders[p] \in SetToSeqs(Mergeable(p, k))
    BY DEF Orders
  <2>2. (\A g \in M : n[g] \in 0..MaxCount[p]) /\ Sum(Part(n, M)) = Sum(Part(old, M))
    <3>1. n = MergedStacks(MaxCount[p], orders[p]) /\ M = Mergeable(p, k)
            /\ old = [g \in M |-> bag.item[g].amount]
      OBVIOUS
    <3> HIDE DEF n, M, old
    <3> QED BY <2>1, <3>1, StacksMerged
  <2>3. \A g \in M : g \in U /\ new[g] = n[g]
    BY <1>3
  <2>4. Part(new, M) = Part(n, M)
    <3> HIDE DEF new, n, M
    <3> QED BY <2>3, PartSame
  <2> QED BY <2>2, <2>3, <2>4
<1>6. \A g \in U : new[g] \in 0..MaxCount[bag.item[g].proto]
  <2> SUFFICES ASSUME NEW p \in Protos, NEW g \in Mergeable(p, k)
               PROVE  new[g] \in 0..MaxCount[bag.item[g].proto]
    OBVIOUS
  <2>1. bag.item[g].proto = p
    BY <1>3
  <2> HIDE DEF new
  <2> QED BY <1>5, <2>1
<1>7. \A p \in Protos : \A g \in U : bag.item[g].proto = p => g \in Mergeable(p, k)
  BY <1>3
<1> HIDE DEF merged, new, U
<1>8. \A g \in (DOMAIN new \cap DOMAIN bag.item) \ gone : new[g]
        \in 1..MaxCount[bag.item[g].proto]
  <2> TAKE g \in (DOMAIN new \cap DOMAIN bag.item) \ gone
  <2>1. g \in U /\ new[g] \in 0..MaxCount[bag.item[g].proto] /\ bag.item[g].amount # 0
        /\ MaxCount[bag.item[g].proto] \in Nat
    BY <1>4, <1>6, BagFacts
  <2>2. new[g] # 0
    BY <2>1
  <2> QED BY <2>1, <2>2
<1>9. changed \subseteq U /\ gone \subseteq changed
        /\ (\A g \in U \ changed : new[g] = bag.item[g].amount)
      /\ \A g \in gone : new[g] = 0
  OBVIOUS
<1> HIDE DEF changed, gone
<1>10. /\ Tables(c) /\ Stock(c.item, c.high) /\ Stays(bag.item, c.item) /\ c.high = bag.high
       /\ DOMAIN c.item = DOMAIN bag.item \ gone
       /\ \A g \in DOMAIN c.item \cap DOMAIN new :
            c.item[g].amount = new[g] /\ (new[g] = bag.item[g].amount => c.item[g] = bag.item[g])
       /\ \A g \in DOMAIN c.item \ DOMAIN new : c.item[g] = bag.item[g]
  BY <1>8, BagFacts, Reduced
<1>11. Writable(w, bag.high) /\ Pending(w) = changed
  <2>1. changed \ gone \subseteq 1..bag.high /\ gone \subseteq 1..bag.high
    BY <1>4, <1>9, BagFacts
  <2> DEFINE v == Loop(changed \ gone)
             x == Loop(gone)
  <2>2. Writable(v, bag.high) /\ Pending(v) = changed \ gone /\ Writable(x, bag.high)
          /\ Pending(x) = gone
    BY <2>1, BagFacts, LoopFacts
  <2> HIDE DEF v, x
  <2>3. Writable(v \o x, bag.high) /\ Pending(v \o x) = Pending(v) \cup Pending(x)
    BY <2>2, BagFacts, AfterFacts
  <2> QED BY <1>9, <2>2, <2>3 DEF v, x
<1> HIDE DEF c, w
<1>12. \A g \in 1..bag.high : g \in Pending(w) \/ Alike(bag.item, c.item, g)
  <2> SUFFICES ASSUME NEW g \in 1..bag.high, g \notin changed PROVE Alike(bag.item, c.item, g)
    BY <1>11
  <2>1. g \notin gone
    BY <1>9
  <2>2. g \in DOMAIN c.item => c.item[g] = bag.item[g]
    BY <1>4, <1>9, <1>10
  <2> QED BY <1>10, <2>1, <2>2 DEF Alike
<1>13. Sound(c, w)
  BY <1>10, <1>11, <1>12, SoundIfStays
<1>14. ASSUME NEW p \in Protos PROVE Units(c.item, p) = Units(bag.item, p)
  <2> DEFINE D == DOMAIN bag.item
             M == Mergeable(p, k)
             f == UnitsTable(bag.item, p, D)
             h == UnitsTable(c.item, p, D)
             old == [g \in M |-> bag.item[g].amount]
  <2>1. IsFiniteSet(D) /\ M \subseteq D /\ DOMAIN c.item \subseteq D
    BY <1>3, <1>10, BagFacts, StockFinite
  <2>2. \A g \in DOMAIN c.item : c.item[g].amount \in Nat
    BY <1>10, ItemFields DEF Stock
  <2>3. /\ Units(bag.item, p) = Sum(Part(f, D)) /\ \A g \in D : UnitsOf(bag.item, g, p) \in Nat
    BY <2>1, BagFacts, UnitsCounted
  <2>4. /\ Units(c.item, p) = Sum(Part(h, D)) /\ \A g \in D : UnitsOf(c.item, g, p) \in Nat
    BY <2>1, <2>2, UnitsCounted
  <2>5. \A g \in D : f[g] = UnitsOf(bag.item, g, p) /\ h[g] = UnitsOf(c.item, g, p)
                     /\ f[g] \in Int /\ h[g] \in Int
    BY <2>3, <2>4 DEF UnitsTable
  <2>6. \A g \in M : f[g] = old[g] /\ h[g] = new[g]
    <3> TAKE g \in M
    <3>1. g \in D /\ bag.item[g].proto = p /\ g \in U
      BY <1>3, <1>5
    <3>2. f[g] = old[g]
      BY <2>5, <3>1 DEF UnitsOf
    <3>3. CASE g \in gone
      BY <1>9, <1>10, <2>5, <3>1, <3>3 DEF UnitsOf
    <3>4. CASE g \notin gone
      <4>1. g \in DOMAIN c.item /\ c.item[g].amount = new[g] /\ c.item[g].proto = p
        BY <1>4, <1>10, <3>1, <3>4 DEF Stays
      <4> QED BY <2>5, <3>1, <3>2, <4>1 DEF UnitsOf
    <3> QED BY <3>2, <3>3, <3>4
  <2>7. \A g \in D \ M : f[g] = h[g]
    <3> TAKE g \in D \ M
    <3>1. CASE bag.item[g].proto = p
      <4>1. g \notin U /\ g \notin gone
        BY <1>7, <1>9, <3>1
      <4>2. g \in DOMAIN c.item /\ c.item[g] = bag.item[g]
        BY <1>4, <1>10, <4>1
      <4> QED BY <2>5, <4>2 DEF UnitsOf
    <3>2. CASE bag.item[g].proto # p
      BY <1>10, <2>5, <3>2 DEF UnitsOf, Stays
    <3> QED BY <3>1, <3>2
  <2>8. Sum(Part(new, M)) = Sum(Part(old, M))
    BY <1>5
  <2> HIDE DEF D, M, f, h, old
  <2>9. Part(f, M) = Part(old, M) /\ Part(h, M) = Part(new, M)
          /\ Part(f, D \ M) = Part(h, D \ M)
    BY <2>6, <2>7, PartSame
  <2>10. Sum(Part(f, D)) = Sum(Part(f, M)) + Sum(Part(f, D \ M))
    BY <2>1, <2>5, SumDisjoint
  <2>11. Sum(Part(h, D)) = Sum(Part(h, M)) + Sum(Part(h, D \ M))
    BY <2>1, <2>5, SumDisjoint
  <2> QED BY <2>3, <2>4, <2>8, <2>9, <2>10, <2>11
<1>15. Ready
  BY DEF HandleMergePacketItems
<1>16. bag' = c
  BY <1>2 DEF Perform
<1>17. BackpackInv'
  BY <1>2, <1>13, <1>15, Performed
<1> QED BY <1>14, <1>16, <1>17

-----------------------------------------------------------------------------
(* The theorems *)

\* Every step keeps the invariant.
LEMMA NextInv == BackpackInv /\ [Next]_vars => BackpackInv'
<1> SUFFICES ASSUME BackpackInv, [Next]_vars PROVE BackpackInv'
  OBVIOUS
<1>1. ASSUME NEW p \in Protos, NEW n \in Amounts, GetItem(p, n) PROVE BackpackInv'
  BY <1>1, GetStep
<1>2. ASSUME NEW g \in Guids, NEW n \in Amounts, HandleUseItem(g, n) PROVE BackpackInv'
  BY <1>2, UseStep
<1>3. ASSUME NEW g \in Guids, NEW n \in Amounts, HandleSellItem(g, n) PROVE BackpackInv'
  BY <1>3, SellStep
<1>4. ASSUME NEW p \in Protos, NEW n \in Amounts, HandleDoMountAdvance(p, n) PROVE BackpackInv'
  BY <1>4, MountStep
<1>5. ASSUME NEW S \in {{Normal}, {Bank}, {Normal, Bank}},
               ClearAllPackItems(S) PROVE BackpackInv'
  BY <1>5, ClearStep
<1>6. ASSUME NEW g \in Guids, NEW k \in Packs, HandleSwapItem(g, k) PROVE BackpackInv'
  BY <1>6, SwapStep
<1>7. ASSUME NEW k \in Packs, HandleMergePacketItems(k) PROVE BackpackInv'
  BY <1>7, MergeStep
<1>8. ASSUME NEW g \in Guids, Write(g) PROVE BackpackInv'
  BY <1>8, WriteStep
<1>9. ASSUME Logout \/ LoadItemsFromDB \/ Crash PROVE BackpackInv'
  BY <1>9, LogoutStep, LoadStep, CrashStep
<1>10. CASE UNCHANGED vars
  <2>1. bag' = bag /\ db' = db /\ writes' = writes /\ up' = up /\ op' = op
          /\ crashes' = crashes
    BY <1>10 DEF vars
  <2>2. MemoryInv' /\ StoreInv'
    BY <2>1 DEF BackpackInv, MemoryInv, StoreInv
  <2>3. WritesInv' /\ DownInv'
    BY <2>1 DEF BackpackInv, WritesInv, DownInv
  <2>4. WornInv' /\ SwapInv'
    BY <2>1 DEF BackpackInv, WornInv, SwapInv
  <2> QED BY <2>1, <2>2, <2>3, <2>4 DEF BackpackInv
<1> QED BY <1>1, <1>2, <1>3, <1>4, <1>5, <1>6, <1>7, <1>8, <1>9, <1>10 DEF Next

\* The invariant: the tables of the packs are what the items say, the limits hold
\* in memory and in the documents, and what is not yet written explains every
\* difference between them; the writes of an operation (SaveToDB, DeleteFromDB)
\* come in an order that a crash of the server may cut off anywhere.
THEOREM BackpackInvariant == Spec => []BackpackInv
BY InitInv, NextInv, PTL DEF Spec

\* The table an item is in is the one its pack_index names, and no stack is empty
\* or over its size, whatever the prototypes are and however the stacks are found
\* (AddItemToSpecifyPack, RemoveItemFromSpecifyPack, SetItemAmount).
THEOREM PlacedHolds == Spec => []Placed
<1>1. BackpackInv => Placed
  <2> SUFFICES ASSUME BackpackInv PROVE Placed
    OBVIOUS
  <2>1. bag.high \in Nat /\ MaxGuid \in Nat /\ bag.high <= MaxGuid
          /\ 1..bag.high \subseteq Guids
    BY BagFacts, ConstantsAssumption DEF BackpackInv, MemoryInv, Guids
  <2>2. db \in [DOMAIN db -> Items] /\ DOMAIN db \subseteq Guids
    BY <2>1 DEF BackpackInv, StoreInv, Stock
  <2>3. writes \in Seq(SUBSET Guids)
    <3>1. Writable(writes, MaxGuid)
      BY <2>1, WritableGrows DEF BackpackInv, WritesInv
    <3> QED BY <3>1 DEF Writable, Guids
  <2>4. DOMAIN bag.item = UNION {bag.packs[k] : k \in Packs}
    BY BagFacts DEF Held
  <2>5. \A k \in Packs : \A g \in bag.packs[k] :
          /\ bag.item[g] \in Items /\ bag.item[g].pack = k
          /\ Amount(bag, g) \in 1..MaxCount[bag.item[g].proto]
    BY BagFacts DEF Held, Amount
  <2> QED BY <2>2, <2>3, <2>4, <2>5 DEF Placed, BackpackInv
<1> QED BY <1>1, BackpackInvariant, PTL

\* The backpack and the bank are never over their grid limit, after a crash between
\* two writes too, and one item is worn at each place until the server has crashed
\* (CanSwapItemToSpecifyPack, CreateItemToBackpackCheck, LoadItemsFromDB).
THEOREM WithinLimitsHolds == Spec => []WithinLimits
<1>1. BackpackInv => WithinLimits
  <2> SUFFICES ASSUME BackpackInv PROVE WithinLimits
    OBVIOUS
  <2>1. \A k \in Packs : bag.packs[k] = Held(bag.item, k)
    BY BagFacts
  <2>2. \A k \in {Normal, Bank} : Cardinality(bag.packs[k]) <= GridLimit[k]
    BY <2>1, BagFacts, GridFacts DEF Fits, Limited
  <2>3. crashes = 0 => OneWorn(bag.item)
    BY DEF BackpackInv, WornInv
  <2> QED BY <2>1, <2>2, <2>3, GridFacts DEF WithinLimits, OneWorn
<1> QED BY <1>1, BackpackInvariant, PTL

\* When an operation's writes are made the documents are the items in memory, and
\* while a move is written they hold no unit less (HandleSwapItem saves the stacks
\* it has filled before the item they were filled from).
THEOREM DbAgreesHolds == Spec => []DbAgrees
<1>1. BackpackInv => DbAgrees
  <2> SUFFICES ASSUME BackpackInv PROVE DbAgrees
    OBVIOUS
  <2>1. up /\ writes = <<>> => db = bag.item
    BY Settled
  <2>2. op = "swap" => \A p \in Protos : Units(db, p) >= Units(bag.item, p)
    BY DEF BackpackInv, SwapInv
  <2> QED BY <2>1, <2>2 DEF DbAgrees
<1> QED BY <1>1, BackpackInvariant, PTL

\* HandleSwapItem and MergePacketItems neither create nor destroy units.
THEOREM UnitsKeptHolds == Spec => UnitsKept
<1> DEFINE Kept == \A p \in Protos : Units(bag'.item, p) = Units(bag.item, p)
<1>1. ASSUME BackpackInv, [Next]_vars
      PROVE  [op' \in {"swap", "merge"} => \A p \in Protos : Units(bag'.item, p) = Units(bag.item, p)]_vars
  <2> SUFFICES ASSUME op' \in {"swap", "merge"}, Next PROVE Kept
    BY <1>1
  <2>1. \A name, b, w : name \notin {"swap", "merge"} => ~Perform(name, b, w)
    BY DEF Perform
  <2>2. ASSUME NEW p \in Protos, NEW n \in Amounts, GetItem(p, n) \/ HandleDoMountAdvance(p, n)
        PROVE  FALSE
    BY <2>1, <2>2 DEF GetItem, HandleDoMountAdvance
  <2>3. ASSUME NEW g \in Guids, NEW n \in Amounts, HandleUseItem(g, n) \/ HandleSellItem(g, n)
        PROVE  FALSE
    BY <2>1, <2>3 DEF HandleUseItem, HandleSellItem
  <2>4. ASSUME NEW S \in {{Normal}, {Bank}, {Normal, Bank}}, ClearAllPackItems(S) PROVE FALSE
    BY <2>1, <2>4 DEF ClearAllPackItems
  <2>5. ASSUME NEW g \in Guids, NEW k \in Packs, HandleSwapItem(g, k) PROVE Kept
    BY <1>1, <2>5, SwapStep
  <2>6. ASSUME NEW k \in Packs, HandleMergePacketItems(k) PROVE Kept
    BY <1>1, <2>6, MergeStep
  <2>7. ASSUME NEW g \in Guids, Write(g) PROVE Kept
    BY <2>7 DEF Write
  <2>8. ASSUME Logout \/ LoadItemsFromDB \/ Crash PROVE FALSE
    BY <2>8 DEF Logout, LoadItemsFromDB, Crash
  <2> HIDE DEF Kept
  <2> QED BY <2>2, <2>3, <2>4, <2>5, <2>6, <2>7, <2>8 DEF Next
<1> QED BY <1>1, BackpackInvariant, PTL DEF Spec, UnitsKept

-----------------------------------------------------------------------------
(* The level, the experience and the coins: PlayerData *)

\* The packets between the servers
SyncPackets == [kind : {"sync"}, exp : Nat]
SavePackets == [kind : {"save"}, next : Scenes \cup {0}, session : Nat]
EnterPackets == [kind : {"enter"}, scene : Scenes]
ToMaster == SyncPackets \cup SavePackets \cup EnterPackets
ToScene == [scene : Scenes \cup {0}, level : 0..MaxLevel, coins : -1..CoinLimit]

\* What the role's data can be; toScene is the list of the packets to its scene server.
RoleTypes ==
  /\ doc \in [level : 1..MaxLevel, exp : Nat, coins : 0..CoinLimit, logged : BOOLEAN]
  /\ info \in [level : 1..MaxLevel, logged : BOOLEAN]
  /\ plr \in Players \cup {Off} /\ home \in Scenes \cup {0}
  /\ arriving \in Entries \cup {Off} /\ copy \in Copies \cup {Off}
  /\ toMaster \in Seq(ToMaster) /\ toScene \in Seq(ToScene)
  /\ earned \in Nat
  /\ count \in [login : Nat, money : Nat, move : Nat, crash : Nat, requeue : Nat]

\* The experience a packet carries, and that of all the packets on the way
Load(packet) == IF packet.kind = "sync" THEN packet.exp ELSE 0
Loads(packets) == [i \in 1..Len(packets) |-> Load(packets[i])]
Under(packets) == Sum(Part(Loads(packets), 1..Len(packets)))

\* The experience is within what was earned by the document as well, which comes
\* back when the central server stops; a level gained is always in the document.
Gained == IF copy = Off THEN 0 ELSE copy.gained
ExpInv ==
  /\ doc.level = info.level
  /\ ExpOf(doc.level) + doc.exp + Under(toMaster) + Gained <= earned
  /\ plr # Off => ExpOf(info.level) + plr.exp + Under(toMaster) + Gained <= earned

\* What the document lacks of a role that is logged in: experience, and the coins of
\* one whose first session was ended by a stop.
LoginInv ==
  /\ plr # Off \/ doc.logged => info.logged
  /\ count.crash = 0 /\ ~info.logged => doc.exp = 0 /\ doc.coins = 0
  /\ plr # Off => doc.coins = plr.coins \/ (count.crash > 0 /\ plr.first)

\* The LuaPlayer has been saved for its logout; a packet asks for that in this login.
Saved == plr # Off /\ plr.saved
Current(packet, login) == packet.kind = "save" /\ packet.session = login

\* No scene server holds a session later than the last one.
SessionsInv ==
  /\ copy # Off => copy.session <= count.login
  /\ \A i \in 1..Len(toMaster) :
       toMaster[i].kind = "save" => toMaster[i].session <= count.login

\* As long as nothing stops and no packet changes its place, a role is in one place:
\* on its way to a scene server, on one, in the packet that ends its visit, or saved;
\* and nothing it has earned follows that packet.
PlaceInv ==
  /\ Saved => /\ arriving = Off /\ copy = Off /\ doc.exp = plr.exp
              /\ \A i \in 1..Len(toMaster) : toMaster[i].kind # "sync"
  /\ copy # Off /\ copy.session = count.login => arriving = Off
  /\ \A i \in 1..Len(toMaster) : Current(toMaster[i], count.login) =>
       /\ arriving = Off /\ copy = Off /\ ~Saved
       /\ \A j \in 1..Len(toMaster) :
            /\ j > i => toMaster[j].kind # "sync"
            /\ Current(toMaster[j], count.login) => j = i

\* No server has stopped, and no packet has changed its place.
NoFault == count.crash + count.requeue = 0

\* The inductive invariant
RoleInv ==
  RoleTypes /\ ExpInv /\ LoginInv /\ SessionsInv /\ (NoFault => PlaceInv)

\* The experience for the levels up to one, as a sum
LEMMA ExpOfSum ==
  ASSUME NEW l
  PROVE  ExpOf(l) = Sum(Part(NeedExp, 2..l))
BY DEF ExpOf, Sum, Part, FoldFunction, FoldFunctionOnSet, MapThenFoldSet

\* It is a natural number.
LEMMA ExpOfNat ==
  ASSUME NEW l \in 1..MaxLevel
  PROVE  ExpOf(l) \in Nat
<1>1. IsFiniteSet(2..l)
  BY FS_Interval, RoleAssumption
<1>2. \A k \in 2..l : NeedExp[k] \in Nat
  BY RoleAssumption
<1> QED BY <1>1, <1>2, SumNat, ExpOfSum

\* The level a role reaches exists, and is not below its own.
LEMMA ReachedFacts ==
  ASSUME NEW l \in 1..MaxLevel, NEW e \in Nat
  PROVE  /\ Reached(l, e) \in l..MaxLevel
         /\ ExpOf(Reached(l, e)) - ExpOf(l) <= e
<1> DEFINE Exp(n) == ExpOf(n)
<1>1. MaxLevel \in Nat /\ \A n \in 1..MaxLevel : Exp(n) \in Nat
  BY ExpOfNat, RoleAssumption
<1> HIDE DEF Exp
<1> DEFINE T == {n \in l..MaxLevel : Exp(n) - Exp(l) <= e}
           S == {MaxLevel - n : n \in T}
<1>2. l \in T /\ S \subseteq Nat /\ S # {}
  BY <1>1
<1> HIDE DEF S
<1>3. PICK s \in S : \A t \in S : s <= t
  BY <1>2, Least
<1>4. PICK n \in T : s = MaxLevel - n
  BY DEF S
<1>5. n < MaxLevel => Exp(n + 1) - Exp(l) > e
  <2> SUFFICES ASSUME n < MaxLevel, ~(Exp(n + 1) - Exp(l) > e) PROVE FALSE
    OBVIOUS
  <2>1. n + 1 \in l..MaxLevel /\ n + 1 \in 1..MaxLevel
    BY <1>1
  <2>2. Exp(n + 1) \in Nat /\ Exp(l) \in Nat
    BY <1>1, <2>1
  <2>3. n + 1 \in T
    BY <2>1, <2>2
  <2>4. MaxLevel - (n + 1) \in S
    BY <2>3 DEF S
  <2> QED BY <1>1, <1>3, <1>4, <2>4
<1>6. \E r \in l..MaxLevel : Exp(r) - Exp(l) <= e /\ (r < MaxLevel => Exp(r + 1) - Exp(l) > e)
  BY <1>5
<1>7. Reached(l, e) = CHOOSE r \in l..MaxLevel :
        Exp(r) - Exp(l) <= e /\ (r < MaxLevel => Exp(r + 1) - Exp(l) > e)
  BY DEF Reached, Exp
<1>8. Reached(l, e) \in l..MaxLevel /\ Exp(Reached(l, e)) - Exp(l) <= e
  BY <1>6, <1>7
<1> QED BY <1>8 DEF Exp

\* A function is another, one index later.
OneLater(f, g, n) == \A i \in 1..n : g[i] \in Int /\ f[i + 1] = g[i]

\* The same values under other indices have the same sum.
LEMMA SumShift ==
  ASSUME NEW n \in Nat, NEW l \in Nat, l = n + 1, NEW f, NEW g, OneLater(f, g, n)
  PROVE  Sum(Part(f, 2..l)) = Sum(Part(g, 1..n))
<1> DEFINE C == {m \in 0..n : Sum(Part(f, 2..(m + 1))) # Sum(Part(g, 1..m))}
<1>1. C = {}
  <2> SUFFICES ASSUME C # {} PROVE FALSE
    OBVIOUS
  <2>1. C \subseteq Nat
    OBVIOUS
  <2> HIDE DEF C
  <2>2. PICK m \in C : \A k \in C : m <= k
    BY <2>1, Least
  <2>3. PICK k \in Nat : k = m + 1
    BY <2>1, <2>2
  <2>4. m \in 0..n /\ Sum(Part(f, 2..k)) # Sum(Part(g, 1..m))
    BY <2>3 DEF C
  <2>5. CASE m = 0
    <3>1. DOMAIN Part(f, 2..k) = {} /\ DOMAIN Part(g, 1..m) = {}
      BY <2>3, <2>5 DEF Part
    <3> QED BY <2>4, <3>1, SumEmpty
  <2>6. CASE m # 0
    <3>1. m - 1 \in 0..n /\ m - 1 \notin C
      BY <2>2, <2>4, <2>6
    <3>2. Sum(Part(f, 2..m)) = Sum(Part(g, 1..(m - 1)))
      <4>1. (m - 1) + 1 = m
        BY <2>4
      <4> QED BY <3>1, <4>1 DEF C
    <3>3. (2..k) \ {k} = 2..m /\ (1..m) \ {m} = 1..(m - 1)
      BY <2>3, <2>4, <2>6
    <3>4. Sum(Part(g, 1..m)) = g[m] + Sum(Part(g, 1..(m - 1)))
      <4>1. IsFiniteSet(1..m) /\ m \in 1..m /\ \A i \in 1..m : g[i] \in Int
        BY <2>4, <2>6, FS_Interval DEF OneLater
      <4> DEFINE S == 1..m
      <4>2. IsFiniteSet(S) /\ m \in S /\ S \ {m} = 1..(m - 1) /\ \A x \in S : g[x] \in Int
        BY <3>3, <4>1
      <4> HIDE DEF S
      <4>3. Sum(Part(g, S)) = g[m] + Sum(Part(g, S \ {m}))
        BY <4>2, SumSplit
      <4> QED BY <4>2, <4>3 DEF S
    <3>5. \A i \in 2..k : f[i] \in Int
      <4> TAKE i \in 2..k
      <4>1. i - 1 \in 1..n /\ (i - 1) + 1 = i
        BY <2>3, <2>4
      <4> QED BY <4>1 DEF OneLater
    <3>6. Sum(Part(f, 2..k)) = f[k] + Sum(Part(f, 2..m))
      <4>1. IsFiniteSet(2..k) /\ k \in 2..k
        BY <2>3, <2>4, <2>6, FS_Interval
      <4> DEFINE S == 2..k
      <4>2. IsFiniteSet(S) /\ k \in S /\ S \ {k} = 2..m /\ \A x \in S : f[x] \in Int
        BY <3>3, <3>5, <4>1
      <4> HIDE DEF S
      <4>3. Sum(Part(f, S)) = f[k] + Sum(Part(f, S \ {k}))
        BY <4>2, SumSplit
      <4> QED BY <4>2, <4>3 DEF S
    <3>7. f[k] = g[m]
      BY <2>3, <2>4, <2>6 DEF OneLater
    <3> QED BY <2>4, <3>2, <3>4, <3>6, <3>7
  <2> QED BY <2>5, <2>6
<1>2. n \in 0..n /\ n \notin C
  BY <1>1
<1> QED BY <1>2

\* What is on the way is the sum of what the packets carry.
LEMMA UnderWayIs ==
  ASSUME toMaster \in Seq(ToMaster) PROVE UnderWay = Under(toMaster)
<1> DEFINE f == [i \in DOMAIN toMaster |->
                   IF toMaster[i].kind = "sync" THEN toMaster[i].exp ELSE 0]
<1>1. UnderWay = Sum(f)
  BY DEF UnderWay, Sum, FoldFunction, FoldFunctionOnSet, MapThenFoldSet
<1>2. DOMAIN toMaster = 1..Len(toMaster)
  OBVIOUS
<1>3. f = Part(Loads(toMaster), 1..Len(toMaster))
  BY <1>2 DEF Part, Loads, Load
<1> QED BY <1>1, <1>3 DEF Under

\* The same for the next state
LEMMA UnderWayIsNext ==
  ASSUME toMaster' \in Seq(ToMaster) PROVE UnderWay' = Under(toMaster')
<1> DEFINE f == [i \in DOMAIN toMaster' |->
                   IF toMaster'[i].kind = "sync" THEN toMaster'[i].exp ELSE 0]
<1>1. UnderWay' = Sum(f)
  BY DEF UnderWay, Sum, FoldFunction, FoldFunctionOnSet, MapThenFoldSet
<1>2. DOMAIN toMaster' = 1..Len(toMaster')
  OBVIOUS
<1>3. f = Part(Loads(toMaster'), 1..Len(toMaster'))
  BY <1>2 DEF Part, Loads, Load
<1> QED BY <1>1, <1>3 DEF Under

\* A packet carries a natural number of points, and so do all of them.
LEMMA UnderNat ==
  ASSUME NEW s \in Seq(ToMaster)
  PROVE  /\ Under(s) \in Nat
         /\ \A i \in 1..Len(s) : Loads(s)[i] = Load(s[i]) /\ Load(s[i]) \in Nat
<1>1. \A i \in 1..Len(s) : Loads(s)[i] = Load(s[i]) /\ Load(s[i]) \in Nat
  BY DEF Loads, Load, ToMaster, SyncPackets, SavePackets, EnterPackets
<1>2. IsFiniteSet(1..Len(s))
  BY FS_Interval
<1> QED BY <1>1, <1>2, SumNat DEF Under

\* Nothing is on the way without packets.
LEMMA UnderEmpty == Under(<<>>) = 0
<1>1. DOMAIN Part(Loads(<<>>), 1..Len(<<>>)) = {}
  BY DEF Part
<1> QED BY <1>1, SumEmpty DEF Under

\* A packet that is sent adds what it carries.
LEMMA UnderAppend ==
  ASSUME NEW s \in Seq(ToMaster), NEW m \in ToMaster
  PROVE  Under(Append(s, m)) = Under(s) + Load(m)
<1> DEFINE t == Append(s, m)
           n == Len(s)
           l == Len(t)
           f == Loads(t)
           g == Loads(s)
<1>1. t \in Seq(ToMaster) /\ l = n + 1 /\ n \in Nat /\ l \in Nat /\ t[l] = m
      /\ \A i \in 1..n : t[i] = s[i]
  OBVIOUS
<1>2. l \in 1..l /\ (1..l) \ {l} = 1..n /\ 1..n \subseteq 1..l
  <2> HIDE DEF n, l, t
  <2> QED BY <1>1
<1>3. \A i \in 1..l : f[i] = Load(t[i]) /\ f[i] \in Int
  <2> HIDE DEF t
  <2> QED BY <1>1, UnderNat
<1>4. \A i \in 1..n : g[i] = Load(s[i])
  BY UnderNat
<1>5. Under(t) = Sum(Part(f, 1..l)) /\ Under(s) = Sum(Part(g, 1..n)) /\ Under(s) \in Nat
  BY UnderNat DEF Under
<1> HIDE DEF t, n, l, f, g
<1>6. f[l] = Load(m) /\ \A i \in 1..n : f[i] = g[i]
  BY <1>1, <1>2, <1>3, <1>4
<1>7. IsFiniteSet(1..l)
  BY <1>1, FS_Interval
<1>8. Sum(Part(f, 1..l)) = f[l] + Sum(Part(f, 1..n))
  <2> DEFINE S == 1..l
  <2>1. IsFiniteSet(S) /\ l \in S /\ S \ {l} = 1..n /\ \A x \in S : f[x] \in Int
    BY <1>2, <1>3, <1>7
  <2> HIDE DEF S
  <2>2. Sum(Part(f, S)) = f[l] + Sum(Part(f, S \ {l}))
    BY <2>1, SumSplit
  <2> QED BY <2>1, <2>2 DEF S
<1>9. Part(f, 1..n) = Part(g, 1..n)
  BY <1>6, PartSame
<1>10. Load(m) \in Int
  BY <1>2, <1>3, <1>6
<1> QED BY <1>5, <1>6, <1>8, <1>9, <1>10 DEF t

\* A packet that is received takes what it carries away.
LEMMA UnderTail ==
  ASSUME NEW s \in Seq(ToMaster), s # <<>>
  PROVE  Under(s) = Load(Head(s)) + Under(Tail(s))
<1> DEFINE t == Tail(s)
           n == Len(t)
           l == Len(s)
           f == Loads(s)
           g == Loads(t)
<1>1. t \in Seq(ToMaster) /\ l = n + 1 /\ n \in Nat /\ l \in Nat /\ s[1] = Head(s)
      /\ \A i \in 1..n : t[i] = s[i + 1]
  OBVIOUS
<1>2. 1 \in 1..l /\ (1..l) \ {1} = 2..l /\ \A i \in 1..n : i + 1 \in 1..l
  <2> HIDE DEF n, l, t
  <2> QED BY <1>1
<1>3. \A i \in 1..l : f[i] = Load(s[i]) /\ f[i] \in Int
  BY UnderNat
<1>4. \A i \in 1..n : g[i] = Load(t[i]) /\ g[i] \in Int
  <2> HIDE DEF t
  <2> QED BY <1>1, UnderNat
<1>5. Under(s) = Sum(Part(f, 1..l)) /\ Under(t) = Sum(Part(g, 1..n))
  BY DEF Under
<1> HIDE DEF t, n, l, f, g
<1>6. f[1] = Load(Head(s)) /\ \A i \in 1..n : g[i] \in Int /\ f[i + 1] = g[i]
  BY <1>1, <1>2, <1>3, <1>4
<1>7. IsFiniteSet(1..l)
  BY <1>1, FS_Interval
<1>8. Sum(Part(f, 1..l)) = f[1] + Sum(Part(f, 2..l))
  <2> DEFINE S == 1..l
  <2>1. IsFiniteSet(S) /\ 1 \in S /\ S \ {1} = 2..l /\ \A x \in S : f[x] \in Int
    BY <1>2, <1>3, <1>7
  <2> HIDE DEF S
  <2>2. Sum(Part(f, S)) = f[1] + Sum(Part(f, S \ {1}))
    BY <2>1, SumSplit
  <2> QED BY <2>1, <2>2 DEF S
<1>9. Sum(Part(f, 2..l)) = Sum(Part(g, 1..n))
  <2>1. n \in Nat /\ l \in Nat /\ l = n + 1
    BY <1>1
  <2>2. OneLater(f, g, n)
    BY <1>6 DEF OneLater
  <2> QED BY <2>1, <2>2, SumShift
<1> QED BY <1>5, <1>6, <1>8, <1>9 DEF t

\* What is assumed of the constants
LEMMA ConstantFacts ==
  /\ MaxLevel \in Nat /\ 1 \in 1..MaxLevel /\ CoinLimit \in Nat /\ Scenes \subseteq Nat
  /\ 0 \notin Scenes
  /\ Off \notin Scenes /\ Off \notin Players /\ Off \notin Entries /\ Off \notin Copies
BY RoleAssumption

\* What a step says of the counter of one thing that happens
LEMMA HappensFacts ==
  ASSUME count \in [login : Nat, money : Nat, move : Nat, crash : Nat, requeue : Nat],
         NEW what \in {"login", "money", "move", "crash", "requeue"}, NEW limit,
         Happens(what, limit)
  PROVE  /\ count' \in [login : Nat, money : Nat, move : Nat, crash : Nat, requeue : Nat]
         /\ count'[what] = count[what] + 1
         /\ \A w \in {"login", "money", "move", "crash", "requeue"} \ {what} :
              count'[w] = count[w]
BY DEF Happens

\* The invariant holds before the first login.
LEMMA InitRole ==
  ASSUME RoleInit
  PROVE  RoleInv
<1>1. RoleTypes
  BY RoleAssumption DEF RoleInit, RoleTypes
<1>2. ExpInv
  <2>1. ExpOf(1) = 0
    <3>1. DOMAIN Part(NeedExp, 2..1) = {}
      BY DEF Part
    <3> QED BY <3>1, SumEmpty, ExpOfSum
  <2>2. Under(toMaster) = 0
    BY UnderEmpty DEF RoleInit
  <2> QED BY <2>1, <2>2 DEF RoleInit, ExpInv, Gained
<1>3. LoginInv /\ SessionsInv /\ PlaceInv
  BY DEF RoleInit, LoginInv, SessionsInv, PlaceInv, Saved
<1> QED BY <1>1, <1>2, <1>3 DEF RoleInv

\* The fields of the packets
LEMMA PacketFields ==
  ASSUME NEW m \in ToMaster
  PROVE  /\ m.kind \in {"sync", "save", "enter"}
         /\ m.kind = "sync" => m.exp \in Nat
         /\ m.kind = "save" => m.next \in Scenes \cup {0} /\ m.session \in Nat
         /\ m.kind = "enter" => m.scene \in Scenes
BY DEF ToMaster, SyncPackets, SavePackets, EnterPackets

\* The document and the PlayerInfo
LEMMA DocFields ==
  ASSUME RoleTypes
  PROVE  /\ doc.level \in 1..MaxLevel /\ doc.exp \in Nat /\ doc.coins \in 0..CoinLimit
         /\ info.level \in 1..MaxLevel /\ earned \in Nat
         /\ doc.logged \in BOOLEAN /\ info.logged \in BOOLEAN
BY DEF RoleTypes

\* The LuaPlayer of the central server
LEMMA PlayerFields ==
  ASSUME RoleTypes, plr # Off
  PROVE  plr \in Players /\ plr.exp \in Nat /\ plr.coins \in 0..CoinLimit
         /\ plr.first \in BOOLEAN /\ plr.saved \in BOOLEAN
BY DEF RoleTypes, Players

\* The LuaPlayer of the scene server
LEMMA CopyFields ==
  ASSUME RoleTypes, copy # Off
  PROVE  /\ copy \in Copies /\ copy.gained \in Nat /\ copy.session \in Nat
         /\ copy.at \in Scenes /\ copy.next \in Scenes \cup {Off} /\ copy.lua \in BOOLEAN
BY DEF RoleTypes, Copies

\* The counters of what has happened
LEMMA CountFields ==
  ASSUME RoleTypes
  PROVE  count.login \in Nat /\ count.crash \in Nat /\ count.requeue \in Nat
BY DEF RoleTypes

\* What is gathered and what is on the way are natural numbers.
LEMMA GainedNat == ASSUME RoleTypes PROVE Gained \in Nat
BY CopyFields DEF Gained

\* The packets on the way
LEMMA WayFacts ==
  ASSUME RoleTypes
  PROVE  /\ toMaster \in Seq(ToMaster) /\ Under(toMaster) \in Nat
         /\ \A i \in 1..Len(toMaster) : toMaster[i] \in ToMaster
<1>1. toMaster \in Seq(ToMaster)
  BY DEF RoleTypes
<1> QED BY <1>1, UnderNat

\* The sessions of the copy and of the packets are not later than the role's.
LEMMA SessionFacts ==
  ASSUME RoleInv
  PROVE  /\ count.login \in Nat
         /\ copy # Off => copy.session \in Nat /\ copy.session <= count.login
         /\ \A i \in 1..Len(toMaster) : toMaster[i].kind = "save" =>
              toMaster[i].session \in Nat /\ toMaster[i].session <= count.login
<1>1. RoleTypes /\ SessionsInv
  BY DEF RoleInv
<1>2. count.login \in Nat /\ (copy # Off => copy.session \in Nat)
  BY <1>1, CopyFields, CountFields
<1>3. ASSUME NEW i \in 1..Len(toMaster), toMaster[i].kind = "save"
      PROVE  toMaster[i].session \in Nat
  <2>1. toMaster[i] \in ToMaster
    BY <1>1, WayFacts
  <2> QED BY <1>3, <2>1, PacketFields
<1> QED BY <1>1, <1>2, <1>3 DEF SessionsInv

\* What the experience of the invariant is made of
LEMMA ExpFacts ==
  ASSUME RoleInv
  PROVE  /\ ExpOf(doc.level) \in Nat /\ doc.exp \in Nat /\ doc.level = info.level
         /\ Under(toMaster) \in Nat /\ Gained \in Nat /\ earned \in Nat
         /\ ExpOf(doc.level) + doc.exp + Under(toMaster) + Gained <= earned
         /\ plr # Off => plr.exp \in Nat
              /\ ExpOf(doc.level) + plr.exp + Under(toMaster) + Gained <= earned
<1>1. RoleTypes /\ ExpInv
  BY DEF RoleInv
<1>2. ExpOf(doc.level) \in Nat
  BY <1>1, DocFields, ExpOfNat
<1>3. Under(toMaster) \in Nat /\ Gained \in Nat
  BY <1>1, WayFacts, GainedNat
<1> QED BY <1>1, <1>2, <1>3, DocFields, PlayerFields DEF ExpInv

\* The experience of the levels e, the points x beyond them, those on the way u and
\* those gathered g are not more than those earned s; and the same later.
Within(e, x, u, g, s) == e + x + u + g <= s
MovesWithin(u, g, s, v, h, t) == v + h + s <= u + g + t

\* What is moved and gathered stays within what is earned.
LEMMA StaysEarned ==
  ASSUME NEW e \in Nat, NEW x \in Nat, NEW u \in Nat, NEW g \in Nat, NEW s \in Nat,
         NEW v \in Nat, NEW h \in Nat, NEW t \in Nat,
         Within(e, x, u, g, s), MovesWithin(u, g, s, v, h, t)
  PROVE  Within(e, x, v, h, t)
BY DEF Within, MovesWithin

\* Less experience stays within what was earned.
LEMMA LessWithin ==
  ASSUME NEW e \in Nat, NEW x \in Nat, NEW u \in Nat, NEW g \in Nat, NEW s \in Nat,
         NEW y \in Nat, y <= x, Within(e, x, u, g, s)
  PROVE  Within(e, y, u, g, s)
BY DEF Within

\* What comes off the way is added, to the levels or to the points beyond them.
LEMMA AddedWithin ==
  ASSUME NEW e \in Nat, NEW x \in Nat, NEW u \in Nat, NEW g \in Nat, NEW s \in Nat,
         NEW f \in Nat, NEW y \in Nat, NEW v \in Nat, NEW add \in Nat,
         Within(e, x, u, g, s), f + y = e + x + add, u = add + v
  PROVE  Within(f, y, v, g, s)
BY DEF Within

\* The same, for what comes off the way and is not added
LEMMA TakenWithin ==
  ASSUME NEW e \in Nat, NEW x \in Nat, NEW u \in Nat, NEW g \in Nat, NEW s \in Nat,
         NEW v \in Nat, NEW add \in Nat, Within(e, x, u, g, s), u = add + v
  PROVE  Within(e, x, v, g, s)
BY DEF Within

\* A step that leaves the role's experience alone may move what is on the way, and
\* gather what is earned.
LEMMA ExpMoves ==
  ASSUME RoleInv, doc'.level = doc.level, doc'.exp = doc.exp,
         info'.level = info.level, plr' # Off => plr # Off /\ plr'.exp = plr.exp,
         Under(toMaster') \in Nat, Gained' \in Nat, earned' \in Nat,
         Under(toMaster') + Gained' + earned <= Under(toMaster) + Gained + earned'
  PROVE  ExpInv'
<1> DEFINE e == ExpOf(doc.level)
           v == Under(toMaster')
           h == Gained'
           t == earned'
<1>1. /\ e \in Nat /\ doc.exp \in Nat /\ doc.level = info.level
      /\ Under(toMaster) \in Nat /\ Gained \in Nat /\ earned \in Nat
      /\ Within(e, doc.exp, Under(toMaster), Gained, earned)
      /\ plr # Off => plr.exp \in Nat
           /\ Within(e, plr.exp, Under(toMaster), Gained, earned)
  BY ExpFacts DEF Within
<1>2. ExpOf(doc'.level) = e /\ ExpOf(info'.level) = e /\ doc'.level = info'.level
  BY <1>1
<1>3. /\ v \in Nat /\ h \in Nat /\ t \in Nat
      /\ MovesWithin(Under(toMaster), Gained, earned, v, h, t)
  BY DEF MovesWithin
<1> HIDE DEF e, v, h, t
<1>4. Within(e, doc.exp, v, h, t)
  BY <1>1, <1>3, StaysEarned
<1>5. ASSUME plr # Off PROVE Within(e, plr.exp, v, h, t)
  BY <1>1, <1>3, <1>5, StaysEarned
<1> QED BY <1>2, <1>4, <1>5 DEF ExpInv, Within, v, h, t

\* A step that leaves all the experience where it is
LEMMA ExpRests ==
  ASSUME RoleInv, doc' = doc, info' = info, plr' = plr,
         Under(toMaster') = Under(toMaster), Gained' = Gained, earned' = earned
  PROVE  ExpInv'
<1>1. ExpInv
  BY DEF RoleInv
<1> QED BY <1>1 DEF ExpInv

\* A step that leaves the role alone
LEMMA LoginSame ==
  ASSUME RoleInv, doc' = doc, info' = info, plr' = plr,
         count'.crash \in Nat, count.crash <= count'.crash
  PROVE  LoginInv'
<1>1. LoginInv /\ count.crash \in Nat
  BY CountFields DEF RoleInv
<1> QED BY <1>1 DEF LoginInv

\* A step that leaves the packets and the place of the role alone
LEMMA PlaceSame ==
  ASSUME RoleInv, toMaster' = toMaster, arriving' = arriving,
         copy' = Off <=> copy = Off, copy # Off => copy'.session = copy.session,
         doc'.exp = doc.exp, plr' = Off <=> plr = Off,
         plr # Off => plr'.exp = plr.exp /\ plr'.saved = plr.saved,
         count'.login = count.login, count'.crash = count.crash,
         count'.requeue = count.requeue
  PROVE  SessionsInv' /\ (NoFault' => PlaceInv')
<1>1. SessionsInv /\ (NoFault => PlaceInv)
  BY DEF RoleInv
<1>2. SessionsInv'
  BY <1>1 DEF SessionsInv
<1>3. ASSUME NoFault' PROVE PlaceInv'
  <2>1. PlaceInv
    BY <1>1, <1>3 DEF NoFault
  <2>2. Saved' = Saved
    BY DEF Saved
  <2> QED BY <2>1, <2>2 DEF PlaceInv, Saved
<1> QED BY <1>2, <1>3

\* What receiving a packet leaves
LEMMA ReceiveFacts ==
  ASSUME toMaster \in Seq(ToMaster), NEW kind, Receive(kind)
  PROVE  /\ Head(toMaster) \in ToMaster /\ Head(toMaster).kind = kind
         /\ toMaster' \in Seq(ToMaster)
         /\ Under(toMaster) = Load(Head(toMaster)) + Under(toMaster')
         /\ Under(toMaster') \in Nat /\ Load(Head(toMaster)) \in Nat
         /\ 1 \in 1..Len(toMaster) /\ Head(toMaster) = toMaster[1]
         /\ \A i \in 1..Len(toMaster') :
              i + 1 \in 1..Len(toMaster) /\ toMaster'[i] = toMaster[i + 1]
<1>1. toMaster # <<>> /\ Head(toMaster).kind = kind /\ toMaster' = Tail(toMaster)
  BY DEF Receive
<1>2. Head(toMaster) \in ToMaster /\ toMaster' \in Seq(ToMaster)
  BY <1>1
<1>3. Under(toMaster) = Load(Head(toMaster)) + Under(toMaster') /\ Under(toMaster') \in Nat
  BY <1>1, <1>2, UnderTail, UnderNat
<1>4. Load(Head(toMaster)) \in Nat
  BY <1>2, PacketFields DEF Load
<1>5. /\ 1 \in 1..Len(toMaster) /\ Head(toMaster) = toMaster[1]
      /\ \A i \in 1..Len(toMaster') :
           i + 1 \in 1..Len(toMaster) /\ toMaster'[i] = toMaster[i + 1]
  BY <1>1
<1> QED BY <1>1, <1>2, <1>3, <1>4, <1>5

\* A packet is received that changes neither the place of the role nor whether its
\* data is saved.
LEMMA PlaceReceived ==
  ASSUME RoleInv, NEW kind, Receive(kind), arriving' = arriving,
         copy' = copy, Saved' <=> Saved, Saved => doc'.exp = doc.exp /\ plr'.exp = plr.exp,
         count' = count
  PROVE  SessionsInv' /\ (NoFault' => PlaceInv')
<1>1. SessionsInv /\ (NoFault => PlaceInv) /\ toMaster \in Seq(ToMaster)
  BY DEF RoleInv, RoleTypes
<1>2. \A i \in 1..Len(toMaster') : i \in Nat /\ i + 1 \in 1..Len(toMaster)
        /\ toMaster'[i] = toMaster[i + 1]
  BY <1>1, ReceiveFacts
<1>3. SessionsInv'
  BY <1>1, <1>2 DEF SessionsInv
<1>4. ASSUME NoFault' PROVE PlaceInv'
  <2>1. PlaceInv
    BY <1>1, <1>4 DEF NoFault
  <2>2. Saved' => /\ arriving' = Off /\ copy' = Off /\ doc'.exp = plr'.exp
                  /\ \A i \in 1..Len(toMaster') : toMaster'[i].kind # "sync"
    BY <1>2, <2>1 DEF PlaceInv
  <2>3. copy' # Off /\ copy'.session = count'.login => arriving' = Off
    BY <2>1 DEF PlaceInv
  <2>4. ASSUME NEW i \in 1..Len(toMaster'), Current(toMaster'[i], count'.login)
        PROVE  /\ arriving' = Off /\ copy' = Off /\ ~Saved'
               /\ \A j \in 1..Len(toMaster') :
                    /\ j > i => toMaster'[j].kind # "sync"
                    /\ Current(toMaster'[j], count'.login) => j = i
    <3>1. Current(toMaster[i + 1], count.login) /\ i + 1 \in 1..Len(toMaster)
      BY <1>2, <2>4 DEF Current
    <3>2. /\ arriving = Off /\ copy = Off /\ ~Saved
          /\ \A k \in 1..Len(toMaster) : (k > i + 1 => toMaster[k].kind # "sync")
               /\ (Current(toMaster[k], count.login) => k = i + 1)
      BY <2>1, <3>1 DEF PlaceInv
    <3>3. ASSUME NEW j \in 1..Len(toMaster')
          PROVE  /\ j > i => toMaster'[j].kind # "sync"
                 /\ Current(toMaster'[j], count'.login) => j = i
      <4>1. /\ j + 1 \in 1..Len(toMaster) /\ toMaster'[j] = toMaster[j + 1]
            /\ j \in Nat /\ i \in Nat
        BY <1>2
      <4>2. j + 1 > i + 1 => toMaster[j + 1].kind # "sync"
        BY <3>2, <4>1
      <4>3. Current(toMaster[j + 1], count.login) => j + 1 = i + 1
        BY <3>2, <4>1
      <4>4. Current(toMaster'[j], count'.login) => Current(toMaster[j + 1], count.login)
        BY <4>1 DEF Current
      <4> QED BY <4>1, <4>2, <4>3, <4>4
    <3> QED BY <3>2, <3>3
  <2> QED BY <2>2, <2>3, <2>4 DEF PlaceInv
<1> QED BY <1>3, <1>4

\* What sending a packet adds
LEMMA SendFacts ==
  ASSUME toMaster \in Seq(ToMaster), NEW m \in ToMaster, toMaster' = Append(toMaster, m)
  PROVE  /\ toMaster' \in Seq(ToMaster)
         /\ Under(toMaster') = Under(toMaster) + Load(m)
         /\ Under(toMaster') \in Nat /\ Under(toMaster) \in Nat /\ Load(m) \in Nat
         /\ \A i \in 1..Len(toMaster') : i \in Nat /\
              \/ i \in 1..Len(toMaster) /\ toMaster'[i] = toMaster[i]
              \/ i = Len(toMaster') /\ toMaster'[i] = m
         /\ Len(toMaster') \in Nat
<1>1. toMaster' \in Seq(ToMaster)
  OBVIOUS
<1>2. Under(toMaster') = Under(toMaster) + Load(m)
  BY UnderAppend
<1>3. Under(toMaster') \in Nat /\ Under(toMaster) \in Nat /\ Load(m) \in Nat
  BY <1>1, UnderNat, PacketFields DEF Load
<1>4. /\ Len(toMaster') \in Nat
      /\ \A i \in 1..Len(toMaster') : i \in Nat /\
           \/ i \in 1..Len(toMaster) /\ toMaster'[i] = toMaster[i]
           \/ i = Len(toMaster') /\ toMaster'[i] = m
  OBVIOUS
<1> QED BY <1>1, <1>2, <1>3, <1>4

\* ChoosePlayerEnterGame keeps the invariant.
LEMMA ChoosePlayerStep ==
  ASSUME RoleInv, NEW s \in Scenes, ChoosePlayerEnterGame(s)
  PROVE  RoleInv'
<1> DEFINE p == LoadFromDB
<1>1. RoleTypes
  BY DEF RoleInv
<1>2. /\ p = [exp |-> IF info.logged THEN doc.exp ELSE 0,
              coins |-> IF info.logged THEN doc.coins ELSE 0,
              first |-> ~info.logged, saved |-> FALSE]
      /\ plr = Off /\ arriving = Off /\ plr' = p
      /\ arriving' = [scene |-> s, level |-> info.level, coins |-> p.coins]
      /\ info' = [info EXCEPT !.logged = TRUE]
      /\ UNCHANGED <<doc, home, copy, toMaster, toScene, earned>>
  BY DEF ChoosePlayerEnterGame, LoadFromDB, EnterGameData
<1>3. /\ count' \in [login : Nat, money : Nat, move : Nat, crash : Nat, requeue : Nat]
      /\ count'.login = count.login + 1 /\ count'.crash = count.crash
      /\ count'.requeue = count.requeue
  BY <1>1, HappensFacts DEF ChoosePlayerEnterGame, RoleTypes
<1>4. p \in Players /\ p.exp <= doc.exp /\ p.exp \in Nat
  BY <1>1, <1>2, RoleAssumption DEF RoleTypes, Players
<1>5. p # Off /\ arriving' \in Entries
  BY <1>1, <1>2, <1>4, RoleAssumption DEF RoleTypes, Entries, Players
<1>6. (info.logged \/ p.first) /\ p.saved = FALSE
      /\ p.coins = (IF info.logged THEN doc.coins ELSE 0)
      /\ p.exp = (IF info.logged THEN doc.exp ELSE 0)
  BY <1>2
<1> HIDE DEF p
<1>7. RoleTypes'
  BY <1>1, <1>2, <1>3, <1>4, <1>5 DEF RoleTypes
<1>8. ExpInv'
  <2> DEFINE e == ExpOf(doc.level)
             u == Under(toMaster)
  <2>1. /\ e \in Nat /\ u \in Nat /\ Gained \in Nat /\ doc.exp \in Nat /\ earned \in Nat
        /\ doc.level = info.level /\ Within(e, doc.exp, u, Gained, earned)
    BY ExpFacts DEF Within
  <2>2. doc'.level = doc.level /\ info'.level = doc.level /\ Gained' = Gained
    BY <1>1, <1>2, <2>1 DEF RoleTypes, Gained
  <2>3. ExpOf(doc'.level) = e /\ ExpOf(info'.level) = e /\ Under(toMaster') = u
    BY <1>2, <2>2
  <2> HIDE DEF e, u
  <2>4. Within(e, p.exp, u, Gained, earned)
    BY <1>4, <2>1, LessWithin
  <2> QED BY <1>2, <2>1, <2>2, <2>3, <2>4 DEF ExpInv, Within
<1>9. LoginInv'
  <2>1. info'.logged = TRUE /\ doc' = doc /\ plr' = p
    BY <1>1, <1>2 DEF RoleTypes
  <2>2. p.coins = doc.coins \/ (count.crash > 0 /\ p.first)
    <3>1. LoginInv /\ count.crash \in Nat
      BY <1>1, CountFields DEF RoleInv
    <3> QED BY <1>6, <3>1 DEF LoginInv
  <2> QED BY <1>3, <2>1, <2>2 DEF LoginInv
<1>10. /\ count.login \in Nat
       /\ copy # Off => copy.session \in Nat /\ copy.session <= count.login
       /\ \A i \in 1..Len(toMaster) : toMaster[i].kind = "save" =>
            toMaster[i].session \in Nat /\ toMaster[i].session <= count.login
  BY SessionFacts
<1>11. SessionsInv'
  <2>1. copy' = copy /\ toMaster' = toMaster /\ count'.login = count.login + 1
    BY <1>2, <1>3
  <2>2. ASSUME NEW i \in 1..Len(toMaster), toMaster[i].kind = "save"
        PROVE  toMaster[i].session <= count.login + 1
    BY <1>10, <2>2
  <2>3. copy # Off => copy.session <= count.login + 1
    BY <1>10
  <2> QED BY <2>1, <2>2, <2>3 DEF SessionsInv
<1>12. PlaceInv'
  <2>1. ~Saved'
    BY <1>2, <1>6 DEF Saved
  <2>2. copy' = Off \/ copy'.session # count'.login
    BY <1>2, <1>3, <1>10
  <2>3. ASSUME NEW i \in 1..Len(toMaster), Current(toMaster[i], count'.login) PROVE FALSE
    <3>1. toMaster[i].kind = "save" /\ toMaster[i].session = count.login + 1
      BY <1>2, <1>3, <2>3 DEF Current
    <3> QED BY <1>10, <3>1
  <2>4. toMaster' = toMaster
    BY <1>2
  <2> QED BY <2>1, <2>2, <2>3, <2>4 DEF PlaceInv
<1> QED BY <1>7, <1>8, <1>9, <1>11, <1>12 DEF RoleInv

\* ChangeCoins keeps the invariant.
LEMMA ChangeCoinsStep ==
  ASSUME RoleInv, NEW n \in 0..CoinLimit, ChangeCoins(n)
  PROVE  RoleInv'
<1>1. RoleTypes
  BY DEF RoleInv
<1>2. /\ plr # Off /\ plr' = [plr EXCEPT !.coins = n]
      /\ doc' = [doc EXCEPT !.coins = n]
      /\ toScene' = Append(toScene, [scene |-> home, level |-> 0, coins |-> n])
      /\ info' = info /\ home' = home /\ arriving' = arriving /\ copy' = copy
      /\ toMaster' = toMaster /\ earned' = earned
  BY DEF ChangeCoins, SaveMoneyDataToDB, SyncToScene
<1>3. /\ count' \in [login : Nat, money : Nat, move : Nat, crash : Nat, requeue : Nat]
      /\ count'.login = count.login /\ count'.crash = count.crash
      /\ count'.requeue = count.requeue
  BY <1>1, HappensFacts DEF ChangeCoins, RoleTypes
<1>4. /\ plr' \in Players /\ plr' # Off /\ plr'.exp = plr.exp /\ plr'.saved = plr.saved
      /\ plr'.coins = n
  BY <1>1, <1>2, RoleAssumption DEF RoleTypes, Players
<1>5. /\ doc' \in [level : 1..MaxLevel, exp : Nat, coins : 0..CoinLimit, logged : BOOLEAN]
      /\ doc'.exp = doc.exp /\ doc'.level = doc.level /\ doc'.coins = n
      /\ doc'.logged = doc.logged
  BY <1>1, <1>2 DEF RoleTypes
<1>6. toScene' \in Seq(ToScene)
  <2>1. [scene |-> home, level |-> 0, coins |-> n] \in ToScene
    BY <1>1, RoleAssumption DEF ToScene, RoleTypes
  <2> QED BY <1>1, <1>2, <2>1 DEF RoleTypes
<1>7. RoleTypes'
  BY <1>1, <1>2, <1>3, <1>4, <1>5, <1>6 DEF RoleTypes
<1>8. ExpInv'
  <2>1. Under(toMaster') \in Nat /\ Gained' = Gained /\ Gained' \in Nat
    BY <1>1, <1>2, WayFacts, GainedNat DEF Gained
  <2>2. Under(toMaster') + Gained' + earned <= Under(toMaster) + Gained + earned'
        /\ earned' \in Nat
    BY <1>1, <1>2, <2>1, WayFacts, DocFields
  <2>3. doc'.level = doc.level /\ doc'.exp = doc.exp /\ info'.level = info.level
        /\ (plr' # Off => plr # Off /\ plr'.exp = plr.exp)
    BY <1>2, <1>4, <1>5
  <2> QED BY <2>1, <2>2, <2>3, ExpMoves
<1>9. LoginInv'
  <2>1. LoginInv
    BY DEF RoleInv
  <2>2. info.logged
    BY <1>2, <2>1 DEF LoginInv
  <2> QED BY <1>2, <1>4, <1>5, <2>2 DEF LoginInv
<1>10. SessionsInv' /\ (NoFault' => PlaceInv')
  BY <1>2, <1>3, <1>4, <1>5, PlaceSame
<1> QED BY <1>7, <1>8, <1>9, <1>10 DEF RoleInv

\* What the invariant needs of a level that is gained, or only of experience
LEMMA LevelFacts ==
  ASSUME RoleTypes, plr # Off, doc.level = info.level,
         NEW add \in Nat, UpdateLevel(add)
  PROVE  /\ info' = [info EXCEPT !.level = info'.level] /\ info'.level \in info.level..MaxLevel
         /\ plr' = [plr EXCEPT !.exp = plr'.exp] /\ plr'.exp \in Nat
         /\ ExpOf(info'.level) + plr'.exp = ExpOf(info.level) + plr.exp + add
         /\ \/ info'.level = info.level /\ UNCHANGED <<doc, toScene>>
            \/ /\ doc' = [doc EXCEPT !.level = info'.level, !.exp = plr'.exp]
               /\ toScene' = Append(toScene, [scene |-> home, level |-> info'.level, coins |-> -1])
<1> DEFINE sum == plr.exp + add
           level == Reached(info.level, sum)
           a == ExpOf(info.level)
           b == ExpOf(level)
           rest == sum - (b - a)
<1>1. plr.exp \in Nat /\ sum \in Nat /\ info.level \in 1..MaxLevel
  BY PlayerFields, DocFields
<1>2. level \in info.level..MaxLevel /\ b - a <= sum /\ level \in 1..MaxLevel
  <2>1. level \in info.level..MaxLevel /\ b - a <= sum
    <3> HIDE DEF sum
    <3> QED BY <1>1, ReachedFacts
  <2> HIDE DEF level
  <2> QED BY <1>1, <2>1
<1>3. a \in Nat /\ b \in Nat
  BY <1>1, <1>2, ExpOfNat
<1>4. /\ info' = [info EXCEPT !.level = level] /\ plr' = [plr EXCEPT !.exp = rest]
      /\ IF level = info.level THEN UNCHANGED <<doc, toScene>>
         ELSE /\ doc' = [doc EXCEPT !.level = level, !.exp = rest]
              /\ toScene' = Append(toScene, [scene |-> home, level |-> level, coins |-> -1])
  BY DEF UpdateLevel, SyncToScene
<1> HIDE DEF level, b, a
<1>5. rest \in Nat /\ b + rest = a + plr.exp + add
  <2>1. rest = sum - (b - a) /\ sum = plr.exp + add
    OBVIOUS
  <2> DEFINE x == plr.exp
  <2>2. x \in Nat /\ sum = x + add
    BY <1>1, <2>1
  <2> HIDE DEF rest, sum, x
  <2>3. rest \in Nat /\ b + rest = a + x + add
    BY <1>2, <1>3, <2>1, <2>2
  <2> QED BY <2>3 DEF x
<1> HIDE DEF rest
<1>6. info'.level = level
  BY <1>4 DEF RoleTypes
<1>7. plr'.exp = rest
  BY <1>4 DEF RoleTypes, Players
<1>8. ExpOf(info'.level) + plr'.exp = ExpOf(info.level) + plr.exp + add
  BY <1>5, <1>6, <1>7 DEF a, b
<1> QED BY <1>2, <1>4, <1>5, <1>6, <1>7, <1>8

\* HandleSyncObjectData keeps the invariant.
LEMMA HandleSyncStep ==
  ASSUME RoleInv, HandleSyncObjectData
  PROVE  RoleInv'
<1> DEFINE m == Head(toMaster)
<1>1. RoleTypes /\ toMaster \in Seq(ToMaster)
  BY DEF RoleInv, RoleTypes
<1>2. /\ Receive("sync")
      /\ home' = home /\ arriving' = arriving /\ copy' = copy
      /\ earned' = earned /\ count' = count
  BY DEF HandleSyncObjectData
<1>3. /\ m \in ToMaster /\ m.kind = "sync" /\ toMaster' \in Seq(ToMaster)
      /\ Under(toMaster) = Load(m) + Under(toMaster') /\ Under(toMaster') \in Nat
      /\ 1 \in 1..Len(toMaster) /\ m = toMaster[1]
  BY <1>1, <1>2, ReceiveFacts
<1> HIDE DEF m
<1>4. Load(m) = m.exp /\ m.exp \in Nat
  BY <1>3, PacketFields DEF Load
<1>5. Gained' = Gained
  BY <1>2 DEF Gained
<1>6. CASE plr # Off /\ m.exp > 0
  <2>1. UpdateLevel(m.exp) /\ doc.level = info.level
    BY <1>6, ExpFacts DEF HandleSyncObjectData, m
  <2>2. /\ info' = [info EXCEPT !.level = info'.level] /\ info'.level \in info.level..MaxLevel
        /\ plr' = [plr EXCEPT !.exp = plr'.exp] /\ plr'.exp \in Nat
        /\ ExpOf(info'.level) + plr'.exp = ExpOf(info.level) + plr.exp + m.exp
        /\ \/ info'.level = info.level /\ UNCHANGED <<doc, toScene>>
           \/ /\ doc' = [doc EXCEPT !.level = info'.level, !.exp = plr'.exp]
              /\ toScene' = Append(toScene, [scene |-> home, level |-> info'.level, coins |-> -1])
    BY <1>1, <1>4, <1>6, <2>1, LevelFacts
  <2>3. /\ info' \in [level : 1..MaxLevel, logged : BOOLEAN] /\ info'.level \in 1..MaxLevel
        /\ info'.logged = info.logged
    <3>1. info'.level \in 1..MaxLevel
      <4>1. info.level \in 1..MaxLevel
        BY <1>1, DocFields
      <4> QED BY <2>2, <4>1
    <3> QED BY <1>1, <2>2, <3>1 DEF RoleTypes
  <2>4. /\ plr' \in Players /\ plr' # Off /\ plr'.coins = plr.coins
        /\ plr'.first = plr.first /\ plr'.saved = plr.saved
    BY <1>1, <1>6, <2>2, RoleAssumption DEF RoleTypes, Players
  <2>5. /\ doc' \in [level : 1..MaxLevel, exp : Nat, coins : 0..CoinLimit, logged : BOOLEAN]
        /\ doc'.coins = doc.coins /\ doc'.logged = doc.logged /\ doc'.level = info'.level
        /\ doc' = doc \/ doc'.exp = plr'.exp
    BY <1>1, <2>1, <2>2, <2>3 DEF RoleTypes
  <2>6. toScene' \in Seq(ToScene)
    <3>1. -1 \in -1..CoinLimit /\ info'.level \in 0..MaxLevel /\ home \in Scenes \cup {0}
      <4>1. -1 \in -1..CoinLimit
        BY ConstantFacts
      <4>2. info'.level \in 0..MaxLevel
        BY <2>3, ConstantFacts
      <4>3. home \in Scenes \cup {0}
        BY <1>1 DEF RoleTypes
      <4> QED BY <4>1, <4>2, <4>3
    <3>2. [scene |-> home, level |-> info'.level, coins |-> -1] \in ToScene
      BY <3>1 DEF ToScene
    <3>3. toScene \in Seq(ToScene)
      BY <1>1 DEF RoleTypes
    <3>4. CASE toScene' = toScene
      BY <3>3, <3>4
    <3>5. CASE toScene' = Append(toScene, [scene |-> home, level |-> info'.level, coins |-> -1])
      <4> DEFINE p == [scene |-> home, level |-> info'.level, coins |-> -1]
      <4>1. p \in ToScene /\ toScene' = Append(toScene, p)
        BY <3>2, <3>5
      <4> HIDE DEF p
      <4> QED BY <3>3, <4>1
    <3> QED BY <2>2, <3>4, <3>5
  <2>7. RoleTypes'
    BY <1>1, <1>2, <1>3, <2>3, <2>4, <2>5, <2>6 DEF RoleTypes
  <2>8. ExpInv'
    <3> DEFINE e == ExpOf(info.level)
               f == ExpOf(info'.level)
               u == Under(toMaster)
               v == Under(toMaster')
    <3>1. /\ e \in Nat /\ doc.exp \in Nat /\ plr.exp \in Nat /\ u \in Nat /\ Gained \in Nat
          /\ earned \in Nat /\ e + doc.exp + u + Gained <= earned
          /\ e + plr.exp + u + Gained <= earned
      BY <1>6, ExpFacts
    <3>2. f \in Nat /\ v \in Nat /\ u = m.exp + v /\ f + plr'.exp = e + plr.exp + m.exp
      BY <1>3, <1>4, <2>2, <2>3, ExpOfNat
    <3> HIDE DEF e, f, u, v
    <3>3. f + plr'.exp + v + Gained <= earned
      <4> DEFINE y == plr'.exp
                 x == plr.exp
                 add == m.exp
                 g == Gained
      <4>1. /\ y \in Nat /\ x \in Nat /\ add \in Nat /\ g \in Nat
            /\ e + x + u + g <= earned /\ f + y = e + x + add /\ u = add + v
        BY <1>4, <2>2, <3>1, <3>2
      <4> HIDE DEF x, y, add, g
      <4>2. Within(e, x, u, g, earned)
        BY <4>1 DEF Within
      <4>3. Within(f, y, v, g, earned)
        BY <3>1, <3>2, <4>1, <4>2, AddedWithin
      <4> QED BY <4>3 DEF Within, y, g
    <3>4. f + doc'.exp + v + Gained <= earned
      <4>1. CASE doc'.exp = plr'.exp
        BY <3>3, <4>1
      <4>2. CASE doc' = doc
        <5>1. f = e
          BY <2>1, <2>5, <4>2 DEF e, f
        <5>2. e + doc.exp + v + Gained <= earned
          <6> DEFINE x == doc.exp
                     g == Gained
                     add == m.exp
          <6>1. /\ e \in Nat /\ x \in Nat /\ g \in Nat /\ add \in Nat /\ u \in Nat
                /\ v \in Nat /\ earned \in Nat /\ u = add + v
            BY <1>4, <3>1, <3>2
          <6>2. Within(e, x, u, g, earned)
            BY <3>1 DEF Within
          <6> HIDE DEF x, g, add
          <6>3. Within(e, x, v, g, earned)
            BY <6>1, <6>2, TakenWithin
          <6> QED BY <6>3 DEF Within, x, g
        <5> QED BY <4>2, <5>1, <5>2
      <4> QED BY <2>5, <4>1, <4>2
    <3> QED BY <1>2, <1>5, <2>5, <3>3, <3>4 DEF ExpInv, f, v
  <2>9. LoginInv'
    <3>1. LoginInv /\ info.logged
      BY <1>6 DEF RoleInv, LoginInv
    <3> QED BY <1>2, <1>6, <2>3, <2>4, <2>5, <3>1 DEF LoginInv
  <2>10. Saved' <=> Saved
    BY <1>6, <2>4 DEF Saved
  <2>11. CASE Saved /\ NoFault
    <3>1. PlaceInv
      BY <2>11 DEF RoleInv
    <3> QED BY <1>3, <2>11, <3>1 DEF PlaceInv
  <2>12. CASE ~Saved
    <3>1. SessionsInv' /\ (NoFault' => PlaceInv')
      BY <1>2, <2>10, <2>12, PlaceReceived
    <3> QED BY <3>1, <2>7, <2>8, <2>9 DEF RoleInv
  <2>13. CASE ~NoFault
    <3>1. ~NoFault' /\ SessionsInv
      BY <1>2, <2>13 DEF NoFault, RoleInv
    <3>2. SessionsInv'
      BY <1>1, <1>2, <3>1, ReceiveFacts DEF SessionsInv
    <3> QED BY <3>1, <3>2, <2>7, <2>8, <2>9 DEF RoleInv
  <2> QED BY <2>7, <2>8, <2>9, <2>11, <2>12, <2>13 DEF RoleInv
<1>7. CASE plr = Off \/ ~(m.exp > 0)
  <2>1. info' = info /\ plr' = plr /\ doc' = doc /\ toScene' = toScene
    BY <1>7 DEF HandleSyncObjectData, m
  <2>2. RoleTypes'
    BY <1>1, <1>2, <1>3, <2>1 DEF RoleTypes
  <2>3. ExpInv'
    <3>1. Under(toMaster') + Gained' + earned <= Under(toMaster) + Gained + earned'
          /\ Gained' \in Nat /\ earned' \in Nat
      <4>1. Gained \in Nat /\ earned \in Nat /\ Under(toMaster) \in Nat
        BY <1>1, GainedNat, DocFields, WayFacts
      <4> DEFINE v == Under(toMaster')
                 add == Load(m)
                 g == Gained
      <4>2. /\ Under(toMaster) = add + v /\ add \in Nat /\ v \in Nat /\ g \in Nat
            /\ earned' = earned /\ Gained' = g
        BY <1>2, <1>3, <1>4, <1>5, <4>1
      <4> HIDE DEF v, add, g
      <4>3. v + g + earned <= (add + v) + g + earned
        BY <4>1, <4>2
      <4> QED BY <4>1, <4>2, <4>3 DEF v, g
    <3> QED BY <1>3, <2>1, <3>1, ExpMoves
  <2>4. LoginInv'
    <3>1. count'.crash \in Nat /\ count.crash <= count'.crash
      BY <1>1, <1>2, CountFields
    <3> QED BY <2>1, <3>1, LoginSame
  <2>5. SessionsInv' /\ (NoFault' => PlaceInv')
    <3>1. Saved' <=> Saved
      BY <2>1 DEF Saved
    <3> QED BY <1>2, <2>1, <3>1, PlaceReceived
  <2> QED BY <2>2, <2>3, <2>4, <2>5 DEF RoleInv
<1> QED BY <1>6, <1>7

\* HandleEnterSceneNotice keeps the invariant.
LEMMA HandleEnterStep ==
  ASSUME RoleInv, HandleEnterSceneNotice
  PROVE  RoleInv'
<1> DEFINE m == Head(toMaster)
<1>1. RoleTypes /\ toMaster \in Seq(ToMaster)
  BY DEF RoleInv, RoleTypes
<1>2. /\ Receive("enter") /\ home' = IF plr # Off THEN m.scene ELSE home
      /\ doc' = doc /\ info' = info /\ plr' = plr /\ arriving' = arriving /\ copy' = copy
      /\ toScene' = toScene /\ earned' = earned /\ count' = count
  BY DEF HandleEnterSceneNotice
<1>3. /\ m \in ToMaster /\ m.kind = "enter" /\ toMaster' \in Seq(ToMaster)
      /\ Under(toMaster) = Load(m) + Under(toMaster') /\ Under(toMaster') \in Nat
  BY <1>1, <1>2, ReceiveFacts
<1> HIDE DEF m
<1>4. m.scene \in Scenes /\ Load(m) = 0
  BY <1>3, PacketFields DEF Load
<1>5. RoleTypes'
  BY <1>1, <1>2, <1>3, <1>4 DEF RoleTypes
<1>6. ExpInv'
  <2>1. Under(toMaster') = Under(toMaster) /\ Gained' = Gained
    BY <1>2, <1>3, <1>4 DEF Gained
  <2> QED BY <1>1, <1>2, <2>1, ExpRests
<1>7. LoginInv'
  <2>1. count'.crash \in Nat /\ count.crash <= count'.crash
    BY <1>1, <1>2, CountFields
  <2> QED BY <1>2, <2>1, LoginSame
<1>8. SessionsInv' /\ (NoFault' => PlaceInv')
  <2>1. Saved' <=> Saved
    BY <1>2 DEF Saved
  <2> QED BY <1>2, <2>1, PlaceReceived
<1> QED BY <1>5, <1>6, <1>7, <1>8 DEF RoleInv

\* What is handed to the next scene server, and what is saved
LEMMA SavedFacts ==
  ASSUME RoleTypes, plr # Off
  PROVE  /\ \A s \in Scenes : EnterGameData(s, plr) \in Entries
         /\ SavePlayerToDB
              \in [level : 1..MaxLevel, exp : Nat, coins : 0..CoinLimit, logged : BOOLEAN]
         /\ SavePlayerToDB.level = info.level /\ SavePlayerToDB.exp = plr.exp
         /\ SavePlayerToDB.coins = doc.coins /\ SavePlayerToDB.logged = TRUE
BY PlayerFields DEF RoleTypes, EnterGameData, Entries, SavePlayerToDB

\* The same with the mark of a role whose data is saved
LEMMA MarkFacts ==
  ASSUME RoleTypes, plr # Off, plr' = [plr EXCEPT !.saved = TRUE]
  PROVE  /\ plr' \in Players /\ plr' # Off /\ plr'.exp = plr.exp /\ plr'.coins = plr.coins
         /\ plr'.first = plr.first /\ plr'.saved = TRUE
<1>1. plr \in Players
  BY PlayerFields
<1>2. /\ plr' \in Players /\ plr'.exp = plr.exp /\ plr'.coins = plr.coins
      /\ plr'.first = plr.first /\ plr'.saved = TRUE
  BY <1>1 DEF Players
<1> QED BY <1>2, ConstantFacts

\* HandleSavePlayerDataReq keeps the invariant.
LEMMA HandleSaveStep ==
  ASSUME RoleInv, HandleSavePlayerData
  PROVE  RoleInv'
<1> DEFINE m == Head(toMaster)
<1>1. RoleTypes /\ toMaster \in Seq(ToMaster) /\ SessionsInv /\ ExpInv /\ LoginInv
  BY DEF RoleInv, RoleTypes
<1>2. /\ Receive("save") /\ info' = info /\ home' = home /\ copy' = copy
      /\ toScene' = toScene /\ earned' = earned /\ count' = count
  BY DEF HandleSavePlayerData
<1>3. /\ m \in ToMaster /\ m.kind = "save" /\ toMaster' \in Seq(ToMaster)
      /\ Under(toMaster) = Load(m) + Under(toMaster') /\ Under(toMaster') \in Nat
      /\ 1 \in 1..Len(toMaster) /\ m = toMaster[1]
      /\ \A i \in 1..Len(toMaster') :
           i + 1 \in 1..Len(toMaster) /\ toMaster'[i] = toMaster[i + 1]
  BY <1>1, <1>2, ReceiveFacts
<1>4. IF plr = Off \/ m.session # count.login THEN UNCHANGED <<doc, plr, arriving>>
      ELSE IF m.next # 0
        THEN arriving' = EnterGameData(m.next, plr) /\ UNCHANGED <<doc, plr>>
        ELSE /\ doc' = SavePlayerToDB
             /\ plr' = [plr EXCEPT !.saved = TRUE]
             /\ UNCHANGED arriving
  BY DEF HandleSavePlayerData
<1> HIDE DEF m
<1>5. m.next \in Scenes \cup {0} /\ m.session \in Nat /\ Load(m) = 0
  BY <1>3, PacketFields DEF Load
<1>6. Under(toMaster') = Under(toMaster) /\ Gained' = Gained
  BY <1>2, <1>3, <1>5 DEF Gained
<1>7. count'.crash \in Nat /\ count.crash <= count'.crash
  BY <1>1, <1>2, CountFields
<1>8. SessionsInv'
  BY <1>1, <1>2, <1>3 DEF SessionsInv
<1>9. ASSUME plr # Off, m.session = count.login, NoFault'
      PROVE  /\ arriving = Off /\ copy = Off /\ ~Saved
             /\ \A i \in 1..Len(toMaster') :
                  toMaster'[i].kind # "sync" /\ ~Current(toMaster'[i], count'.login)
  <2>1. PlaceInv /\ Current(toMaster[1], count.login)
    BY <1>2, <1>3, <1>9 DEF RoleInv, NoFault, Current
  <2>2. /\ arriving = Off /\ copy = Off /\ ~Saved
        /\ \A j \in 1..Len(toMaster) : (j > 1 => toMaster[j].kind # "sync")
             /\ (Current(toMaster[j], count.login) => j = 1)
    BY <1>3, <2>1 DEF PlaceInv
  <2>3. ASSUME NEW i \in 1..Len(toMaster')
        PROVE  toMaster'[i].kind # "sync" /\ ~Current(toMaster'[i], count'.login)
    <3>1. i + 1 \in 1..Len(toMaster) /\ toMaster'[i] = toMaster[i + 1]
      BY <1>3
    <3>2. i + 1 > 1 /\ i + 1 # 1
      OBVIOUS
    <3> QED BY <1>2, <2>2, <3>1, <3>2
  <2> QED BY <2>2, <2>3
<1>10. CASE plr = Off \/ m.session # count.login
  <2>1. doc' = doc /\ plr' = plr /\ arriving' = arriving
    BY <1>4, <1>10
  <2>2. RoleTypes'
    BY <1>1, <1>2, <1>3, <2>1 DEF RoleTypes
  <2>3. ExpInv'
    BY <1>1, <1>2, <1>6, <2>1, ExpRests
  <2>4. LoginInv'
    BY <1>2, <1>7, <2>1, LoginSame
  <2>5. SessionsInv' /\ (NoFault' => PlaceInv')
    <3>1. Saved' <=> Saved
      BY <2>1 DEF Saved
    <3> QED BY <1>2, <2>1, <3>1, PlaceReceived
  <2> QED BY <2>2, <2>3, <2>4, <2>5 DEF RoleInv
<1>11. CASE plr # Off /\ m.session = count.login /\ m.next # 0
  <2>1. doc' = doc /\ plr' = plr /\ arriving' = EnterGameData(m.next, plr)
    BY <1>4, <1>11
  <2>2. RoleTypes'
    <3>1. arriving' \in Entries
      BY <1>1, <1>5, <1>11, <2>1, SavedFacts
    <3> QED BY <1>1, <1>2, <1>3, <2>1, <3>1 DEF RoleTypes
  <2>3. ExpInv'
    BY <1>1, <1>2, <1>6, <2>1, ExpRests
  <2>4. LoginInv'
    BY <1>2, <1>7, <2>1, LoginSame
  <2>5. ASSUME NoFault' PROVE PlaceInv'
    <3>1. ~Saved' /\ copy' = Off
      BY <1>2, <1>9, <1>11, <2>1, <2>5 DEF Saved
    <3> QED BY <1>9, <1>11, <2>5, <3>1 DEF PlaceInv
  <2> QED BY <1>8, <2>2, <2>3, <2>4, <2>5 DEF RoleInv
<1>12. CASE plr # Off /\ m.session = count.login /\ m.next = 0
  <2>1. /\ doc' = SavePlayerToDB /\ plr' = [plr EXCEPT !.saved = TRUE]
        /\ arriving' = arriving
    BY <1>4, <1>12
  <2>2. /\ doc' \in [level : 1..MaxLevel, exp : Nat, coins : 0..CoinLimit, logged : BOOLEAN]
        /\ doc'.level = info.level /\ doc'.exp = plr.exp /\ doc'.coins = doc.coins
        /\ doc'.logged = TRUE
    BY <1>1, <1>12, <2>1, SavedFacts
  <2>3. /\ plr' \in Players /\ plr' # Off /\ plr'.exp = plr.exp /\ plr'.coins = plr.coins
        /\ plr'.first = plr.first /\ plr'.saved = TRUE
    BY <1>1, <1>12, <2>1, MarkFacts
  <2>4. RoleTypes'
    BY <1>1, <1>2, <1>3, <2>1, <2>2, <2>3 DEF RoleTypes
  <2>5. ExpInv'
    BY <1>1, <1>2, <1>6, <1>12, <2>2, <2>3 DEF ExpInv
  <2>6. LoginInv'
    BY <1>1, <1>2, <1>12, <2>2, <2>3 DEF LoginInv
  <2>7. ASSUME NoFault' PROVE PlaceInv'
    <3>1. arriving' = Off /\ copy' = Off
      BY <1>2, <1>9, <1>12, <2>1, <2>7
    <3> QED BY <1>9, <1>12, <2>2, <2>3, <2>7, <3>1 DEF PlaceInv
  <2> QED BY <1>8, <2>4, <2>5, <2>6, <2>7 DEF RoleInv
<1> QED BY <1>10, <1>11, <1>12

\* LuaPlayer:Logout keeps the invariant.
LEMMA LogoutPlayerStep ==
  ASSUME RoleInv, LogoutPlayer
  PROVE  RoleInv'
<1>1. RoleTypes /\ SessionsInv /\ ExpInv /\ LoginInv /\ plr # Off
  BY DEF RoleInv, LogoutPlayer
<1>2. /\ doc' = IF plr.saved THEN doc ELSE SavePlayerToDB
      /\ plr' = Off /\ home' = 0 /\ arriving' = Off /\ info' = info /\ copy' = copy
      /\ toMaster' = toMaster /\ toScene' = toScene /\ earned' = earned /\ count' = count
  BY DEF LogoutPlayer
<1>3. /\ doc' \in [level : 1..MaxLevel, exp : Nat, coins : 0..CoinLimit, logged : BOOLEAN]
      /\ doc'.level = info.level /\ (doc'.exp = plr.exp \/ doc'.exp = doc.exp)
      /\ doc.level = info.level
  <2>1. doc.level = info.level
    BY <1>1 DEF ExpInv
  <2>2. CASE doc' = doc
    BY <1>1, <2>1, <2>2 DEF RoleTypes
  <2>3. CASE doc' = SavePlayerToDB
    BY <1>1, <2>1, <2>3, SavedFacts
  <2> QED BY <1>2, <2>2, <2>3
<1>4. RoleTypes'
  BY <1>1, <1>2, <1>3 DEF RoleTypes
<1>5. ExpInv'
  <2>1. Under(toMaster') = Under(toMaster) /\ Gained' = Gained
    BY <1>2 DEF Gained
  <2> QED BY <1>1, <1>2, <1>3, <2>1 DEF ExpInv
<1>6. LoginInv'
  BY <1>1, <1>2 DEF LoginInv
<1>7. SessionsInv'
  BY <1>1, <1>2 DEF SessionsInv
<1>8. ASSUME NoFault' PROVE PlaceInv'
  <2>1. PlaceInv /\ ~Saved'
    BY <1>2, <1>8 DEF RoleInv, NoFault, Saved
  <2> QED BY <1>2, <2>1 DEF PlaceInv
<1> QED BY <1>4, <1>5, <1>6, <1>7, <1>8 DEF RoleInv

\* A stop of the central server keeps the invariant.
LEMMA MasterCrashStep ==
  ASSUME RoleInv, MasterCrash
  PROVE  RoleInv'
<1>1. RoleTypes /\ SessionsInv /\ ExpInv /\ LoginInv
  BY DEF RoleInv
<1>2. /\ info' = [level |-> doc.level, logged |-> doc.logged]
      /\ plr' = Off /\ home' = 0 /\ arriving' = Off /\ toMaster' = <<>> /\ toScene' = <<>>
      /\ doc' = doc /\ copy' = copy /\ earned' = earned
  BY DEF MasterCrash
<1>3. /\ count' \in [login : Nat, money : Nat, move : Nat, crash : Nat, requeue : Nat]
      /\ count'.login = count.login /\ count'.crash = count.crash + 1 /\ count'.crash # 0
      /\ count'.requeue \in Nat /\ ~NoFault'
  <2>1. Happens("crash", MaxFaults)
    BY DEF MasterCrash, Fault
  <2>2. /\ count' \in [login : Nat, money : Nat, move : Nat, crash : Nat, requeue : Nat]
        /\ count'.login = count.login /\ count'.crash = count.crash + 1
    BY <1>1, <2>1, HappensFacts DEF RoleTypes
  <2>3. count'.crash \in Nat /\ count'.requeue \in Nat /\ count.crash \in Nat
    BY <1>1, <2>2, CountFields
  <2> QED BY <2>2, <2>3 DEF NoFault
<1>4. info' \in [level : 1..MaxLevel, logged : BOOLEAN] /\ info'.level = doc.level
      /\ info'.logged = doc.logged
  BY <1>1, <1>2 DEF RoleTypes
<1>5. RoleTypes'
  BY <1>1, <1>2, <1>3, <1>4 DEF RoleTypes
<1>6. ExpInv'
  <2>1. Under(toMaster') = 0 /\ Gained' = Gained
    BY <1>2, UnderEmpty DEF Gained
  <2>2. /\ Under(toMaster) \in Nat /\ Gained \in Nat /\ earned \in Nat
        /\ doc.level = info.level
    BY ExpFacts
  <2>3. Under(toMaster') + Gained' + earned <= Under(toMaster) + Gained + earned'
    BY <1>2, <2>1, <2>2
  <2>4. /\ doc'.level = doc.level /\ doc'.exp = doc.exp /\ info'.level = info.level
        /\ (plr' # Off => plr # Off /\ plr'.exp = plr.exp)
    BY <1>2, <1>4, <2>2
  <2>5. Under(toMaster') \in Nat /\ Gained' \in Nat /\ earned' \in Nat
    BY <1>2, <2>1, <2>2
  <2> QED BY <2>3, <2>4, <2>5, ExpMoves
<1>7. LoginInv'
  BY <1>2, <1>3, <1>4 DEF LoginInv
<1>8. SessionsInv'
  BY <1>1, <1>2, <1>3 DEF SessionsInv
<1> QED BY <1>3, <1>5, <1>6, <1>7, <1>8 DEF RoleInv

\* CreatePlayer keeps the invariant.
LEMMA CreatePlayerStep ==
  ASSUME RoleInv, CreatePlayer
  PROVE  RoleInv'
<1> DEFINE m == [kind |-> "enter", scene |-> arriving.scene]
<1>1. RoleTypes /\ toMaster \in Seq(ToMaster) /\ SessionsInv
  BY DEF RoleInv, RoleTypes
<1>2. /\ arriving # Off /\ copy = Off /\ arriving' = Off /\ toMaster' = Append(toMaster, m)
      /\ copy' = [at |-> arriving.scene, level |-> arriving.level, coins |-> arriving.coins,
                  gained |-> 0, lua |-> FALSE, cpp |-> TRUE, next |-> Off,
                  session |-> count.login]
      /\ doc' = doc /\ info' = info /\ plr' = plr /\ home' = home /\ toScene' = toScene
      /\ earned' = earned /\ count' = count
  BY DEF CreatePlayer
<1>3. /\ arriving.scene \in Scenes /\ arriving.level \in 1..MaxLevel
      /\ arriving.coins \in 0..CoinLimit
  BY <1>1, <1>2 DEF RoleTypes, Entries
<1>4. copy' \in Copies /\ copy' # Off /\ copy'.gained = 0 /\ copy'.session = count.login
  <2>1. count.login \in Nat
    BY <1>1, CountFields
  <2>2. copy' \in Copies
    BY <1>2, <1>3, <2>1 DEF Copies
  <2> QED BY <1>2, <2>2, ConstantFacts
<1>5. m \in ToMaster /\ m.kind = "enter" /\ Load(m) = 0
  BY <1>3 DEF ToMaster, EnterPackets, Load
<1> HIDE DEF m
<1>6. /\ toMaster' \in Seq(ToMaster) /\ Under(toMaster') = Under(toMaster) + Load(m)
      /\ Under(toMaster) \in Nat
      /\ \A i \in 1..Len(toMaster') : i \in Nat /\
           \/ i \in 1..Len(toMaster) /\ toMaster'[i] = toMaster[i]
           \/ i = Len(toMaster') /\ toMaster'[i] = m
  BY <1>1, <1>2, <1>5, SendFacts
<1>7. RoleTypes'
  BY <1>1, <1>2, <1>4, <1>6 DEF RoleTypes
<1>8. ExpInv'
  <2>1. Under(toMaster') = Under(toMaster) /\ Gained' = Gained
    BY <1>2, <1>4, <1>5, <1>6 DEF Gained
  <2> QED BY <1>2, <2>1, ExpRests
<1>9. LoginInv'
  <2>1. count'.crash \in Nat /\ count.crash <= count'.crash
    BY <1>1, <1>2, CountFields
  <2> QED BY <1>2, <2>1, LoginSame
<1>10. SessionsInv'
  <2>1. count.login <= count.login
    BY <1>1, CountFields
  <2> QED BY <1>1, <1>2, <1>4, <1>5, <1>6, <2>1 DEF SessionsInv
<1>11. ASSUME NoFault' PROVE PlaceInv'
  <2>1. PlaceInv
    BY <1>2, <1>11 DEF RoleInv, NoFault
  <2>2. ~Saved'
    BY <1>2, <2>1 DEF PlaceInv, Saved
  <2>3. ASSUME NEW i \in 1..Len(toMaster') PROVE ~Current(toMaster'[i], count'.login)
    <3>1. ~Current(m, count.login)
      BY <1>5 DEF Current
    <3>2. \A k \in 1..Len(toMaster) : ~Current(toMaster[k], count.login)
      BY <1>2, <2>1 DEF PlaceInv
    <3> QED BY <1>2, <1>6, <3>1, <3>2
  <2> QED BY <1>2, <2>2, <2>3 DEF PlaceInv
<1> QED BY <1>7, <1>8, <1>9, <1>10, <1>11 DEF RoleInv

\* AddPlayerExp keeps the invariant.
LEMMA AddPlayerExpStep ==
  ASSUME RoleInv, NEW e \in 1..MaxExp, AddPlayerExp(e)
  PROVE  RoleInv'
<1>1. RoleTypes /\ copy # Off
  BY DEF RoleInv, AddPlayerExp, IsInWorld
<1>2. /\ earned' = earned + e
      /\ copy' = SetDataSyncFlag([copy EXCEPT !.gained = @ + e])
      /\ doc' = doc /\ info' = info /\ plr' = plr /\ home' = home /\ arriving' = arriving
      /\ toMaster' = toMaster /\ toScene' = toScene /\ count' = count
  BY DEF AddPlayerExp
<1>3. e \in Nat /\ copy.gained \in Nat /\ earned \in Nat /\ copy \in Copies
  BY <1>1, CopyFields, DocFields
<1>4. /\ copy' \in Copies /\ copy' # Off /\ copy'.gained = copy.gained + e
      /\ copy'.session = copy.session
  <2> DEFINE g == copy.gained + e
             c == [copy EXCEPT !.gained = g]
  <2>1. g \in Nat
    BY <1>3
  <2> HIDE DEF g
  <2>2. c \in Copies /\ c.gained = g /\ c.session = copy.session
    BY <1>3, <2>1 DEF Copies
  <2>3. copy' = SetDataSyncFlag(c)
    BY <1>2 DEF g
  <2> HIDE DEF c
  <2>4. copy' \in Copies /\ copy'.gained = g /\ copy'.session = copy.session
    BY <2>2, <2>3 DEF SetDataSyncFlag, Copies
  <2> QED BY <2>4, ConstantFacts DEF g
<1>5. RoleTypes'
  <2>1. earned' \in Nat
    BY <1>2, <1>3
  <2> QED BY <1>1, <1>2, <1>4, <2>1 DEF RoleTypes
<1>6. ExpInv'
  <2>1. Gained = copy.gained /\ Gained' = copy.gained + e
    BY <1>1, <1>4 DEF Gained
  <2>2. Under(toMaster) \in Nat /\ Under(toMaster') = Under(toMaster)
    BY <1>1, <1>2, WayFacts
  <2> DEFINE u == Under(toMaster)
             v == Under(toMaster')
             g == copy.gained
  <2>3. u \in Nat /\ v = u /\ g \in Nat /\ Gained = g /\ Gained' = g + e
    BY <1>3, <2>1, <2>2
  <2> HIDE DEF u, v, g
  <2>4. v \in Nat /\ Gained' \in Nat /\ earned' \in Nat
        /\ v + Gained' + earned <= u + Gained + earned'
    <3>1. v + (g + e) + earned <= u + g + (earned + e)
      BY <1>3, <2>3
    <3>2. v \in Nat /\ g + e \in Nat /\ earned + e \in Nat
      BY <1>3, <2>3
    <3> QED BY <1>2, <2>3, <3>1, <3>2
  <2> QED BY <1>2, <2>4, ExpMoves DEF u, v
<1>7. LoginInv'
  <2>1. count'.crash \in Nat /\ count.crash <= count'.crash
    BY <1>1, <1>2, CountFields
  <2> QED BY <1>2, <2>1, LoginSame
<1>8. SessionsInv' /\ (NoFault' => PlaceInv')
  BY <1>1, <1>2, <1>4, PlaceSame
<1> QED BY <1>5, <1>6, <1>7, <1>8 DEF RoleInv

\* SyncUpdateDataMasterServer keeps the invariant.
LEMMA SyncUpdateStep ==
  ASSUME RoleInv, SyncUpdateDataMasterServer
  PROVE  RoleInv'
<1> DEFINE m == [kind |-> "sync", exp |-> copy.gained]
<1>1. RoleTypes /\ toMaster \in Seq(ToMaster) /\ SessionsInv /\ copy # Off
  BY DEF RoleInv, RoleTypes, SyncUpdateDataMasterServer, IsInWorld
<1>2. /\ toMaster' = Append(toMaster, m)
      /\ copy' = [copy EXCEPT !.gained = 0, !.lua = FALSE, !.cpp = FALSE]
      /\ doc' = doc /\ info' = info /\ plr' = plr /\ home' = home /\ arriving' = arriving
      /\ toScene' = toScene /\ earned' = earned /\ count' = count
  BY DEF SyncUpdateDataMasterServer, ResetSyncData
<1>3. copy.gained \in Nat /\ copy \in Copies
  BY <1>1, CopyFields
<1>4. copy' \in Copies /\ copy' # Off /\ copy'.gained = 0 /\ copy'.session = copy.session
  <2>1. copy' \in Copies /\ copy'.gained = 0 /\ copy'.session = copy.session
    BY <1>2, <1>3 DEF Copies
  <2> QED BY <2>1, ConstantFacts
<1>5. m \in ToMaster /\ m.kind = "sync" /\ Load(m) = copy.gained
  BY <1>3 DEF ToMaster, SyncPackets, Load
<1> HIDE DEF m
<1>6. /\ toMaster' \in Seq(ToMaster) /\ Under(toMaster') = Under(toMaster) + Load(m)
      /\ Under(toMaster) \in Nat /\ Under(toMaster') \in Nat
      /\ \A i \in 1..Len(toMaster') : i \in Nat /\
           \/ i \in 1..Len(toMaster) /\ toMaster'[i] = toMaster[i]
           \/ i = Len(toMaster') /\ toMaster'[i] = m
  BY <1>1, <1>2, <1>5, SendFacts
<1>7. RoleTypes'
  BY <1>1, <1>2, <1>4, <1>6 DEF RoleTypes
<1>8. ExpInv'
  <2> DEFINE u == Under(toMaster)
             v == Under(toMaster')
             g == copy.gained
  <2>1. u \in Nat /\ v = u + g /\ g \in Nat /\ Gained = g /\ Gained' = 0 /\ earned \in Nat
    BY <1>1, <1>3, <1>4, <1>5, <1>6, DocFields DEF Gained
  <2> HIDE DEF u, v, g
  <2>2. v \in Nat /\ Gained' \in Nat /\ earned' \in Nat
        /\ v + Gained' + earned <= u + Gained + earned'
    BY <1>2, <2>1
  <2> QED BY <1>2, <2>2, ExpMoves DEF u, v
<1>9. LoginInv'
  <2>1. count'.crash \in Nat /\ count.crash <= count'.crash
    BY <1>1, <1>2, CountFields
  <2> QED BY <1>2, <2>1, LoginSame
<1>10. SessionsInv'
  BY <1>1, <1>2, <1>4, <1>5, <1>6 DEF SessionsInv
<1>11. ASSUME NoFault' PROVE PlaceInv'
  <2>1. PlaceInv
    BY <1>2, <1>11 DEF RoleInv, NoFault
  <2>2. ~Saved'
    BY <1>1, <1>2, <2>1 DEF PlaceInv, Saved
  <2>3. ASSUME NEW i \in 1..Len(toMaster') PROVE ~Current(toMaster'[i], count'.login)
    <3>1. ~Current(m, count.login)
      BY <1>5 DEF Current
    <3>2. \A k \in 1..Len(toMaster) : ~Current(toMaster[k], count.login)
      BY <1>1, <2>1 DEF PlaceInv
    <3> QED BY <1>2, <1>6, <3>1, <3>2
  <2>4. copy' # Off /\ copy'.session = count'.login => arriving' = Off
    BY <1>1, <1>2, <1>4, <2>1 DEF PlaceInv
  <2> QED BY <2>2, <2>3, <2>4 DEF PlaceInv
<1> QED BY <1>7, <1>8, <1>9, <1>10, <1>11 DEF RoleInv

\* HandleSyncObjectDataFromMaster keeps the invariant.
LEMMA HandleFromMasterStep ==
  ASSUME RoleInv, HandleObjectDataFromMaster
  PROVE  RoleInv'
<1> DEFINE m == Head(toScene)
<1>1. RoleTypes /\ toScene \in Seq(ToScene)
  BY DEF RoleInv, RoleTypes
<1>2. /\ toScene # <<>> /\ toScene' = Tail(toScene)
      /\ copy' = IF copy = Off \/ copy.at # m.scene THEN copy
                 ELSE IF m.coins >= 0 THEN [copy EXCEPT !.coins = m.coins]
                 ELSE IF m.level > copy.level
                   THEN SetDataSyncFlag([copy EXCEPT !.level = m.level])
                 ELSE copy
      /\ doc' = doc /\ info' = info /\ plr' = plr /\ home' = home /\ arriving' = arriving
      /\ toMaster' = toMaster /\ earned' = earned /\ count' = count
  BY DEF HandleObjectDataFromMaster
<1>3. toScene' \in Seq(ToScene) /\ m \in ToScene
  BY <1>1, <1>2
<1>4. m.coins \in -1..CoinLimit /\ m.level \in 0..MaxLevel
  <2> HIDE DEF m
  <2> QED BY <1>3 DEF ToScene
<1> HIDE DEF m
<1>5. ASSUME copy # Off
      PROVE  /\ copy' \in Copies /\ copy' # Off /\ copy'.gained = copy.gained
             /\ copy'.session = copy.session
  <2>1. copy \in Copies
    BY <1>1, <1>5, CopyFields
  <2>2. CASE copy' = copy
    BY <1>5, <2>1, <2>2
  <2>3. CASE m.coins >= 0 /\ copy' = [copy EXCEPT !.coins = m.coins]
    <3>1. m.coins \in 0..CoinLimit
      BY <1>4, <2>3, ConstantFacts
    <3>2. copy' \in Copies /\ copy'.gained = copy.gained /\ copy'.session = copy.session
      BY <2>1, <2>3, <3>1 DEF Copies
    <3> QED BY <3>2, ConstantFacts
  <2>4. CASE m.level > copy.level
               /\ copy' = SetDataSyncFlag([copy EXCEPT !.level = m.level])
    <3> DEFINE c == [copy EXCEPT !.level = m.level]
    <3>1. m.level \in 1..MaxLevel
      <4>1. copy.level \in 1..MaxLevel
        BY <2>1 DEF Copies
      <4> QED BY <1>4, <2>4, <4>1, ConstantFacts
    <3>2. c \in Copies /\ c.gained = copy.gained /\ c.session = copy.session
      BY <2>1, <3>1 DEF Copies
    <3>3. copy' = SetDataSyncFlag(c)
      BY <2>4
    <3> HIDE DEF c
    <3>4. copy' \in Copies /\ copy'.gained = copy.gained /\ copy'.session = copy.session
      BY <3>2, <3>3 DEF SetDataSyncFlag, Copies
    <3> QED BY <3>4, ConstantFacts
  <2> QED BY <1>2, <2>2, <2>3, <2>4
<1>6. copy' = Off <=> copy = Off
  BY <1>2, <1>5
<1>7. RoleTypes'
  BY <1>1, <1>2, <1>3, <1>5, <1>6 DEF RoleTypes
<1>8. ExpInv'
  <2>1. Under(toMaster') = Under(toMaster) /\ Gained' = Gained
    BY <1>2, <1>5, <1>6 DEF Gained
  <2> QED BY <1>2, <2>1, ExpRests
<1>9. LoginInv'
  <2>1. count'.crash \in Nat /\ count.crash <= count'.crash
    BY <1>1, <1>2, CountFields
  <2> QED BY <1>2, <2>1, LoginSame
<1>10. SessionsInv' /\ (NoFault' => PlaceInv')
  BY <1>2, <1>5, <1>6, PlaceSame
<1> QED BY <1>7, <1>8, <1>9, <1>10 DEF RoleInv

\* SceneServerChangeProc keeps the invariant.
LEMMA LeaveForSceneStep ==
  ASSUME RoleInv, NEW s \in Scenes, LeaveForScene(s)
  PROVE  RoleInv'
<1>1. RoleTypes /\ copy # Off
  BY DEF RoleInv, LeaveForScene, IsInWorld
<1>2. /\ copy' = [copy EXCEPT !.next = s]
      /\ doc' = doc /\ info' = info /\ plr' = plr /\ home' = home /\ arriving' = arriving
      /\ toMaster' = toMaster /\ toScene' = toScene /\ earned' = earned
  BY DEF LeaveForScene
<1>3. /\ count' \in [login : Nat, money : Nat, move : Nat, crash : Nat, requeue : Nat]
      /\ count'.login = count.login /\ count'.crash = count.crash
      /\ count'.requeue = count.requeue
  BY <1>1, HappensFacts DEF LeaveForScene, RoleTypes
<1>4. /\ copy' \in Copies /\ copy' # Off /\ copy'.gained = copy.gained
      /\ copy'.session = copy.session
  <2>1. copy \in Copies
    BY <1>1, CopyFields
  <2>2. copy' \in Copies /\ copy'.gained = copy.gained /\ copy'.session = copy.session
    BY <1>2, <2>1 DEF Copies
  <2> QED BY <2>2, ConstantFacts
<1>5. RoleTypes'
  BY <1>1, <1>2, <1>3, <1>4 DEF RoleTypes
<1>6. ExpInv'
  <2>1. Under(toMaster') = Under(toMaster) /\ Gained' = Gained
    BY <1>1, <1>2, <1>4 DEF Gained
  <2> QED BY <1>2, <2>1, ExpRests
<1>7. LoginInv'
  <2>1. count'.crash \in Nat /\ count.crash <= count'.crash
    BY <1>1, <1>3, CountFields
  <2> QED BY <1>2, <2>1, LoginSame
<1>8. SessionsInv' /\ (NoFault' => PlaceInv')
  BY <1>1, <1>2, <1>3, <1>4, PlaceSame
<1> QED BY <1>5, <1>6, <1>7, <1>8 DEF RoleInv

\* LuaPlayer:Logout on the scene server keeps the invariant.
LEMMA SceneLogoutStep ==
  ASSUME RoleInv, SceneLogout
  PROVE  RoleInv'
<1> DEFINE m == [kind |-> "save", next |-> IF copy.next = Off THEN 0 ELSE copy.next,
                 session |-> copy.session]
<1>1. RoleTypes /\ toMaster \in Seq(ToMaster) /\ SessionsInv /\ copy # Off
  BY DEF RoleInv, RoleTypes, SceneLogout
<1>2. /\ toMaster' = Append(toMaster, m) /\ copy' = Off
      /\ doc' = doc /\ info' = info /\ plr' = plr /\ home' = home /\ arriving' = arriving
      /\ toScene' = toScene /\ earned' = earned /\ count' = count
  BY DEF SceneLogout
<1>3. /\ copy.session \in Nat /\ copy.gained \in Nat /\ copy.session <= count.login
      /\ copy.next \in Scenes \cup {Off}
  BY <1>1, CopyFields DEF SessionsInv
<1>4. m \in ToMaster /\ m.kind = "save" /\ m.session = copy.session /\ Load(m) = 0
  BY <1>3 DEF ToMaster, SavePackets, Load
<1> HIDE DEF m
<1>5. /\ toMaster' \in Seq(ToMaster) /\ Under(toMaster') = Under(toMaster) + Load(m)
      /\ Under(toMaster) \in Nat /\ Under(toMaster') \in Nat /\ Len(toMaster') \in Nat
      /\ \A i \in 1..Len(toMaster') : i \in Nat /\
           \/ i \in 1..Len(toMaster) /\ toMaster'[i] = toMaster[i]
           \/ i = Len(toMaster') /\ toMaster'[i] = m
  BY <1>1, <1>2, <1>4, SendFacts
<1>6. RoleTypes'
  BY <1>1, <1>2, <1>5 DEF RoleTypes
<1>7. ExpInv'
  <2> DEFINE u == Under(toMaster)
             v == Under(toMaster')
  <2>1. /\ u \in Nat /\ v = u /\ Gained \in Nat /\ Gained' = 0 /\ earned \in Nat
        /\ earned' = earned
    BY <1>1, <1>2, <1>4, <1>5, GainedNat, DocFields DEF Gained
  <2> HIDE DEF u, v
  <2>2. v \in Nat /\ Gained' \in Nat /\ earned' \in Nat
        /\ v + Gained' + earned <= u + Gained + earned'
    BY <2>1
  <2> QED BY <1>2, <2>2, ExpMoves DEF u, v
<1>8. LoginInv'
  <2>1. count'.crash \in Nat /\ count.crash <= count'.crash
    BY <1>1, <1>2, CountFields
  <2> QED BY <1>2, <2>1, LoginSame
<1>9. SessionsInv'
  BY <1>1, <1>2, <1>3, <1>4, <1>5 DEF SessionsInv
<1>10. ASSUME NoFault' PROVE PlaceInv'
  <2>1. PlaceInv
    BY <1>2, <1>10 DEF RoleInv, NoFault
  <2>2. ~Saved'
    BY <1>1, <1>2, <2>1 DEF PlaceInv, Saved
  <2>3. \A k \in 1..Len(toMaster) : ~Current(toMaster[k], count.login)
    BY <1>1, <2>1 DEF PlaceInv
  <2>4. ASSUME NEW i \in 1..Len(toMaster'), Current(toMaster'[i], count'.login)
        PROVE  i = Len(toMaster') /\ toMaster'[i] = m
    BY <1>2, <1>5, <2>3, <2>4
  <2>5. ASSUME NEW i \in 1..Len(toMaster'), Current(toMaster'[i], count'.login)
        PROVE  /\ arriving' = Off /\ copy' = Off /\ ~Saved'
               /\ \A j \in 1..Len(toMaster') : (j > i => toMaster'[j].kind # "sync")
                    /\ (Current(toMaster'[j], count'.login) => j = i)
    <3>1. i = Len(toMaster') /\ toMaster'[i] = m
      BY <2>4, <2>5
    <3>2. copy.session = count.login
      BY <1>2, <1>4, <2>5, <3>1 DEF Current
    <3>3. arriving' = Off /\ copy' = Off
      BY <1>1, <1>2, <2>1, <3>2 DEF PlaceInv
    <3>4. \A j \in 1..Len(toMaster') : ~(j > i)
      BY <1>5, <3>1
    <3> QED BY <2>2, <2>4, <3>1, <3>3, <3>4
  <2> QED BY <1>2, <2>2, <2>5 DEF PlaceInv
<1> QED BY <1>6, <1>7, <1>8, <1>9, <1>10 DEF RoleInv

\* What a fault leaves of the counters
LEMMA FaultFacts ==
  ASSUME RoleTypes, NEW what \in {"crash", "requeue"}, Fault(what)
  PROVE  /\ count' \in [login : Nat, money : Nat, move : Nat, crash : Nat, requeue : Nat]
         /\ count'.login = count.login /\ count'.crash \in Nat /\ count.crash <= count'.crash
         /\ ~NoFault'
<1>1. Happens(what, MaxFaults)
      /\ count \in [login : Nat, money : Nat, move : Nat, crash : Nat, requeue : Nat]
  BY DEF Fault, RoleTypes
<1>2. /\ count' \in [login : Nat, money : Nat, move : Nat, crash : Nat, requeue : Nat]
      /\ count'.login = count.login
      /\ \/ what = "crash" /\ count'.crash = count.crash + 1
         \/ /\ what = "requeue" /\ count'.requeue = count.requeue + 1
            /\ count'.crash = count.crash
  BY <1>1, HappensFacts
<1>3. /\ count.crash \in Nat /\ count.requeue \in Nat
      /\ count'.crash \in Nat /\ count'.requeue \in Nat
  BY <1>1, <1>2
<1> QED BY <1>2, <1>3 DEF NoFault

\* A stop of a scene server keeps the invariant.
LEMMA SceneCrashStep ==
  ASSUME RoleInv, SceneCrash
  PROVE  RoleInv'
<1>1. RoleTypes /\ SessionsInv
  BY DEF RoleInv
<1>2. /\ Fault("crash") /\ copy' = Off
      /\ doc' = doc /\ info' = info /\ plr' = plr /\ home' = home /\ arriving' = arriving
      /\ toMaster' = toMaster /\ toScene' = toScene /\ earned' = earned
  BY DEF SceneCrash
<1>3. /\ count' \in [login : Nat, money : Nat, move : Nat, crash : Nat, requeue : Nat]
      /\ count'.login = count.login /\ count'.crash \in Nat /\ count.crash <= count'.crash
      /\ ~NoFault'
  BY <1>1, <1>2, FaultFacts
<1>4. RoleTypes'
  BY <1>1, <1>2, <1>3 DEF RoleTypes
<1>5. ExpInv'
  <2> DEFINE u == Under(toMaster)
             v == Under(toMaster')
  <2>1. /\ u \in Nat /\ v = u /\ Gained \in Nat /\ Gained' = 0 /\ earned \in Nat
        /\ earned' = earned
    BY <1>1, <1>2, WayFacts, GainedNat, DocFields DEF Gained
  <2> HIDE DEF u, v
  <2>2. v \in Nat /\ Gained' \in Nat /\ earned' \in Nat
        /\ v + Gained' + earned <= u + Gained + earned'
    BY <2>1
  <2> QED BY <1>2, <2>2, ExpMoves DEF u, v
<1>6. LoginInv'
  BY <1>2, <1>3, LoginSame
<1>7. SessionsInv'
  BY <1>1, <1>2, <1>3 DEF SessionsInv
<1> QED BY <1>3, <1>4, <1>5, <1>6, <1>7 DEF RoleInv

\* A packet that goes to the back of its queue keeps the invariant.
LEMMA RequeueStep ==
  ASSUME RoleInv, Requeue
  PROVE  RoleInv'
<1> DEFINE m == Head(toMaster)
           t == Tail(toMaster)
<1>1. RoleTypes /\ toMaster \in Seq(ToMaster) /\ SessionsInv
  BY DEF RoleInv, RoleTypes
<1>2. /\ Fault("requeue") /\ toMaster # <<>> /\ toMaster' = Append(t, m)
      /\ doc' = doc /\ info' = info /\ plr' = plr /\ home' = home /\ arriving' = arriving
      /\ copy' = copy /\ toScene' = toScene /\ earned' = earned
  <2>1. Len(toMaster) > 1 => toMaster # <<>>
    OBVIOUS
  <2> QED BY <2>1 DEF Requeue
<1>3. /\ count' \in [login : Nat, money : Nat, move : Nat, crash : Nat, requeue : Nat]
      /\ count'.login = count.login /\ count'.crash \in Nat /\ count.crash <= count'.crash
      /\ ~NoFault'
  BY <1>1, <1>2, FaultFacts
<1>4. /\ m \in ToMaster /\ t \in Seq(ToMaster) /\ 1 \in 1..Len(toMaster) /\ m = toMaster[1]
      /\ \A i \in 1..Len(t) : i + 1 \in 1..Len(toMaster) /\ t[i] = toMaster[i + 1]
  BY <1>1, <1>2
<1>5. Under(toMaster) = Load(m) + Under(t)
  BY <1>1, <1>2, UnderTail
<1> HIDE DEF m, t
<1>6. /\ toMaster' \in Seq(ToMaster) /\ Under(toMaster') = Under(t) + Load(m)
      /\ \A i \in 1..Len(toMaster') : \E j \in 1..Len(toMaster) : toMaster'[i] = toMaster[j]
  <2>1. toMaster' \in Seq(ToMaster)
    BY <1>2, <1>4
  <2>2. Under(toMaster') = Under(t) + Load(m)
    BY <1>2, <1>4, UnderAppend
  <2>3. ASSUME NEW i \in 1..Len(toMaster')
        PROVE  \E j \in 1..Len(toMaster) : toMaster'[i] = toMaster[j]
    <3>1. (i \in 1..Len(t) /\ toMaster'[i] = t[i]) \/ toMaster'[i] = m
      BY <1>2, <1>4
    <3> QED BY <1>4, <3>1
  <2> QED BY <2>1, <2>2, <2>3
<1>7. Under(toMaster') = Under(toMaster)
  <2>1. Load(m) \in Nat /\ Under(t) \in Nat
    BY <1>4, UnderNat, PacketFields DEF Load
  <2> QED BY <1>5, <1>6, <2>1
<1>8. RoleTypes'
  BY <1>1, <1>2, <1>3, <1>6 DEF RoleTypes
<1>9. ExpInv'
  <2>1. Gained' = Gained
    BY <1>2 DEF Gained
  <2> QED BY <1>2, <1>7, <2>1, ExpRests
<1>10. LoginInv'
  BY <1>2, <1>3, LoginSame
<1>11. SessionsInv'
  BY <1>1, <1>2, <1>3, <1>6 DEF SessionsInv
<1> QED BY <1>3, <1>8, <1>9, <1>10, <1>11 DEF RoleInv

\* A step that changes nothing
LEMMA RoleStutter ==
  ASSUME RoleInv, UNCHANGED roleVars
  PROVE  RoleInv'
<1>1. /\ doc' = doc /\ info' = info /\ plr' = plr /\ home' = home /\ arriving' = arriving
      /\ copy' = copy /\ toMaster' = toMaster /\ toScene' = toScene /\ earned' = earned
      /\ count' = count
  BY DEF roleVars
<1>2. RoleTypes'
  BY <1>1 DEF RoleInv, RoleTypes
<1>3. ExpInv' /\ LoginInv' /\ SessionsInv'
  BY <1>1 DEF RoleInv, ExpInv, LoginInv, SessionsInv, Gained
<1>4. NoFault' => PlaceInv'
  BY <1>1 DEF RoleInv, NoFault, PlaceInv, Saved
<1> QED BY <1>2, <1>3, <1>4 DEF RoleInv

\* Every step keeps the invariant.
LEMMA RoleStep ==
  ASSUME RoleInv, [RoleNext]_roleVars
  PROVE  RoleInv'
<1>1. CASE \E s \in Scenes : ChoosePlayerEnterGame(s) \/ LeaveForScene(s)
  BY <1>1, ChoosePlayerStep, LeaveForSceneStep
<1>2. CASE \E n \in 0..CoinLimit : ChangeCoins(n)
  BY <1>2, ChangeCoinsStep
<1>3. CASE \E e \in 1..MaxExp : AddPlayerExp(e)
  BY <1>3, AddPlayerExpStep
<1>4. CASE HandleSyncObjectData
  BY <1>4, HandleSyncStep
<1>5. CASE HandleEnterSceneNotice
  BY <1>5, HandleEnterStep
<1>6. CASE HandleSavePlayerData
  BY <1>6, HandleSaveStep
<1>7. CASE LogoutPlayer
  BY <1>7, LogoutPlayerStep
<1>8. CASE CreatePlayer
  BY <1>8, CreatePlayerStep
<1>9. CASE SyncUpdateDataMasterServer
  BY <1>9, SyncUpdateStep
<1>10. CASE HandleObjectDataFromMaster
  BY <1>10, HandleFromMasterStep
<1>11. CASE SceneLogout
  BY <1>11, SceneLogoutStep
<1>12. CASE MasterCrash
  BY <1>12, MasterCrashStep
<1>13. CASE SceneCrash
  BY <1>13, SceneCrashStep
<1>14. CASE Requeue
  BY <1>14, RequeueStep
<1>15. CASE UNCHANGED roleVars
  BY <1>15, RoleStutter
<1> QED
  BY <1>1, <1>2, <1>3, <1>4, <1>5, <1>6, <1>7, <1>8, <1>9, <1>10, <1>11, <1>12, <1>13, <1>14,
     <1>15 DEF RoleNext

\* The invariant of the level, the experience and the coins holds in every state, for
\* all scene servers, levels, limits and bounds.
THEOREM RoleInvariant == RoleSpec => []RoleInv
<1>1. RoleInit => RoleInv
  BY InitRole
<1>2. RoleInv /\ [RoleNext]_roleVars => RoleInv'
  BY RoleStep
<1> QED BY <1>1, <1>2, PTL DEF RoleSpec

\* No experience is counted twice: ExpCountedOnce in every state.
THEOREM ExpCountedOnceHolds == RoleSpec => []ExpCountedOnce
<1>1. ASSUME RoleInv PROVE ExpCountedOnce
  <2>1. RoleTypes /\ ExpInv
    BY <1>1 DEF RoleInv
  <2>2. UnderWay = Under(toMaster)
    BY <2>1, WayFacts, UnderWayIs
  <2>3. Owned + UnderWay + (IF copy = Off THEN 0 ELSE copy.gained) <= earned
    BY <2>1, <2>2 DEF ExpInv, Gained, Owned
  <2>4. /\ doc.level \in 1..MaxLevel /\ info.level \in 1..MaxLevel
        /\ plr # Off => plr.coins \in 0..CoinLimit
    BY <2>1, DocFields, PlayerFields
  <2>5. home \in Scenes \cup {0}
    BY <2>1 DEF RoleTypes
  <2> QED BY <2>3, <2>4, <2>5 DEF ExpCountedOnce
<1> QED BY <1>1, RoleInvariant, PTL

\* The steps that touch the role, its document or its level
Touching ==
  \/ \E s \in Scenes : ChoosePlayerEnterGame(s)
  \/ \E n \in 0..CoinLimit : ChangeCoins(n)
  \/ HandleSyncObjectData \/ HandleSavePlayerData \/ LogoutPlayer
  \/ MasterCrash

\* No other step touches them.
LEMMA Untouched ==
  ASSUME [RoleNext]_roleVars, ~Touching
  PROVE  doc' = doc /\ info' = info /\ plr' = plr
<1>1. CASE \E s \in Scenes : LeaveForScene(s)
  BY <1>1 DEF LeaveForScene
<1>2. CASE \E e \in 1..MaxExp : AddPlayerExp(e)
  BY <1>2 DEF AddPlayerExp
<1>3. CASE HandleEnterSceneNotice \/ CreatePlayer \/ SyncUpdateDataMasterServer
  BY <1>3 DEF HandleEnterSceneNotice, CreatePlayer, SyncUpdateDataMasterServer
<1>4. CASE HandleObjectDataFromMaster \/ SceneLogout
  BY <1>4 DEF HandleObjectDataFromMaster, SceneLogout
<1>5. CASE SceneCrash \/ Requeue
  BY <1>5 DEF SceneCrash, Requeue
<1>6. CASE UNCHANGED roleVars
  BY <1>6 DEF roleVars
<1> QED BY <1>1, <1>2, <1>3, <1>4, <1>5, <1>6 DEF RoleNext, Touching

\* What HandleSyncObjectData does to the role
LEMMA SyncEffect ==
  ASSUME RoleInv, HandleSyncObjectData
  PROVE  \/ doc' = doc /\ info' = info /\ plr' = plr
         \/ /\ plr # Off /\ plr' # Off /\ plr'.coins = plr.coins /\ plr'.exp \in Nat
            /\ info'.level \in Int /\ info'.level >= info.level
            /\ \E add \in Nat :
                 ExpOf(info'.level) + plr'.exp = ExpOf(info.level) + plr.exp + add
<1> DEFINE m == Head(toMaster)
<1>1. RoleTypes /\ toMaster \in Seq(ToMaster)
  BY DEF RoleInv, RoleTypes
<1>2. m \in ToMaster /\ m.kind = "sync"
  BY <1>1, ReceiveFacts DEF HandleSyncObjectData
<1>3. IF plr # Off /\ m.exp > 0 THEN UpdateLevel(m.exp)
      ELSE UNCHANGED <<info, plr, doc, toScene>>
  BY DEF HandleSyncObjectData
<1> HIDE DEF m
<1>4. m.exp \in Nat
  BY <1>2, PacketFields
<1>5. CASE plr # Off /\ m.exp > 0
  <2>1. UpdateLevel(m.exp) /\ doc.level = info.level
    BY <1>3, <1>5, ExpFacts
  <2>2. /\ info'.level \in info.level..MaxLevel
        /\ plr' = [plr EXCEPT !.exp = plr'.exp] /\ plr'.exp \in Nat
        /\ ExpOf(info'.level) + plr'.exp = ExpOf(info.level) + plr.exp + m.exp
    BY <1>1, <1>4, <1>5, <2>1, LevelFacts
  <2>3. plr' \in Players /\ plr'.coins = plr.coins
    BY <1>1, <1>5, <2>2, PlayerFields DEF Players
  <2>4. info'.level \in Int /\ info'.level >= info.level
    <3>1. info.level \in 1..MaxLevel
      BY <1>1, DocFields
    <3> QED BY <2>2, <3>1
  <2> QED BY <1>4, <1>5, <2>2, <2>3, <2>4, ConstantFacts
<1> QED BY <1>3, <1>5

\* What HandleSavePlayerDataReq does to the role
LEMMA SaveEffect ==
  ASSUME RoleInv, HandleSavePlayerData
  PROVE  /\ info' = info
         /\ \/ doc' = doc /\ plr' = plr
            \/ plr # Off /\ plr' # Off /\ plr'.exp = plr.exp /\ plr'.coins = plr.coins
<1> DEFINE m == Head(toMaster)
<1>1. RoleTypes /\ info' = info
  BY DEF RoleInv, HandleSavePlayerData
<1>2. IF plr = Off \/ m.session # count.login THEN UNCHANGED <<doc, plr, arriving>>
      ELSE IF m.next # 0
        THEN arriving' = EnterGameData(m.next, plr) /\ UNCHANGED <<doc, plr>>
        ELSE /\ doc' = SavePlayerToDB
             /\ plr' = [plr EXCEPT !.saved = TRUE]
             /\ UNCHANGED arriving
  BY DEF HandleSavePlayerData
<1> HIDE DEF m
<1>3. \/ doc' = doc /\ plr' = plr
      \/ plr # Off /\ plr' = [plr EXCEPT !.saved = TRUE]
  BY <1>2
<1> QED BY <1>1, <1>3, MarkFacts

\* What LuaPlayer:Logout does to the document
LEMMA LogoutEffect ==
  ASSUME RoleInv, LogoutPlayer
  PROVE  /\ plr # Off /\ plr' = Off /\ info' = info /\ count' = count
         /\ doc'.coins = doc.coins /\ doc'.level = info.level
         /\ doc'.exp = plr.exp \/ (doc'.exp = doc.exp /\ Saved)
<1>1. RoleTypes /\ doc.level = info.level
  BY ExpFacts DEF RoleInv
<1>2. /\ plr # Off /\ plr' = Off /\ info' = info /\ count' = count
      /\ doc' = IF plr.saved THEN doc ELSE SavePlayerToDB
  BY DEF LogoutPlayer
<1> QED BY <1>1, <1>2, SavedFacts DEF Saved

\* What ChoosePlayerEnterGame takes from the document
LEMMA ChooseEffect ==
  ASSUME RoleInv, NEW s \in Scenes, ChoosePlayerEnterGame(s)
  PROVE  /\ plr = Off /\ plr' # Off /\ doc' = doc /\ info'.level = info.level
         /\ plr'.exp = IF info.logged THEN doc.exp ELSE 0
         /\ plr'.coins = IF info.logged THEN doc.coins ELSE 0
         /\ count'.crash = count.crash /\ count'.requeue = count.requeue
<1>1. RoleTypes
  BY DEF RoleInv
<1>2. /\ plr = Off /\ doc' = doc /\ info' = [info EXCEPT !.logged = TRUE]
      /\ plr' = [exp |-> IF info.logged THEN doc.exp ELSE 0,
                 coins |-> IF info.logged THEN doc.coins ELSE 0,
                 first |-> ~info.logged, saved |-> FALSE]
  BY DEF ChoosePlayerEnterGame, LoadFromDB
<1>3. plr' \in Players
  BY <1>1, <1>2, ConstantFacts DEF RoleTypes, Players
<1>4. count'.crash = count.crash /\ count'.requeue = count.requeue
  BY <1>1, HappensFacts DEF ChoosePlayerEnterGame, RoleTypes
<1>5. info'.level = info.level
  BY <1>1, <1>2 DEF RoleTypes
<1> QED BY <1>2, <1>3, <1>4, <1>5, ConstantFacts

\* What ChangeCoins leaves alone
LEMMA CoinsEffect ==
  ASSUME RoleInv, NEW n \in 0..CoinLimit, ChangeCoins(n)
  PROVE  plr # Off /\ plr' # Off /\ plr'.exp = plr.exp /\ info' = info
<1>1. plr # Off /\ plr' = [plr EXCEPT !.coins = n] /\ info' = info
  BY DEF ChangeCoins
<1>2. plr \in Players
  BY <1>1, PlayerFields DEF RoleInv
<1>3. plr' \in Players /\ plr'.exp = plr.exp
  BY <1>1, <1>2 DEF Players
<1> QED BY <1>1, <1>3, ConstantFacts

\* Experience that was taken is kept, and levels are, step by step.
LEMMA AcceptedStep ==
  ASSUME RoleInv, RoleInv', [RoleNext]_roleVars
  PROVE  /\ count'.crash + count'.requeue = 0 => Owned' >= Owned
         /\ info'.level >= info.level
<1> DEFINE e == ExpOf(info.level)
<1>1. RoleTypes /\ RoleTypes' /\ doc.level = info.level /\ LoginInv
  BY ExpFacts DEF RoleInv
<1>2. /\ info.level \in Int /\ doc.exp \in Nat /\ e \in Nat
      /\ plr # Off => plr.exp \in Nat
  <2>1. ExpOf(doc.level) \in Nat /\ doc.exp \in Nat
    BY ExpFacts
  <2>2. info.level \in 1..MaxLevel
    BY <1>1, DocFields
  <2>3. plr # Off => plr.exp \in Nat
    BY <1>1, PlayerFields
  <2> QED BY <1>1, <2>1, <2>2, <2>3
<1>3. Owned = IF plr = Off THEN e + doc.exp ELSE e + plr.exp
  BY <1>1 DEF Owned
<1>4. Owned \in Int
  BY <1>2, <1>3
<1>5. ASSUME info'.level = info.level, Owned' = Owned
      PROVE  Owned' >= Owned /\ info'.level >= info.level
  BY <1>2, <1>4, <1>5
<1>6. CASE ~Touching
  <2>1. doc' = doc /\ info' = info /\ plr' = plr
    BY <1>6, Untouched
  <2>2. Owned' = Owned
    BY <2>1 DEF Owned
  <2> QED BY <1>5, <2>1, <2>2
<1>7. CASE \E s \in Scenes : ChoosePlayerEnterGame(s)
  <2>1. /\ plr = Off /\ plr' # Off /\ info'.level = info.level
        /\ plr'.exp = IF info.logged THEN doc.exp ELSE 0
        /\ count'.crash = count.crash /\ count'.requeue = count.requeue
    BY <1>7, ChooseEffect
  <2>2. ASSUME count'.crash + count'.requeue = 0 PROVE Owned' = Owned
    <3>1. count.crash = 0
      BY <1>1, <2>1, <2>2, CountFields
    <3>2. plr'.exp = doc.exp
      BY <1>1, <2>1, <3>1 DEF LoginInv
    <3>3. Owned' = ExpOf(info'.level) + plr'.exp
      BY <2>1 DEF Owned
    <3> QED BY <1>3, <2>1, <3>2, <3>3
  <2>3. info'.level >= info.level
    BY <1>2, <2>1
  <2> QED BY <1>5, <2>1, <2>2, <2>3
<1>8. CASE \E n \in 0..CoinLimit : ChangeCoins(n)
  <2>1. plr # Off /\ plr' # Off /\ plr'.exp = plr.exp /\ info' = info
    BY <1>8, CoinsEffect
  <2>2. Owned' = Owned
    BY <2>1 DEF Owned
  <2> QED BY <1>5, <2>1, <2>2
<1>9. CASE HandleSyncObjectData
  <2>1. CASE doc' = doc /\ info' = info /\ plr' = plr
    <3>1. Owned' = Owned
      BY <2>1 DEF Owned
    <3> QED BY <1>5, <2>1, <3>1
  <2>2. CASE /\ plr # Off /\ plr' # Off /\ plr'.exp \in Nat
             /\ info'.level \in Int /\ info'.level >= info.level
             /\ \E add \in Nat :
                  ExpOf(info'.level) + plr'.exp = ExpOf(info.level) + plr.exp + add
    <3>1. PICK add \in Nat : ExpOf(info'.level) + plr'.exp = e + plr.exp + add
      BY <2>2
    <3>2. Owned' = ExpOf(info'.level) + plr'.exp
      BY <2>2 DEF Owned
    <3> DEFINE o == Owned
               p == Owned'
    <3>3. o \in Int /\ p = o + add
      BY <1>3, <1>4, <2>2, <3>1, <3>2
    <3> HIDE DEF o, p
    <3>4. p >= o
      BY <3>3
    <3> QED BY <2>2, <3>4 DEF o, p
  <2> QED BY <1>9, <2>1, <2>2, SyncEffect
<1>10. CASE HandleSavePlayerData
  <2>1. /\ info' = info
        /\ \/ doc' = doc /\ plr' = plr
           \/ plr # Off /\ plr' # Off /\ plr'.exp = plr.exp
    BY <1>10, SaveEffect
  <2>2. Owned' = Owned
    BY <2>1 DEF Owned
  <2> QED BY <1>5, <2>1, <2>2
<1>11. CASE LogoutPlayer
  <2>1. /\ plr # Off /\ plr' = Off /\ info' = info /\ count' = count /\ doc'.level = info.level
        /\ doc'.exp = plr.exp \/ (doc'.exp = doc.exp /\ Saved)
    BY <1>11, LogoutEffect
  <2>2. ASSUME count'.crash + count'.requeue = 0 PROVE Owned' = Owned
    <3>1. PlaceInv
      BY <2>1, <2>2 DEF RoleInv, NoFault
    <3>2. doc'.exp = plr.exp
      BY <2>1, <3>1 DEF PlaceInv
    <3>3. Owned' = ExpOf(doc'.level) + doc'.exp
      BY <2>1 DEF Owned
    <3> QED BY <1>3, <2>1, <3>2, <3>3
  <2>3. info'.level >= info.level
    BY <1>2, <2>1
  <2> QED BY <1>5, <2>1, <2>2, <2>3
<1>12. CASE MasterCrash
  <2>1. info'.level = info.level
    BY <1>1, <1>12 DEF MasterCrash
  <2>2. ~NoFault'
    BY <1>1, <1>12, FaultFacts DEF MasterCrash
  <2> QED BY <1>2, <2>1, <2>2 DEF NoFault
<1> QED BY <1>6, <1>7, <1>8, <1>9, <1>10, <1>11, <1>12 DEF Touching

\* Experience the central server has taken is not lost by a change of scene server, a
\* logout or a login: AcceptedKept.
THEOREM AcceptedKeptHolds == RoleSpec => AcceptedKept
<1> DEFINE Kept == /\ count'.crash + count'.requeue = 0 => Owned' >= Owned
                   /\ info'.level >= info.level
<1>1. RoleInv /\ RoleInv' /\ [RoleNext]_roleVars => [Kept]_roleVars
  BY AcceptedStep
<1> QED BY <1>1, RoleInvariant, PTL DEF RoleSpec, AcceptedKept

\* The coins change in play only, step by step.
LEMMA CoinsStep ==
  ASSUME RoleInv, [RoleNext]_roleVars, Coins' # Coins,
         plr = Off \/ plr' = Off
  PROVE  count'.crash > 0 /\ (~doc.logged \/ (plr # Off /\ plr.first))
<1>1. RoleTypes /\ LoginInv
  BY DEF RoleInv
<1>2. count.crash \in Nat
  BY <1>1, CountFields
<1>3. ~(doc' = doc /\ plr' = plr)
  BY DEF Coins
<1>4. ~(plr # Off /\ plr' # Off)
  OBVIOUS
<1>5. CASE \E s \in Scenes : ChoosePlayerEnterGame(s)
  <2>1. /\ plr = Off /\ plr' # Off /\ doc' = doc /\ count'.crash = count.crash
        /\ plr'.coins = IF info.logged THEN doc.coins ELSE 0
    BY <1>5, ChooseEffect
  <2>2. Coins = doc.coins /\ Coins' = plr'.coins
    BY <2>1 DEF Coins
  <2>3. ~info.logged /\ doc.coins # 0
    BY <2>1, <2>2
  <2>4. ~doc.logged /\ count.crash # 0
    BY <1>1, <2>3 DEF LoginInv
  <2> QED BY <1>2, <2>1, <2>4
<1>6. CASE LogoutPlayer
  <2>1. plr # Off /\ plr' = Off /\ count' = count /\ doc'.coins = doc.coins
    BY <1>6, LogoutEffect
  <2>2. Coins = plr.coins /\ Coins' = doc.coins
    BY <2>1 DEF Coins
  <2>3. count.crash > 0 /\ plr.first
    BY <1>1, <2>1, <2>2 DEF LoginInv
  <2> QED BY <2>1, <2>3
<1>7. CASE MasterCrash
  <2>1. plr' = Off /\ doc' = doc
    BY <1>7 DEF MasterCrash
  <2>2. plr # Off
    BY <1>3, <2>1
  <2>3. Coins = plr.coins /\ Coins' = doc.coins
    BY <2>1, <2>2 DEF Coins
  <2>4. count.crash > 0 /\ plr.first
    BY <1>1, <2>2, <2>3 DEF LoginInv
  <2>5. count'.crash \in Nat /\ count.crash <= count'.crash
    BY <1>1, <1>7, FaultFacts DEF MasterCrash
  <2> QED BY <1>2, <2>2, <2>4, <2>5
<1>8. ~(\E n \in 0..CoinLimit : ChangeCoins(n)) /\ ~HandleSyncObjectData
      /\ ~HandleSavePlayerData
  BY <1>3, <1>4, CoinsEffect, SyncEffect, SaveEffect
<1>9. Touching
  BY <1>3, Untouched
<1> QED BY <1>5, <1>6, <1>7, <1>8, <1>9 DEF Touching

\* No login, logout or stop of a server takes coins or gives any, but for a role whose
\* first session was ended by a stop: CoinsKept.
THEOREM CoinsKeptHolds == RoleSpec => CoinsKept
<1> DEFINE Kept == Coins' # Coins /\ (plr = Off \/ plr' = Off) =>
                     count'.crash > 0 /\ (~doc.logged \/ (plr # Off /\ plr.first))
<1>1. RoleInv /\ [RoleNext]_roleVars => [Kept]_roleVars
  BY CoinsStep
<1> QED BY <1>1, RoleInvariant, PTL DEF RoleSpec, CoinsKept
=============================================================================
