------------------------------ MODULE SumLemmas ------------------------------
(***************************************************************************)
(* Sums of a function over a finite set, SumFunctionOnSet of the community *)
(* modules, which is a fold whose elements come in an unspecified order:   *)
(* that the fold's recursion has a solution, and that the sum does not     *)
(* depend on the order.  Induction is over the finite subsets of a set, by *)
(* a minimal counterexample.                                               *)
(***************************************************************************)
EXTENDS Integers, FiniteSets, Functions, FiniteSetTheorems, WellFoundedInduction, TLAPS

(* A set of natural numbers that is not empty has a least element.         *)
LEMMA LeastElement ==
  ASSUME NEW T, T \subseteq Nat, T # {}
  PROVE  \E x \in T : \A y \in T : x <= y
<1> DEFINE Upto(n) == 0 .. n
           F == {Upto(n) : n \in T}
           R == StrictSubsetOrdering(Nat)
<1>1. F \subseteq FiniteSubsetsOf(Nat) /\ F # {}
  <2>1. ASSUME NEW n \in T PROVE Upto(n) \in FiniteSubsetsOf(Nat)
    BY FS_Interval DEF FiniteSubsetsOf
  <2> QED
    BY <2>1
<1>2. ASSUME NEW x \in T, NEW y \in T, y < x PROVE <<Upto(y), Upto(x)>> \in R
  <2>1. /\ Upto(y) \in SUBSET Nat /\ Upto(x) \in SUBSET Nat
        /\ Upto(y) \subseteq Upto(x) /\ x \in Upto(x) /\ x \notin Upto(y)
    BY <1>2
  <2>2. Upto(y) # Upto(x)
    BY <2>1
  <2> QED
    BY <2>1, <2>2 DEF StrictSubsetOrdering
<1> HIDE DEF R
<1>3. PICK U \in F : \A V \in F : ~(<<V, U>> \in R)
  BY <1>1, WFMin, FS_StrictSubsetOrderingWellFounded DEF R
<1>4. PICK x \in T : U = Upto(x)
  OBVIOUS
<1>5. \A y \in T : ~(y < x)
  BY <1>2, <1>3, <1>4
<1> QED
  BY <1>5

(* A set of finite sets that is not empty has a minimal element.           *)
LEMMA MinimalSubset ==
  ASSUME NEW S, IsFiniteSet(S), NEW B, B \subseteq SUBSET S, B # {}
  PROVE  \E m \in B : \A s \in B : s \subseteq m => s = m
<1>1. IsWellFoundedOn(StrictSubsetOrdering(S), SUBSET S)
  BY FS_StrictSubsetOrderingWellFounded, FS_FiniteSubsetsOfFinite
<1>2. PICK m \in B : \A s \in B : ~(<<s, m>> \in StrictSubsetOrdering(S))
  BY <1>1, WFMin
<1>3. ASSUME NEW s \in B, s \subseteq m, s # m
      PROVE  <<s, m>> \in StrictSubsetOrdering(S)
  <2>1. s \in SUBSET S /\ m \in SUBSET S
    OBVIOUS
  <2> QED
    BY <1>3, <2>1 DEF StrictSubsetOrdering
<1>4. ASSUME NEW s \in B, s \subseteq m PROVE s = m
  BY <1>2, <1>3, <1>4
<1> QED
  BY <1>4

------------------------------------------------------------------------------
(* The fold takes this element of a set next.                              *)
Pick(s) == CHOOSE x \in s : TRUE

Adds(f, it, D) ==
  it = [s \in D |-> IF s = {} THEN 0 ELSE f[Pick(s)] + it[s \ {Pick(s)}]]

Level(S, n) == {s \in SUBSET S : Cardinality(s) <= n}

LEMMA PickIn == \A s : s # {} => Pick(s) \in s
  BY DEF Pick

(* The recursion reaches one element further.                              *)
LEMMA LevelUp ==
  ASSUME NEW S, IsFiniteSet(S), NEW f, NEW n \in Nat,
         NEW g, Adds(f, g, Level(S, n))
  PROVE  \E h : Adds(f, h, Level(S, n + 1))
<1> DEFINE h == [s \in Level(S, n + 1) |->
                   IF s = {} THEN 0 ELSE f[Pick(s)] + g[s \ {Pick(s)}]]
<1>1. ASSUME NEW s \in Level(S, n + 1), s # {}
      PROVE  s \ {Pick(s)} \in Level(S, n) /\ s \ {Pick(s)} \in Level(S, n + 1)
  <2>1. IsFiniteSet(s) /\ Cardinality(s) \in Nat /\ Pick(s) \in s
    BY <1>1, FS_Subset, FS_CardinalityType, PickIn DEF Level
  <2>2. Cardinality(s \ {Pick(s)}) = Cardinality(s) - 1
    BY <2>1, FS_RemoveElement
  <2> QED
    BY <2>1, <2>2 DEF Level
<1>2. ASSUME NEW s \in Level(S, n + 1), s \in Level(S, n) PROVE h[s] = g[s]
  BY <1>2 DEF Adds
<1>3. ASSUME NEW s \in Level(S, n + 1), s # {}
      PROVE  h[s] = f[Pick(s)] + h[s \ {Pick(s)}]
  BY <1>1, <1>2, <1>3
<1>4. ASSUME NEW s \in Level(S, n + 1), s = {} PROVE h[s] = 0
  BY <1>4
<1>5. h = [s \in Level(S, n + 1) |-> h[s]]
  OBVIOUS
<1> HIDE DEF h
<1>6. Adds(f, h, Level(S, n + 1))
  BY <1>3, <1>4, <1>5 DEF Adds
<1> QED
  BY <1>6

LEMMA FoldExists ==
  ASSUME NEW S, IsFiniteSet(S), NEW f
  PROVE  \E it : Adds(f, it, SUBSET S)
<1> DEFINE Bad == {n \in Nat : ~ \E it : Adds(f, it, Level(S, n))}
<1>1. 0 \notin Bad
  <2> DEFINE z == [s \in Level(S, 0) |-> 0]
  <2>1. \A s \in Level(S, 0) : s = {}
    BY FS_Subset, FS_EmptySet, FS_CardinalityType DEF Level
  <2>2. Adds(f, z, Level(S, 0))
    BY <2>1 DEF Adds
  <2> QED
    BY <2>2
<1>2. ASSUME Bad # {} PROVE FALSE
  <2>1. PICK n \in Bad : \A k \in Bad : n <= k
    BY <1>2, LeastElement
  <2>2. n \in Nat \ {0} /\ n - 1 \in Nat /\ n - 1 \notin Bad /\ n - 1 + 1 = n
    BY <1>1, <2>1
  <2>3. PICK g : Adds(f, g, Level(S, n - 1))
    BY <2>2
  <2> QED
    BY <2>2, <2>3, LevelUp
<1>3. Cardinality(S) \in Nat /\ Level(S, Cardinality(S)) = SUBSET S
  BY FS_Subset, FS_CardinalityType DEF Level
<1> QED
  BY <1>2, <1>3

(* What the fold computes, unfolded once.                                  *)
LEMMA SumUnfolds ==
  ASSUME NEW S, IsFiniteSet(S), NEW f
  PROVE  \E it : Adds(f, it, SUBSET S) /\ SumFunctionOnSet(f, S) = it[S]
<1> DEFINE it == CHOOSE it : Adds(f, it, SUBSET S)
<1>1. Adds(f, it, SUBSET S)
  BY FoldExists
<1>2. SumFunctionOnSet(f, S) = it[S]
  BY DEF SumFunctionOnSet, FoldFunctionOnSet, MapThenFoldSet, Adds, Pick
<1> QED
  BY <1>1, <1>2

(* Two folds that reach a set compute the same for it.                     *)
LEMMA FoldUnique ==
  ASSUME NEW S, IsFiniteSet(S), NEW T \in SUBSET S, NEW f, NEW g, NEW h,
         Adds(f, g, SUBSET S), Adds(f, h, SUBSET T)
  PROVE  g[T] = h[T]
<1> DEFINE Bad == {s \in SUBSET T : g[s] # h[s]}
<1>1. IsFiniteSet(T)
  BY FS_Subset
<1>2. ASSUME Bad # {} PROVE FALSE
  <2>1. PICK m \in Bad : \A s \in Bad : s \subseteq m => s = m
    <3> HIDE DEF Bad
    <3>1. Bad \subseteq SUBSET T
      BY DEF Bad
    <3> QED
      BY <1>1, <1>2, <3>1, MinimalSubset
  <2>2. CASE m = {}
    BY <2>2 DEF Adds
  <2>3. CASE m # {}
    <3>1. Pick(m) \in m
      BY <2>3, PickIn
    <3>2. m \ {Pick(m)} \in SUBSET T /\ m \ {Pick(m)} \notin Bad
      BY <2>1, <3>1
    <3>3. /\ g[m] = f[Pick(m)] + g[m \ {Pick(m)}]
          /\ h[m] = f[Pick(m)] + h[m \ {Pick(m)}]
      BY <2>3 DEF Adds
    <3> QED
      BY <3>2, <3>3
  <2> QED
    BY <2>2, <2>3
<1> QED
  BY <1>2

------------------------------------------------------------------------------
(* The sum over a set is one of its elements and the sum over the rest.    *)
LEMMA SumPick ==
  ASSUME NEW S, IsFiniteSet(S), NEW f
  PROVE  SumFunctionOnSet(f, S) =
           IF S = {} THEN 0 ELSE f[Pick(S)] + SumFunctionOnSet(f, S \ {Pick(S)})
<1>1. PICK g : Adds(f, g, SUBSET S) /\ SumFunctionOnSet(f, S) = g[S]
  BY SumUnfolds
<1>2. CASE S = {}
  BY <1>1, <1>2 DEF Adds
<1>3. CASE S # {}
  <2> DEFINE T == S \ {Pick(S)}
  <2>1. IsFiniteSet(T) /\ T \in SUBSET S
    BY FS_RemoveElement
  <2>2. PICK h : Adds(f, h, SUBSET T) /\ SumFunctionOnSet(f, T) = h[T]
    BY <2>1, SumUnfolds
  <2>3. g[T] = h[T]
    <3> HIDE DEF T
    <3>1. Adds(f, g, SUBSET S) /\ Adds(f, h, SUBSET T)
      BY <1>1, <2>2
    <3> QED
      BY <2>1, <3>1, FoldUnique
  <2>4. g[S] = f[Pick(S)] + g[T]
    BY <1>1, <1>3 DEF Adds
  <2> QED
    BY <1>1, <1>3, <2>2, <2>3, <2>4
<1> QED
  BY <1>2, <1>3

LEMMA SumEmpty == \A f : SumFunctionOnSet(f, {}) = 0
  BY SumPick, FS_EmptySet

LEMMA SumType ==
  ASSUME NEW S, IsFiniteSet(S), NEW f, \A x \in S : f[x] \in Int
  PROVE  SumFunctionOnSet(f, S) \in Int
<1> DEFINE Bad == {s \in SUBSET S : SumFunctionOnSet(f, s) \notin Int}
<1>1. Bad \subseteq SUBSET S
  OBVIOUS
<1>2. ASSUME NEW m \in Bad, \A s \in Bad : s \subseteq m => s = m PROVE FALSE
  <2>1. IsFiniteSet(m) /\ m # {}
    <3>1. IsFiniteSet(m)
      BY FS_Subset
    <3>2. m # {}
      BY SumEmpty
    <3> QED
      BY <3>1, <3>2
  <2>2. Pick(m) \in m
    BY <2>1, PickIn
  <2>3. SumFunctionOnSet(f, m \ {Pick(m)}) \in Int
    BY <1>2, <2>2
  <2>4. SumFunctionOnSet(f, m) = f[Pick(m)] + SumFunctionOnSet(f, m \ {Pick(m)})
    BY <2>1, SumPick
  <2> QED
    BY <2>2, <2>3, <2>4
<1> HIDE DEF Bad
<1>3. Bad = {}
  BY <1>1, <1>2, MinimalSubset
<1> QED
  BY <1>3 DEF Bad

(* Whichever element comes first, the sum is the same.                     *)
LEMMA SumRemove ==
  ASSUME NEW S, IsFiniteSet(S), NEW f, \A x \in S : f[x] \in Int, NEW y \in S
  PROVE  SumFunctionOnSet(f, S) = f[y] + SumFunctionOnSet(f, S \ {y})
<1> DEFINE F == [s \in SUBSET S |-> SumFunctionOnSet(f, s)]
           Bad == {s \in SUBSET S : \E x \in s : F[s] # f[x] + F[s \ {x}]}
<1>1. Bad \subseteq SUBSET S
  OBVIOUS
<1>2. ASSUME NEW m \in Bad, \A s \in Bad : s \subseteq m => s = m PROVE FALSE
  <2>1. PICK x \in m : F[m] # f[x] + F[m \ {x}]
    OBVIOUS
  <2> DEFINE p == Pick(m)
             rest == (m \ {x}) \ {p}
  <2>2. IsFiniteSet(m) /\ p \in m
    BY FS_Subset, PickIn
  <2>3. F[m] = f[p] + F[m \ {p}]
    BY <2>2, SumPick
  <2> HIDE DEF p, F
  <2>4. x # p
    BY <2>1, <2>3
  <2>5. F[m \ {p}] = f[x] + F[rest]
    <3>1. m \ {p} \notin Bad /\ m \ {p} \in SUBSET S /\ x \in m \ {p}
      BY <1>2, <2>2, <2>4
    <3>2. F[m \ {p}] = f[x] + F[(m \ {p}) \ {x}]
      BY <3>1
    <3>3. rest = (m \ {p}) \ {x}
      OBVIOUS
    <3> QED
      BY <3>2, <3>3
  <2>6. F[m \ {x}] = f[p] + F[rest]
    <3>1. m \ {x} \notin Bad /\ m \ {x} \in SUBSET S /\ p \in m \ {x}
      BY <1>2, <2>2, <2>4
    <3> QED
      BY <3>1
  <2>7. F[rest] \in Int /\ f[x] \in Int /\ f[p] \in Int
    <3>1. IsFiniteSet(m \ {x})
      BY <2>2, FS_RemoveElement
    <3>2. IsFiniteSet(rest) /\ rest \in SUBSET S /\ \A z \in rest : f[z] \in Int
      BY <3>1, FS_RemoveElement
    <3> QED
      BY <2>2, <3>2, SumType DEF F
  <2> HIDE DEF rest
  <2> QED
    BY <2>1, <2>3, <2>5, <2>6, <2>7
<1>3. Bad = {}
  <2> HIDE DEF Bad
  <2> QED
    BY <1>1, <1>2, MinimalSubset
<1>4. F[S] = f[y] + F[S \ {y}]
  BY <1>3
<1> QED
  BY <1>4

LEMMA SumAdd ==
  ASSUME NEW S, IsFiniteSet(S), NEW f, NEW y, y \notin S,
         \A x \in S \cup {y} : f[x] \in Int
  PROVE  SumFunctionOnSet(f, S \cup {y}) = f[y] + SumFunctionOnSet(f, S)
<1>1. IsFiniteSet(S \cup {y}) /\ (S \cup {y}) \ {y} = S
  BY FS_AddElement
<1> QED
  BY <1>1, SumRemove

(* The sum depends on the values over the set only.                        *)
LEMMA SumEqual ==
  ASSUME NEW S, IsFiniteSet(S), NEW f, NEW g, \A x \in S : f[x] = g[x]
  PROVE  SumFunctionOnSet(f, S) = SumFunctionOnSet(g, S)
<1> DEFINE Bad == {s \in SUBSET S : SumFunctionOnSet(f, s) # SumFunctionOnSet(g, s)}
<1>1. Bad \subseteq SUBSET S
  OBVIOUS
<1>2. ASSUME NEW m \in Bad, \A s \in Bad : s \subseteq m => s = m PROVE FALSE
  <2>1. IsFiniteSet(m) /\ m # {}
    <3>1. IsFiniteSet(m)
      BY FS_Subset
    <3>2. m # {}
      BY SumEmpty
    <3> QED
      BY <3>1, <3>2
  <2>2. Pick(m) \in m
    BY <2>1, PickIn
  <2>3. SumFunctionOnSet(f, m \ {Pick(m)}) = SumFunctionOnSet(g, m \ {Pick(m)})
    BY <1>2, <2>2
  <2>4. /\ SumFunctionOnSet(f, m) = f[Pick(m)] + SumFunctionOnSet(f, m \ {Pick(m)})
        /\ SumFunctionOnSet(g, m) = g[Pick(m)] + SumFunctionOnSet(g, m \ {Pick(m)})
    BY <2>1, SumPick
  <2> QED
    BY <2>2, <2>3, <2>4
<1> HIDE DEF Bad
<1>3. Bad = {}
  BY <1>1, <1>2, MinimalSubset
<1> QED
  BY <1>3 DEF Bad

(* One value changes.                                                      *)
LEMMA SumUpdate ==
  ASSUME NEW S, IsFiniteSet(S), NEW f, NEW g, NEW y \in S,
         \A x \in S : f[x] \in Int /\ g[x] \in Int,
         \A x \in S \ {y} : g[x] = f[x]
  PROVE  SumFunctionOnSet(g, S) = SumFunctionOnSet(f, S) + (g[y] - f[y])
<1>1. IsFiniteSet(S \ {y})
  BY FS_RemoveElement
<1>2. SumFunctionOnSet(g, S \ {y}) = SumFunctionOnSet(f, S \ {y})
  BY <1>1, SumEqual
<1>3. SumFunctionOnSet(f, S \ {y}) \in Int
  BY <1>1, SumType
<1> QED
  BY <1>2, <1>3, SumRemove

(* Sums keep the order of what is summed, factors included.                *)
LEMMA SumScaled ==
  ASSUME NEW S, IsFiniteSet(S), NEW f, NEW g, NEW a \in Int, NEW b \in Int,
         \A x \in S : f[x] \in Int /\ g[x] \in Int /\ a * f[x] <= b * g[x]
  PROVE  a * SumFunctionOnSet(f, S) <= b * SumFunctionOnSet(g, S)
<1> DEFINE F(s) == SumFunctionOnSet(f, s)
           G(s) == SumFunctionOnSet(g, s)
           Bad == {s \in SUBSET S : ~(a * F(s) <= b * G(s))}
<1>1. Bad \subseteq SUBSET S
  OBVIOUS
<1>2. ASSUME NEW m \in Bad, \A s \in Bad : s \subseteq m => s = m PROVE FALSE
  <2> DEFINE p == Pick(m)
             rest == m \ {p}
  <2>1. IsFiniteSet(m) /\ m # {}
    <3>1. IsFiniteSet(m)
      BY FS_Subset
    <3>2. m # {}
      BY SumEmpty
    <3> QED
      BY <3>1, <3>2
  <2>2. p \in m
    BY <2>1, PickIn
  <2>3. F(m) = f[p] + F(rest) /\ G(m) = g[p] + G(rest)
    BY <2>1, SumPick
  <2>4. IsFiniteSet(rest)
    BY <2>1, FS_RemoveElement
  <2>5. F(rest) \in Int /\ G(rest) \in Int
    BY <2>4, SumType
  <2> HIDE DEF p, F, G
  <2>6. a * F(rest) <= b * G(rest)
    BY <1>2, <2>2
  <2>7. f[p] \in Int /\ g[p] \in Int /\ a * f[p] <= b * g[p]
    BY <2>2
  <2>8. \A x, y \in Int : a * (x + y) = a * x + a * y /\ b * (x + y) = b * x + b * y
    OBVIOUS
  <2> QED
    BY <2>3, <2>5, <2>6, <2>7, <2>8
<1> HIDE DEF Bad
<1>3. Bad = {}
  BY <1>1, <1>2, MinimalSubset
<1> QED
  BY <1>3 DEF Bad

LEMMA SumNat ==
  ASSUME NEW S, IsFiniteSet(S), NEW f, \A x \in S : f[x] \in Nat
  PROVE  SumFunctionOnSet(f, S) \in Nat
<1> DEFINE Bad == {s \in SUBSET S : SumFunctionOnSet(f, s) \notin Nat}
<1>1. Bad \subseteq SUBSET S
  OBVIOUS
<1>2. ASSUME NEW m \in Bad, \A s \in Bad : s \subseteq m => s = m PROVE FALSE
  <2>1. IsFiniteSet(m) /\ m # {}
    <3>1. IsFiniteSet(m)
      BY FS_Subset
    <3>2. m # {}
      BY SumEmpty
    <3> QED
      BY <3>1, <3>2
  <2>2. Pick(m) \in m
    BY <2>1, PickIn
  <2>3. SumFunctionOnSet(f, m \ {Pick(m)}) \in Nat
    BY <1>2, <2>2
  <2>4. SumFunctionOnSet(f, m) = f[Pick(m)] + SumFunctionOnSet(f, m \ {Pick(m)})
    BY <2>1, SumPick
  <2> QED
    BY <2>2, <2>3, <2>4
<1> HIDE DEF Bad
<1>3. Bad = {}
  BY <1>1, <1>2, MinimalSubset
<1> QED
  BY <1>3 DEF Bad

(* Elements of no value do not count.                                      *)
LEMMA SumSupport ==
  ASSUME NEW S, IsFiniteSet(S), NEW T \in SUBSET S, NEW f,
         \A x \in S : f[x] \in Nat, \A x \in S \ T : f[x] = 0
  PROVE  SumFunctionOnSet(f, T) = SumFunctionOnSet(f, S)
<1> DEFINE Bad == {s \in SUBSET S : T \subseteq s /\ SumFunctionOnSet(f, T) # SumFunctionOnSet(f, s)}
<1>1. Bad \subseteq SUBSET S
  OBVIOUS
<1>2. ASSUME NEW m \in Bad, \A s \in Bad : s \subseteq m => s = m PROVE FALSE
  <2>1. PICK x \in m : x \notin T
    OBVIOUS
  <2>2. IsFiniteSet(m)
    BY FS_Subset
  <2>3. SumFunctionOnSet(f, m) = f[x] + SumFunctionOnSet(f, m \ {x})
    BY <2>2, SumRemove
  <2>4. f[x] = 0 /\ SumFunctionOnSet(f, m \ {x}) \in Int
    <3>1. IsFiniteSet(m \ {x}) /\ \A z \in m \ {x} : f[z] \in Int
      BY <2>2, FS_RemoveElement
    <3> QED
      BY <2>1, <3>1, SumType
  <2>5. SumFunctionOnSet(f, m \ {x}) = SumFunctionOnSet(f, T)
    BY <1>2, <2>1
  <2> QED
    BY <2>3, <2>4, <2>5
<1> HIDE DEF Bad
<1>3. Bad = {}
  BY <1>1, <1>2, MinimalSubset
<1> QED
  BY <1>3 DEF Bad

LEMMA SumSubset ==
  ASSUME NEW S, IsFiniteSet(S), NEW T \in SUBSET S, NEW f, \A x \in S : f[x] \in Nat
  PROVE  SumFunctionOnSet(f, T) <= SumFunctionOnSet(f, S)
<1> DEFINE Bad == {s \in SUBSET S : T \subseteq s /\ ~(SumFunctionOnSet(f, T) <= SumFunctionOnSet(f, s))}
<1>0. IsFiniteSet(T) /\ SumFunctionOnSet(f, T) \in Int
  BY FS_Subset, SumType
<1>1. Bad \subseteq SUBSET S
  OBVIOUS
<1>2. ASSUME NEW m \in Bad, \A s \in Bad : s \subseteq m => s = m PROVE FALSE
  <2>0. T # m
    BY <1>0
  <2>1. PICK x \in m : x \notin T
    BY <2>0
  <2>2. IsFiniteSet(m)
    BY FS_Subset
  <2>3. SumFunctionOnSet(f, m) = f[x] + SumFunctionOnSet(f, m \ {x})
    BY <2>2, SumRemove
  <2>4. f[x] \in Nat /\ SumFunctionOnSet(f, m \ {x}) \in Int
    <3>1. IsFiniteSet(m \ {x}) /\ \A z \in m \ {x} : f[z] \in Int
      BY <2>2, FS_RemoveElement
    <3> QED
      BY <2>1, <3>1, SumType
  <2>5. SumFunctionOnSet(f, T) <= SumFunctionOnSet(f, m \ {x})
    BY <1>2, <2>1
  <2> QED
    BY <1>0, <2>3, <2>4, <2>5
<1> HIDE DEF Bad
<1>3. Bad = {}
  BY <1>1, <1>2, MinimalSubset
<1>4. S \notin Bad
  BY <1>3
<1> QED
  BY <1>4 DEF Bad
(* The terms of a sum may be renamed.                                      *)
LEMMA SumRenamed ==
  ASSUME NEW S, IsFiniteSet(S), NEW f, \A x \in S : f[x] \in Int,
         NEW T, IsFiniteSet(T), NEW h \in [T -> S], NEW g,
         \A t \in T : g[t] = f[h[t]],
         \A t, u \in T : h[t] = h[u] => t = u,
         \A x \in S : \E t \in T : h[t] = x
  PROVE  SumFunctionOnSet(g, T) = SumFunctionOnSet(f, S)
<1> DEFINE Image(m) == {h[t] : t \in m}
           Bad == {m \in SUBSET T : SumFunctionOnSet(g, m) # SumFunctionOnSet(f, Image(m))}
<1>1. Bad \subseteq SUBSET T
  OBVIOUS
<1>2. ASSUME NEW m \in Bad, \A s \in Bad : s \subseteq m => s = m PROVE FALSE
  <2> DEFINE p == Pick(m)
  <2>1. IsFiniteSet(m) /\ m \in SUBSET T
    <3>1. m \in SUBSET T
      OBVIOUS
    <3> QED
      BY <3>1, FS_Subset
  <2>2. m # {}
    <3>1. Image({}) = {}
      OBVIOUS
    <3> QED
      BY <3>1, SumEmpty
  <2>3. p \in m
    BY <2>2, PickIn
  <2>4. m \ {p} \in SUBSET T /\ m \ {p} \notin Bad
    BY <1>2, <2>1, <2>3
  <2>5. SumFunctionOnSet(g, m) = g[p] + SumFunctionOnSet(g, m \ {p})
    BY <2>1, <2>2, SumPick
  <2> HIDE DEF p
  <2>6. Image(m) \ {h[p]} = Image(m \ {p})
    BY <2>1, <2>3
  <2>7. /\ IsFiniteSet(Image(m)) /\ h[p] \in Image(m)
        /\ \A x \in Image(m) : f[x] \in Int
    <3>1. Image(m) \in SUBSET S
      BY <2>1
    <3> HIDE DEF Image
    <3>2. IsFiniteSet(Image(m))
      BY <3>1, FS_Subset
    <3> QED
      BY <2>3, <3>1, <3>2 DEF Image
  <2>8. SumFunctionOnSet(f, Image(m)) = f[h[p]] + SumFunctionOnSet(f, Image(m) \ {h[p]})
    <3> HIDE DEF Image
    <3> QED
      BY <2>7, SumRemove
  <2>9. SumFunctionOnSet(g, m \ {p}) = SumFunctionOnSet(f, Image(m \ {p}))
    BY <2>4
  <2>10. SumFunctionOnSet(g, m) # SumFunctionOnSet(f, Image(m))
    OBVIOUS
  <2>11. g[p] = f[h[p]]
    BY <2>1, <2>3
  <2> HIDE DEF Image, Bad
  <2> QED
    BY <2>5, <2>6, <2>8, <2>9, <2>10, <2>11
<1>3. Bad = {}
  <2> HIDE DEF Bad
  <2> QED
    BY <1>1, <1>2, MinimalSubset
<1>4. Image(T) = S
  OBVIOUS
<1>5. SumFunctionOnSet(g, T) = SumFunctionOnSet(f, Image(T))
  BY <1>3
<1> QED
  BY <1>4, <1>5
==============================================================================
