-------------------------- MODULE DataQualityProofs --------------------------
(* The health score of a dataset of any size is one of the data: it depends *)
(* neither on the order of the rows nor on the unit of a sensor.            *)
(*                                                                          *)
(* The library has no fact about SumFunction, Max or Min of a set, or about *)
(* medians: the first half states those that the proofs of this module, and *)
(* of AlgorithmsProofs, need.                                               *)
EXTENDS DataQuality, FiniteSetTheorems, SequenceTheorems, TLAPS

-----------------------------------------------------------------------------
(* Numbers, sets and sums                                                   *)

(* A set of naturals has a least element.                                   *)
LEMMA LeastNumber ==
    ASSUME NEW S \in SUBSET Nat, S # {}
    PROVE  \E x \in S : \A y \in S : x <= y
<1> DEFINE less == {p \in Nat \X Nat : p[1] < p[2]}
<1>1. IsWellFoundedOn(less, Nat)
    BY NatLessThanWellFounded DEF OpToRel
<1>2. PICK x \in S : \A y \in S : ~ (<<y, x>> \in less)
  <2> HIDE DEF less
  <2> QED BY <1>1, WFMin
<1>3. ASSUME NEW y \in S PROVE x <= y
  <2>1. x \in Nat /\ y \in Nat /\ <<y, x>> \notin less
      BY <1>2
  <2> QED BY <2>1
<1> QED BY <1>3

(* A set of subsets that holds the empty one and, with one, any that has an *)
(* element more, holds them all.                                            *)
LEMMA SubsetInduction ==
    ASSUME NEW T, IsFiniteSet(T), NEW G \in SUBSET (SUBSET T), {} \in G,
           \A s \in G : \A x \in T \ s : s \cup {x} \in G
    PROVE  SUBSET T \subseteq G
<1> SUFFICES ASSUME (SUBSET T) \ G # {} PROVE FALSE
    OBVIOUS
<1> DEFINE sizes == {Cardinality(s) : s \in (SUBSET T) \ G}
<1>1. \A s \in SUBSET T : IsFiniteSet(s) /\ Cardinality(s) \in Nat
    BY FS_Subset, FS_CardinalityType
<1>2. PICK n \in sizes : \A m \in sizes : n <= m
  <2>1. sizes \in SUBSET Nat /\ sizes # {}
      BY <1>1
  <2> HIDE DEF sizes
  <2> QED BY <2>1, LeastNumber
<1>3. PICK s \in (SUBSET T) \ G : n = Cardinality(s)
    BY <1>2
<1>4. PICK x \in s : TRUE
    BY <1>3
<1>5. Cardinality(s \ {x}) = n - 1 /\ n \in Nat
    BY <1>1, <1>3, FS_RemoveElement
<1>6. s \ {x} \in G
  <2>1. s \ {x} \notin G => Cardinality(s \ {x}) \in sizes
      BY <1>3
  <2> HIDE DEF sizes
  <2> QED BY <1>2, <1>5, <2>1
<1>7. (s \ {x}) \cup {x} \in G
    BY <1>3, <1>4, <1>6
<1> QED BY <1>3, <1>4, <1>7

-----------------------------------------------------------------------------
(* The sum of f over T, by the recursion of the library's fold.             *)
Picked(s) == CHOOSE x \in s : TRUE

Adds(f, D, h) ==
    h = [s \in D |-> IF s = {} THEN 0 ELSE f[Picked(s)] + h[s \ {Picked(s)}]]

UpTo(T, n) == {s \in SUBSET T : Cardinality(s) <= n}

LEMMA PickedIsIn == ASSUME NEW s, s # {} PROVE Picked(s) \in s
BY DEF Picked

LEMMA SumIsAdded ==
    ASSUME NEW f, NEW T
    PROVE  \E h : (\E g : Adds(f, SUBSET T, g)) => Adds(f, SUBSET T, h) /\ SumFunctionOnSet(f, T) = h[T]
<1> DEFINE h == CHOOSE h : Adds(f, SUBSET T, h)
<1>1. SumFunctionOnSet(f, T) = h[T]
    BY DEF SumFunctionOnSet, FoldFunctionOnSet, MapThenFoldSet, Adds, Picked
<1>2. (\E g : Adds(f, SUBSET T, g)) => Adds(f, SUBSET T, h)
  <2> HIDE DEF Adds
  <2> QED OBVIOUS
<1> QED BY <1>1, <1>2

LEMMA AddsExists ==
    ASSUME NEW T, IsFiniteSet(T), NEW f, \A x \in T : f[x] \in Int
    PROVE  \E h \in [SUBSET T -> Int] : Adds(f, SUBSET T, h)
<1> DEFINE Good(n) == \E h \in [UpTo(T, n) -> Int] : Adds(f, UpTo(T, n), h)
           bad == {n \in Nat : ~Good(n)}
<1>1. \A s \in SUBSET T : IsFiniteSet(s) /\ Cardinality(s) \in Nat /\ (Cardinality(s) = 0 <=> s = {})
    BY FS_Subset, FS_CardinalityType, FS_EmptySet
<1>2. Good(0)
  <2> DEFINE g == [s \in {{}} |-> 0]
  <2>1. UpTo(T, 0) = {{}}
      BY <1>1 DEF UpTo
  <2>2. g \in [{{}} -> Int] /\ Adds(f, {{}}, g)
      BY DEF Adds
  <2> QED BY <2>1, <2>2
<1>3. ASSUME NEW n \in Nat, Good(n) PROVE Good(n + 1)
  <2> DEFINE D == UpTo(T, n)
             E == UpTo(T, n + 1)
  <2>1. PICK h \in [D -> Int] : Adds(f, D, h)
      BY <1>3
  <2> DEFINE g == [s \in E |-> IF s = {} THEN 0 ELSE f[Picked(s)] + h[s \ {Picked(s)}]]
  <2>2. \A s \in E : s # {} => s \ {Picked(s)} \in D /\ Picked(s) \in T
    <3>1. ASSUME NEW s \in E, s # {}
          PROVE  /\ Picked(s) \in s /\ s \in SUBSET T /\ Cardinality(s) <= n + 1
                 /\ Cardinality(s \ {Picked(s)}) = Cardinality(s) - 1 /\ Cardinality(s) \in Nat
        BY <1>1, <3>1, PickedIsIn, FS_RemoveElement DEF UpTo
    <3>2. ASSUME NEW s \in E, s # {} PROVE s \ {Picked(s)} \in D /\ Picked(s) \in T
        BY <3>1, <3>2 DEF UpTo
    <3> QED BY <3>2
  <2>3. \A s \in D : s \in E
      BY <1>1 DEF UpTo
  <2>4. g \in [E -> Int]
      BY <2>2
  <2>5. \A s \in D : h[s] = IF s = {} THEN 0 ELSE f[Picked(s)] + h[s \ {Picked(s)}]
    <3>1. h = [s \in D |-> IF s = {} THEN 0 ELSE f[Picked(s)] + h[s \ {Picked(s)}]]
        BY <2>1 DEF Adds
    <3> HIDE DEF D
    <3> QED BY <3>1
  <2>6. \A s \in D : g[s] = h[s]
      BY <2>3, <2>5
  <2>7. g = [s \in E |-> IF s = {} THEN 0 ELSE f[Picked(s)] + g[s \ {Picked(s)}]]
      BY <2>2, <2>6
  <2>8. Adds(f, E, g)
    <3> HIDE DEF g, E
    <3> QED BY <2>7 DEF Adds
  <2> HIDE DEF g
  <2> QED BY <2>4, <2>8
<1>4. bad = {}
  <2> HIDE DEF Good
  <2> SUFFICES ASSUME bad # {} PROVE FALSE
      OBVIOUS
  <2>1. PICK n \in bad : \A m \in bad : n <= m
      BY LeastNumber
  <2>2. n # 0 /\ n \in Nat
      BY <1>2, <2>1
  <2>3. n - 1 \in Nat /\ n - 1 \notin bad
      BY <2>1, <2>2
  <2>4. Good((n - 1) + 1)
      BY <1>3, <2>3
  <2> QED BY <2>1, <2>2, <2>4
<1>5. UpTo(T, Cardinality(T)) = SUBSET T
    BY FS_Subset DEF UpTo
<1>6. Good(Cardinality(T))
  <2> HIDE DEF Good
  <2> QED BY <1>1, <1>4
<1> QED BY <1>5, <1>6

(* A sum over the subsets of T: nothing for none, and any element may be    *)
(* taken out first.                                                         *)
SumsOver(f, T, h) ==
    /\ h \in [SUBSET T -> Int] /\ h[{}] = 0
    /\ \A s \in SUBSET T : \A x \in s : h[s] = f[x] + h[s \ {x}]

LEMMA AnyIsTakenOut ==
    ASSUME NEW T, IsFiniteSet(T), NEW f, \A x \in T : f[x] \in Int,
           NEW h \in [SUBSET T -> Int], Adds(f, SUBSET T, h)
    PROVE  SumsOver(f, T, h)
<1>1. \A s \in SUBSET T : h[s] = IF s = {} THEN 0 ELSE f[Picked(s)] + h[s \ {Picked(s)}]
  <2>1. h = [s \in SUBSET T |-> IF s = {} THEN 0 ELSE f[Picked(s)] + h[s \ {Picked(s)}]]
      BY DEF Adds
  <2> QED BY <2>1, Zenon
<1> DEFINE sizes == {n \in Nat : \E s \in SUBSET T : Cardinality(s) = n /\ \E x \in s : h[s] # f[x] + h[s \ {x}]}
<1>2. \A s \in SUBSET T : IsFiniteSet(s) /\ Cardinality(s) \in Nat
    BY FS_Subset, FS_CardinalityType
<1>3. sizes = {}
  <2> SUFFICES ASSUME sizes # {} PROVE FALSE
      OBVIOUS
  <2>1. PICK n \in sizes : \A m \in sizes : n <= m
    <3>1. sizes \in SUBSET Nat
        OBVIOUS
    <3> HIDE DEF sizes
    <3> QED BY <3>1, LeastNumber
  <2>a. PICK s \in SUBSET T : Cardinality(s) = n /\ \E x \in s : h[s] # f[x] + h[s \ {x}]
      BY <2>1
  <2>2. PICK x \in s : h[s] # f[x] + h[s \ {x}]
      BY <2>a
  <2> DEFINE y == Picked(s)
  <2>3. y \in s /\ h[s] = f[y] + h[s \ {y}] /\ x # y
      BY <1>1, <2>2, PickedIsIn
  <2> HIDE DEF y
  <2>4. ASSUME NEW t \in SUBSET T, t \subseteq s, t # s, NEW z \in t PROVE h[t] = f[z] + h[t \ {z}]
    <3>1. Cardinality(t) \in Nat /\ Cardinality(s) \in Nat /\ Cardinality(t) <= Cardinality(s)
          /\ Cardinality(s) # Cardinality(t)
        BY <1>2, <2>4, FS_Subset
    <3>2. Cardinality(t) \notin sizes
      <4> HIDE DEF sizes
      <4> QED BY <2>1, <2>a, <3>1
    <3> QED BY <3>1, <3>2
  <2>5. h[s \ {x}] = f[y] + h[(s \ {x}) \ {y}]
      BY <2>2, <2>3, <2>4
  <2>6. h[s \ {y}] = f[x] + h[(s \ {y}) \ {x}]
      BY <2>2, <2>3, <2>4
  <2>7. (s \ {x}) \ {y} = (s \ {y}) \ {x} /\ (s \ {x}) \ {y} \in SUBSET T
      OBVIOUS
  <2>8. f[x] \in Int /\ f[y] \in Int /\ h[(s \ {x}) \ {y}] \in Int
      BY <2>3, <2>7
  <2>9. h[s \ {y}] = f[x] + h[(s \ {x}) \ {y}]
      BY <2>6, <2>7, Zenon
  <2>10. h[s] = f[x] + h[s \ {x}]
    <3> DEFINE hs == h[s]  u == h[s \ {y}]  v == h[s \ {x}]  hr == h[(s \ {x}) \ {y}]  a == f[y]  b == f[x]
    <3>1. hs = a + u /\ v = a + hr /\ u = b + hr /\ a \in Int /\ b \in Int /\ hr \in Int
        BY <2>3, <2>5, <2>8, <2>9
    <3>2. hs = b + v
      <4> HIDE DEF hs, u, v, hr, a, b
      <4> QED BY <3>1
    <3> QED BY <3>2
  <2> QED BY <2>2, <2>10
<1>4. ASSUME NEW s \in SUBSET T, NEW x \in s PROVE h[s] = f[x] + h[s \ {x}]
  <2>1. Cardinality(s) \in Nat /\ Cardinality(s) \notin sizes
      BY <1>2, <1>3
  <2> QED BY <2>1
<1>5. h[{}] = 0
    BY <1>1
<1> QED BY <1>4, <1>5 DEF SumsOver

LEMMA SumsAreUnique ==
    ASSUME NEW T, IsFiniteSet(T), NEW f, NEW h, SumsOver(f, T, h), NEW g, SumsOver(f, T, g)
    PROVE  \A s \in SUBSET T : h[s] = g[s]
<1> DEFINE G == {s \in SUBSET T : h[s] = g[s]}
<1>1. {} \in G
    BY DEF SumsOver
<1>2. ASSUME NEW s \in G, NEW x \in T \ s PROVE s \cup {x} \in G
  <2>1. h[s \cup {x}] = f[x] + h[(s \cup {x}) \ {x}] /\ g[s \cup {x}] = f[x] + g[(s \cup {x}) \ {x}]
      BY DEF SumsOver
  <2>2. (s \cup {x}) \ {x} = s
      OBVIOUS
  <2> QED BY <2>1, <2>2
<1> HIDE DEF G
<1>3. SUBSET T \subseteq G
  <2>1. G \in SUBSET (SUBSET T)
      BY DEF G
  <2> QED BY <1>1, <1>2, <2>1, SubsetInduction
<1> QED BY <1>3 DEF G

(* The sums of f over all subsets of a finite set.                          *)
LEMMA SumsAreTheFold ==
    ASSUME NEW T, IsFiniteSet(T), NEW f, \A x \in T : f[x] \in Int
    PROVE  \E h : SumsOver(f, T, h) /\ SumFunctionOnSet(f, T) = h[T]
<1>1. PICK g \in [SUBSET T -> Int] : Adds(f, SUBSET T, g)
    BY AddsExists
<1>2. PICK h : Adds(f, SUBSET T, h) /\ SumFunctionOnSet(f, T) = h[T]
    BY <1>1, SumIsAdded
<1>3. h = g
  <2> DEFINE G == {s \in SUBSET T : h[s] = g[s]}
  <2>1. \A s \in SUBSET T : /\ h[s] = IF s = {} THEN 0 ELSE f[Picked(s)] + h[s \ {Picked(s)}]
                            /\ g[s] = IF s = {} THEN 0 ELSE f[Picked(s)] + g[s \ {Picked(s)}]
    <3>1. /\ h = [s \in SUBSET T |-> IF s = {} THEN 0 ELSE f[Picked(s)] + h[s \ {Picked(s)}]]
          /\ g = [s \in SUBSET T |-> IF s = {} THEN 0 ELSE f[Picked(s)] + g[s \ {Picked(s)}]]
        BY <1>1, <1>2 DEF Adds
    <3> QED BY <3>1, Zenon
  <2> DEFINE sizes == {n \in Nat : \E s \in SUBSET T : Cardinality(s) = n /\ h[s] # g[s]}
  <2>2. \A s \in SUBSET T : IsFiniteSet(s) /\ Cardinality(s) \in Nat
      BY FS_Subset, FS_CardinalityType
  <2>3. sizes = {}
    <3> SUFFICES ASSUME sizes # {} PROVE FALSE
        OBVIOUS
    <3>1. PICK n \in sizes : \A m \in sizes : n <= m
      <4>1. sizes \in SUBSET Nat
          OBVIOUS
      <4> HIDE DEF sizes
      <4> QED BY <4>1, LeastNumber
    <3>2. PICK s \in SUBSET T : Cardinality(s) = n /\ h[s] # g[s]
        BY <3>1
    <3>3. s # {} /\ Picked(s) \in s
        BY <2>1, <3>2, PickedIsIn
    <3> DEFINE r == s \ {Picked(s)}
    <3>a. r \in SUBSET T /\ Cardinality(r) \in Nat /\ n \in Nat
        BY <2>2, <3>2
    <3>b. Cardinality(r) = n - 1
        BY <2>2, <3>2, <3>3, FS_RemoveElement
    <3>4. Cardinality(s \ {Picked(s)}) = n - 1 /\ n \in Nat /\ n - 1 \in Nat /\ s \ {Picked(s)} \in SUBSET T
        BY <3>a, <3>b
    <3>5. n - 1 \notin sizes
      <4> HIDE DEF sizes
      <4> QED BY <3>1, <3>4
    <3>6. h[s \ {Picked(s)}] = g[s \ {Picked(s)}]
        BY <3>4, <3>5
    <3> QED BY <2>1, <3>2, <3>3, <3>6
  <2>4. \A s \in SUBSET T : h[s] = g[s]
      BY <2>2, <2>3
  <2>5. h = [s \in SUBSET T |-> h[s]]
    <3>1. h = [s \in SUBSET T |-> IF s = {} THEN 0 ELSE f[Picked(s)] + h[s \ {Picked(s)}]]
        BY <1>2 DEF Adds
    <3> QED BY <2>1, <3>1
  <2> QED BY <2>4, <2>5
<1>4. SumsOver(f, T, h)
    BY <1>2, <1>3, AnyIsTakenOut
<1> QED BY <1>2, <1>4

(* A sum is what is left without an element, and that element.              *)
LEMMA SumRemove ==
    ASSUME NEW T, IsFiniteSet(T), NEW f, \A x \in T : f[x] \in Int, NEW x \in T
    PROVE  SumFunctionOnSet(f, T) = f[x] + SumFunctionOnSet(f, T \ {x})
<1> DEFINE R == T \ {x}
<1>1. PICK h : SumsOver(f, T, h) /\ SumFunctionOnSet(f, T) = h[T]
    BY SumsAreTheFold
<1>2. IsFiniteSet(R) /\ R \subseteq T
    BY FS_RemoveElement
<1>3. PICK g : SumsOver(f, R, g) /\ SumFunctionOnSet(f, R) = g[R]
    BY <1>2, SumsAreTheFold
<1> DEFINE k == [s \in SUBSET R |-> h[s]]
<1>4. SumsOver(f, R, k)
    BY <1>1, <1>2 DEF SumsOver
<1>5. k[R] = g[R]
  <2> HIDE DEF k
  <2> QED BY <1>2, <1>3, <1>4, SumsAreUnique
<1>6. h[T] = f[x] + h[T \ {x}]
    BY <1>1 DEF SumsOver
<1> QED BY <1>1, <1>3, <1>5, <1>6

LEMMA SumOfNone == ASSUME NEW f PROVE SumFunctionOnSet(f, {}) = 0
<1>1. IsFiniteSet({})
    BY FS_EmptySet
<1>2. PICK h : SumsOver(f, {}, h) /\ SumFunctionOnSet(f, {}) = h[{}]
    BY <1>1, SumsAreTheFold
<1> QED BY <1>2 DEF SumsOver

LEMMA SumType ==
    ASSUME NEW T, IsFiniteSet(T), NEW f, \A x \in T : f[x] \in Int
    PROVE  SumFunctionOnSet(f, T) \in Int
<1>1. PICK h : SumsOver(f, T, h) /\ SumFunctionOnSet(f, T) = h[T]
    BY SumsAreTheFold
<1> QED BY <1>1 DEF SumsOver

LEMMA SumAdd ==
    ASSUME NEW T, IsFiniteSet(T), NEW f, \A x \in T : f[x] \in Int, NEW s \in SUBSET T, NEW x \in T \ s
    PROVE  SumFunctionOnSet(f, s \cup {x}) = f[x] + SumFunctionOnSet(f, s)
<1>1. IsFiniteSet(s \cup {x}) /\ (s \cup {x}) \ {x} = s /\ \A y \in s \cup {x} : f[y] \in Int
    BY FS_Subset
<1> QED BY <1>1, SumRemove

(* Sums of the same values are the same.                                    *)
LEMMA SumSame ==
    ASSUME NEW T, IsFiniteSet(T), NEW f, NEW g, \A x \in T : f[x] \in Int /\ f[x] = g[x]
    PROVE  SumFunctionOnSet(f, T) = SumFunctionOnSet(g, T)
<1> DEFINE G == {s \in SUBSET T : SumFunctionOnSet(f, s) = SumFunctionOnSet(g, s)}
<1>1. {} \in G
    BY SumOfNone
<1>2. ASSUME NEW s \in G, NEW x \in T \ s PROVE s \cup {x} \in G
  <2>1. SumFunctionOnSet(f, s \cup {x}) = f[x] + SumFunctionOnSet(f, s)
      BY SumAdd
  <2>2. SumFunctionOnSet(g, s \cup {x}) = g[x] + SumFunctionOnSet(g, s)
    <3>1. \A y \in T : g[y] \in Int
        OBVIOUS
    <3> QED BY <3>1, SumAdd
  <2> QED BY <2>1, <2>2
<1>3. T \in G
  <2>1. G \in SUBSET (SUBSET T)
      OBVIOUS
  <2> HIDE DEF G
  <2> QED BY <1>1, <1>2, <2>1, SubsetInduction
<1> QED BY <1>3

LEMMA SumOfZeros ==
    ASSUME NEW T, IsFiniteSet(T), NEW f, \A x \in T : f[x] = 0
    PROVE  SumFunctionOnSet(f, T) = 0
<1> DEFINE G == {s \in SUBSET T : SumFunctionOnSet(f, s) = 0}
<1>1. {} \in G
    BY SumOfNone
<1>2. ASSUME NEW s \in G, NEW x \in T \ s PROVE s \cup {x} \in G
  <2>1. SumFunctionOnSet(f, s \cup {x}) = f[x] + SumFunctionOnSet(f, s)
    <3>1. \A y \in T : f[y] \in Int
        OBVIOUS
    <3> QED BY <3>1, SumAdd
  <2> QED BY <2>1
<1>3. T \in G
  <2>1. G \in SUBSET (SUBSET T)
      OBVIOUS
  <2> HIDE DEF G
  <2> QED BY <1>1, <1>2, <2>1, SubsetInduction
<1> QED BY <1>3

LEMMA SumScaled ==
    ASSUME NEW T, IsFiniteSet(T), NEW f, NEW g, NEW c \in Int,
           \A x \in T : f[x] \in Int /\ g[x] = c * f[x]
    PROVE  SumFunctionOnSet(g, T) = c * SumFunctionOnSet(f, T)
<1> DEFINE G == {s \in SUBSET T : SumFunctionOnSet(g, s) = c * SumFunctionOnSet(f, s)}
<1>1. {} \in G
    BY SumOfNone
<1>2. ASSUME NEW s \in G, NEW x \in T \ s PROVE s \cup {x} \in G
  <2>1. SumFunctionOnSet(f, s \cup {x}) = f[x] + SumFunctionOnSet(f, s)
      BY SumAdd
  <2>2. SumFunctionOnSet(g, s \cup {x}) = g[x] + SumFunctionOnSet(g, s)
    <3>1. \A y \in T : g[y] \in Int
        OBVIOUS
    <3> QED BY <3>1, SumAdd
  <2>3. SumFunctionOnSet(f, s) \in Int
    <3>1. IsFiniteSet(s)
        BY FS_Subset
    <3> QED BY <3>1, SumType
  <2> DEFINE F == SumFunctionOnSet(f, s)
  <2>4. SumFunctionOnSet(g, s \cup {x}) = c * f[x] + c * F
      BY <2>2
  <2>5. c * f[x] + c * F = c * (f[x] + F)
    <3>1. f[x] \in Int /\ F \in Int
        BY <2>3
    <3> HIDE DEF F
    <3> QED BY <3>1
  <2> QED BY <2>1, <2>4, <2>5
<1>3. T \in G
  <2>1. G \in SUBSET (SUBSET T)
      OBVIOUS
  <2> HIDE DEF G
  <2> QED BY <1>1, <1>2, <2>1, SubsetInduction
<1> QED BY <1>3

CountIn(b, s, v) == Cardinality({i \in s : b[i] = v})

LEMMA CountAdd ==
    ASSUME NEW b, NEW s, IsFiniteSet(s), NEW x, x \notin s, NEW v
    PROVE  /\ CountIn(b, s, v) \in Nat
           /\ CountIn(b, s \cup {x}, v) = IF b[x] = v THEN CountIn(b, s, v) + 1 ELSE CountIn(b, s, v)
<1> DEFINE C == {i \in s : b[i] = v}
<1>1. IsFiniteSet(C) /\ x \notin C
    BY FS_Subset
<1>2. {i \in s \cup {x} : b[i] = v} = IF b[x] = v THEN C \cup {x} ELSE C
    OBVIOUS
<1>3. Cardinality(C \cup {x}) = Cardinality(C) + 1 /\ Cardinality(C) \in Nat
    BY <1>1, FS_AddElement, FS_CardinalityType
<1> QED BY <1>2, <1>3 DEF CountIn

(* A sum over rows is one over values, each as often as it is found.        *)
LEMMA SumByValue ==
    ASSUME NEW D, IsFiniteSet(D), NEW V, IsFiniteSet(V), NEW b, \A i \in D : b[i] \in V,
           NEW h, \A v \in V : h[v] \in Int,
           NEW f, \A i \in D : f[i] = h[b[i]],
           NEW g, \A v \in V : g[v] = h[v] * CountIn(b, D, v)
    PROVE  SumFunctionOnSet(f, D) = SumFunctionOnSet(g, V)
<1> DEFINE by(s) == [v \in V |-> h[v] * CountIn(b, s, v)]
           G == {s \in SUBSET D : SumFunctionOnSet(f, s) = SumFunctionOnSet(by(s), V)}
<1>0. \A s \in SUBSET D : IsFiniteSet(s) /\ \A v \in V : CountIn(b, s, v) \in Nat
  <2>1. ASSUME NEW s \in SUBSET D, NEW v \in V PROVE IsFiniteSet(s) /\ CountIn(b, s, v) \in Nat
    <3>1. IsFiniteSet(s)
        BY FS_Subset
    <3>2. IsFiniteSet({i \in s : b[i] = v})
        BY <3>1, FS_Subset
    <3> QED BY <3>1, <3>2, FS_CardinalityType DEF CountIn
  <2>2. \A s \in SUBSET D : IsFiniteSet(s)
      BY FS_Subset
  <2> QED BY <2>1, <2>2
<1>1. {} \in G
  <2>1. \A v \in V : by({})[v] = 0
    <3>1. \A v \in V : CountIn(b, {}, v) = 0
      <4>1. \A v : {i \in {} : b[i] = v} = {}
          OBVIOUS
      <4> QED BY <4>1, FS_EmptySet DEF CountIn
    <3> QED BY <3>1
  <2>2. SumFunctionOnSet(by({}), V) = 0
    <3> HIDE DEF by
    <3> QED BY <2>1, SumOfZeros
  <2> QED BY <2>2, SumOfNone
<1>2. ASSUME NEW s \in G, NEW x \in D \ s PROVE s \cup {x} \in G
  <2> DEFINE t == s \cup {x}
             w == b[x]
             R == V \ {w}
  <2>1. SumFunctionOnSet(f, t) = h[w] + SumFunctionOnSet(f, s)
    <3>1. \A i \in D : f[i] \in Int
        OBVIOUS
    <3> QED BY <3>1, SumAdd
  <2>2. s \in SUBSET D /\ t \in SUBSET D /\ w \in V /\ IsFiniteSet(s) /\ IsFiniteSet(R)
      BY <1>0, FS_Subset
  <2>3. \A v \in V : by(t)[v] \in Int /\ by(s)[v] \in Int
    <3>1. ASSUME NEW u \in SUBSET D, NEW v \in V PROVE by(u)[v] \in Int
      <4>1. CountIn(b, u, v) \in Nat /\ h[v] \in Int
          BY <1>0
      <4>2. \A c \in Nat, k \in Int : k * c \in Int
          OBVIOUS
      <4>3. by(u)[v] = h[v] * CountIn(b, u, v)
          OBVIOUS
      <4> HIDE DEF by
      <4> QED BY <4>1, <4>2, <4>3
    <3> HIDE DEF by
    <3> QED BY <2>2, <3>1
  <2>4. SumFunctionOnSet(by(t), V) = by(t)[w] + SumFunctionOnSet(by(t), R)
    <3> HIDE DEF by, t, w
    <3> QED BY <2>2, <2>3, SumRemove
  <2>5. SumFunctionOnSet(by(s), V) = by(s)[w] + SumFunctionOnSet(by(s), R)
    <3> HIDE DEF by, t, w
    <3> QED BY <2>2, <2>3, SumRemove
  <2>6. \A v \in V : CountIn(b, t, v) = IF w = v THEN CountIn(b, s, v) + 1 ELSE CountIn(b, s, v)
      BY <2>2, CountAdd
  <2>7. SumFunctionOnSet(by(t), R) = SumFunctionOnSet(by(s), R)
    <3>1. \A v \in R : by(t)[v] \in Int /\ by(t)[v] = by(s)[v]
        BY <2>3, <2>6
    <3> HIDE DEF by, t, R
    <3> QED BY <2>2, <3>1, SumSame
  <2>8. by(t)[w] = h[w] + by(s)[w]
    <3>1. CountIn(b, s, w) \in Nat /\ h[w] \in Int
        BY <1>0, <2>2
    <3>2. \A c \in Nat, k \in Int : k * (c + 1) = k + k * c
        OBVIOUS
    <3>3. by(t)[w] = h[w] * (CountIn(b, s, w) + 1) /\ by(s)[w] = h[w] * CountIn(b, s, w)
        BY <2>2, <2>6
    <3> HIDE DEF by, t, w
    <3> QED BY <3>1, <3>2, <3>3
  <2>9. SumFunctionOnSet(by(s), R) \in Int /\ by(s)[w] \in Int /\ h[w] \in Int
    <3>1. \A v \in R : by(s)[v] \in Int
        BY <2>3
    <3>2. SumFunctionOnSet(by(s), R) \in Int
      <4> HIDE DEF by, R
      <4> QED BY <2>2, <3>1, SumType
    <3> QED BY <2>2, <2>3, <3>2
  <2>10. SumFunctionOnSet(f, s) = SumFunctionOnSet(by(s), V)
      OBVIOUS
  <2>11. SumFunctionOnSet(f, t) = SumFunctionOnSet(by(t), V)
    <3> HIDE DEF by, t, w, R
    <3> QED BY <2>1, <2>4, <2>5, <2>7, <2>8, <2>9, <2>10
  <2> HIDE DEF by
  <2> QED BY <2>2, <2>11
<1>3. D \in G
  <2>1. G \in SUBSET (SUBSET D)
      OBVIOUS
  <2> HIDE DEF G
  <2> QED BY <1>1, <1>2, <2>1, SubsetInduction
<1>4. SumFunctionOnSet(by(D), V) = SumFunctionOnSet(g, V)
  <2>1. \A v \in V : by(D)[v] \in Int /\ by(D)[v] = g[v]
      BY <1>0
  <2> HIDE DEF by
  <2> QED BY <2>1, SumSame
<1> QED BY <1>3, <1>4

(* Two windows with the same shares of values have the same means of any    *)
(* function of them.                                                        *)
LEMMA SameSharesSameMeans ==
    ASSUME NEW B, IsFiniteSet(B), NEW P, IsFiniteSet(P), NEW V, IsFiniteSet(V),
           NEW b, \A i \in B : b[i] \in V, NEW p, \A i \in P : p[i] \in V,
           NEW n \in Int, NEW m \in Int, \A v \in V : CountIn(b, B, v) * m = CountIn(p, P, v) * n,
           NEW h, \A v \in V : h[v] \in Int,
           NEW f, \A i \in B : f[i] = h[b[i]], NEW g, \A i \in P : g[i] = h[p[i]]
    PROVE  SumFunctionOnSet(f, B) * m = SumFunctionOnSet(g, P) * n
<1> DEFINE fb == [v \in V |-> h[v] * CountIn(b, B, v)]
           fp == [v \in V |-> h[v] * CountIn(p, P, v)]
           both == [v \in V |-> m * fb[v]]
<1>1. \A v \in V : CountIn(b, B, v) \in Nat /\ CountIn(p, P, v) \in Nat
  <2>1. ASSUME NEW v \in V PROVE CountIn(b, B, v) \in Nat /\ CountIn(p, P, v) \in Nat
    <3>1. IsFiniteSet({i \in B : b[i] = v}) /\ IsFiniteSet({i \in P : p[i] = v})
        BY FS_Subset
    <3> QED BY <3>1, FS_CardinalityType DEF CountIn
  <2> QED BY <2>1
<1>2. \A v \in V : fb[v] \in Int /\ fp[v] \in Int /\ both[v] = m * fb[v] /\ both[v] = n * fp[v]
  <2>1. ASSUME NEW k \in Int, NEW x \in Nat, NEW y \in Nat, x * m = y * n
        PROVE  m * (k * x) = n * (k * y)
    <3>1. m * (k * x) = k * (x * m) /\ n * (k * y) = k * (y * n)
        OBVIOUS
    <3> QED BY <2>1, <3>1
  <2> QED BY <1>1, <2>1
<1>3. SumFunctionOnSet(f, B) = SumFunctionOnSet(fb, V) /\ SumFunctionOnSet(g, P) = SumFunctionOnSet(fp, V)
  <2>1. \A v \in V : fb[v] = h[v] * CountIn(b, B, v) /\ fp[v] = h[v] * CountIn(p, P, v)
      OBVIOUS
  <2> HIDE DEF fb, fp
  <2> QED BY <2>1, SumByValue
<1>4. SumFunctionOnSet(both, V) = m * SumFunctionOnSet(fb, V)
          /\ SumFunctionOnSet(both, V) = n * SumFunctionOnSet(fp, V)
  <2> HIDE DEF fb, fp, both
  <2> QED BY <1>2, SumScaled
<1>5. SumFunctionOnSet(fb, V) \in Int /\ SumFunctionOnSet(fp, V) \in Int
  <2> HIDE DEF fb, fp, both
  <2> QED BY <1>2, SumType
<1> HIDE DEF fb, fp, both
<1> QED BY <1>3, <1>4, <1>5

(* The rows that are in a set of values are as many as their ones.          *)
LEMMA CountIsSum ==
    ASSUME NEW D, IsFiniteSet(D), NEW U \in SUBSET D,
           NEW f, \A i \in D : f[i] = IF i \in U THEN 1 ELSE 0
    PROVE  Cardinality(U) = SumFunctionOnSet(f, D)
<1> DEFINE G == {s \in SUBSET D : Cardinality(U \cap s) = SumFunctionOnSet(f, s)}
<1>1. {} \in G
    BY SumOfNone, FS_EmptySet
<1>2. ASSUME NEW s \in G, NEW x \in D \ s PROVE s \cup {x} \in G
  <2>1. SumFunctionOnSet(f, s \cup {x}) = f[x] + SumFunctionOnSet(f, s)
    <3>1. \A y \in D : f[y] \in Int
        OBVIOUS
    <3> QED BY <3>1, SumAdd
  <2>2. IsFiniteSet(U \cap s) /\ x \notin U \cap s
      BY FS_Subset
  <2>3. U \cap (s \cup {x}) = IF x \in U THEN (U \cap s) \cup {x} ELSE U \cap s
      OBVIOUS
  <2>4. /\ Cardinality((U \cap s) \cup {x}) = Cardinality(U \cap s) + 1
        /\ Cardinality(U \cap s) \in Nat
      BY <2>2, FS_AddElement, FS_CardinalityType
  <2>5. Cardinality(U \cap s) = SumFunctionOnSet(f, s) /\ f[x] = IF x \in U THEN 1 ELSE 0
      OBVIOUS
  <2>6. Cardinality(U \cap (s \cup {x})) =
            IF x \in U THEN Cardinality(U \cap s) + 1 ELSE Cardinality(U \cap s)
      BY <2>3, <2>4
  <2>7. Cardinality(U \cap (s \cup {x})) = SumFunctionOnSet(f, s \cup {x})
    <3> HIDE DEF G
    <3> QED BY <2>1, <2>4, <2>5, <2>6
  <2> QED BY <2>7
<1>3. D \in G
  <2>1. G \in SUBSET (SUBSET D)
      OBVIOUS
  <2> HIDE DEF G
  <2> QED BY <1>1, <1>2, <2>1, SubsetInduction
<1>4. U \cap D = U
    OBVIOUS
<1> QED BY <1>3, <1>4

(* A finite set of integers has a greatest and a least element.             *)
LEMMA ExtremesExist ==
    ASSUME NEW S \in SUBSET Int, IsFiniteSet(S), S # {}
    PROVE  /\ Max(S) \in S /\ \A y \in S : y <= Max(S)
           /\ Min(S) \in S /\ \A y \in S : Min(S) <= y
<1> DEFINE G == {s \in SUBSET S : s # {} => /\ \E x \in s : \A y \in s : x >= y
                                            /\ \E x \in s : \A y \in s : x <= y}
<1>1. {} \in G
    OBVIOUS
<1>2. ASSUME NEW s \in G, NEW z \in S \ s PROVE s \cup {z} \in G
  <2>1. CASE s = {}
      BY <2>1
  <2>2. CASE s # {}
    <3>1. PICK x \in s : \A y \in s : x >= y
        BY <2>2
    <3>2. PICK u \in s : \A y \in s : u <= y
        BY <2>2
    <3>3. \A y \in s \cup {z} : (IF x >= z THEN x ELSE z) >= y /\ (IF u <= z THEN u ELSE z) <= y
        BY <3>1, <3>2
    <3>4. (IF x >= z THEN x ELSE z) \in s \cup {z} /\ (IF u <= z THEN u ELSE z) \in s \cup {z}
        OBVIOUS
    <3>5. s \cup {z} \in SUBSET S
        OBVIOUS
    <3> QED BY <3>3, <3>4, <3>5
  <2> QED BY <2>1, <2>2
<1>3. S \in G
  <2>1. G \in SUBSET (SUBSET S)
      OBVIOUS
  <2> HIDE DEF G
  <2> QED BY <1>1, <1>2, <2>1, SubsetInduction
<1>4. /\ \E x \in S : \A y \in S : x >= y
      /\ \E x \in S : \A y \in S : x <= y
    BY <1>3
<1> QED BY <1>4 DEF Max, Min

(* Columns of numbers, or of the names of categories.                       *)
Numbers(w) == IsFiniteSet(DOMAIN w) /\ \A i \in DOMAIN w : w[i] \in Int

LEMMA RangeIsFinite ==
    ASSUME NEW w, IsFiniteSet(DOMAIN w)
    PROVE  IsFiniteSet(Range(w))
<1> DEFINE f == [i \in DOMAIN w |-> w[i]]
<1>1. f \in Surjection(DOMAIN w, Range(w))
    BY DEF Surjection, Range
<1> HIDE DEF f
<1> QED BY <1>1, FS_Surjection

-----------------------------------------------------------------------------
(* Bijections, and medians                                                  *)

(* What a bijection maps into U is as much as U.                            *)
LEMMA PreimageCount ==
    ASSUME NEW S, NEW T, IsFiniteSet(T), NEW move \in Bijection(S, T), NEW U \in SUBSET T
    PROVE  /\ IsFiniteSet({x \in S : move[x] \in U})
           /\ Cardinality({x \in S : move[x] \in U}) = Cardinality(U)
<1> DEFINE R == {x \in S : move[x] \in U}
           f == [x \in R |-> move[x]]
<1>1. move \in [S -> T] /\ (\A x, y \in S : move[x] = move[y] => x = y)
          /\ (\A t \in T : \E x \in S : move[x] = t)
    BY DEF Bijection, Injection, Surjection, IsInjective
<1>2. f \in Bijection(R, U)
  <2>1. f \in [R -> U]
      OBVIOUS
  <2>2. \A x, y \in R : f[x] = f[y] => x = y
      BY <1>1
  <2>3. \A t \in U : \E x \in R : f[x] = t
    <3>1. ASSUME NEW t \in U PROVE \E x \in R : f[x] = t
      <4>1. PICK x \in S : move[x] = t
          BY <1>1
      <4>2. x \in R /\ f[x] = t
          BY <4>1
      <4> HIDE DEF R, f
      <4> QED BY <4>2
    <3> QED BY <3>1
  <2> HIDE DEF R, f
  <2> QED BY <2>1, <2>2, <2>3 DEF Bijection, Injection, Surjection, IsInjective
<1>3. IsFiniteSet(U)
    BY FS_Subset
<1>4. DOMAIN f = R
    OBVIOUS
<1>5. IsFiniteSet(R) /\ Cardinality(R) = Cardinality(U)
  <2>1. f \in Injection(R, U) /\ f \in Surjection(R, U)
      BY <1>2 DEF Bijection
  <2> HIDE DEF R, f
  <2> QED BY <1>3, <2>1, FS_Injection
<1> QED BY <1>5

(* What a permutation of D maps into U.                                     *)
LEMMA MovedCount ==
    ASSUME NEW D, IsFiniteSet(D), NEW order \in Bijection(D, D), NEW U \in SUBSET D
    PROVE  Cardinality({i \in D : order[i] \in U}) = Cardinality(U)
BY PreimageCount

LEMMA KthIsMoved ==
    ASSUME NEW S, NEW T, IsFiniteSet(T), NEW move \in Bijection(S, T),
           NEW f, DOMAIN f = T, NEW g, DOMAIN g = S, \A x \in S : g[x] = f[move[x]], NEW k
    PROVE  KthSmallest(g, k) = KthSmallest(f, k)
<1> DEFINE P(h, v) == Cardinality({x \in DOMAIN h : h[x] < v}) < k
               /\ k <= Cardinality({x \in DOMAIN h : h[x] <= v})
<1>1. move \in [S -> T] /\ \A t \in T : \E x \in S : move[x] = t
    BY DEF Bijection, Surjection
<1>2. Range(g) = Range(f)
    BY <1>1 DEF Range
<1>3. ASSUME NEW v PROVE P(g, v) <=> P(f, v)
  <2> DEFINE L == {x \in T : f[x] < v}
             E == {x \in T : f[x] <= v}
  <2>1. {x \in DOMAIN g : g[x] < v} = {x \in S : move[x] \in L}
            /\ {x \in DOMAIN g : g[x] <= v} = {x \in S : move[x] \in E}
      BY <1>1
  <2>2. Cardinality({x \in S : move[x] \in L}) = Cardinality(L)
            /\ Cardinality({x \in S : move[x] \in E}) = Cardinality(E)
      BY PreimageCount
  <2>3. {x \in DOMAIN f : f[x] < v} = L /\ {x \in DOMAIN f : f[x] <= v} = E
      OBVIOUS
  <2> HIDE DEF L, E
  <2> QED BY <2>1, <2>2, <2>3
<1>4. KthSmallest(g, k) = CHOOSE v \in Range(g) : P(g, v)
    BY DEF KthSmallest
<1>5. KthSmallest(f, k) = CHOOSE v \in Range(f) : P(f, v)
    BY DEF KthSmallest
<1> HIDE DEF P
<1> QED BY <1>2, <1>3, <1>4, <1>5

(* A median is one of the values, wherever they are.                        *)
LEMMA MedianIsMoved ==
    ASSUME NEW S, NEW T, IsFiniteSet(T), NEW move \in Bijection(S, T),
           NEW f, DOMAIN f = T, NEW g, DOMAIN g = S, \A x \in S : g[x] = f[move[x]]
    PROVE  TwiceMedian(g) = TwiceMedian(f)
<1>1. Cardinality(S) = Cardinality(T)
  <2>1. {x \in S : move[x] \in T} = S
      BY DEF Bijection, Surjection
  <2> QED BY <2>1, PreimageCount
<1>2. \A k : KthSmallest(g, k) = KthSmallest(f, k)
    BY KthIsMoved
<1> QED BY <1>1, <1>2 DEF TwiceMedian

(* The k-th smallest exists, and is one.                                    *)
IsKth(f, k, v) ==
    /\ v \in Range(f) /\ Cardinality({x \in DOMAIN f : f[x] < v}) < k
    /\ k <= Cardinality({x \in DOMAIN f : f[x] <= v})

LEMMA KthExists ==
    ASSUME NEW f, Numbers(f), NEW k \in 1..Cardinality(DOMAIN f)
    PROVE  /\ IsKth(f, k, KthSmallest(f, k))
           /\ \A v : IsKth(f, k, v) => v = KthSmallest(f, k)
<1> DEFINE S == DOMAIN f
           L(v) == {x \in S : f[x] < v}
           E(v) == {x \in S : f[x] <= v}
<1>1. /\ IsFiniteSet(S) /\ Cardinality(S) \in Nat /\ k \in Nat /\ 1 <= k /\ k <= Cardinality(S) /\ S # {}
      /\ \A U \in SUBSET S : IsFiniteSet(U) /\ Cardinality(U) \in Nat
  <2>1. IsFiniteSet(S)
      BY DEF Numbers
  <2>2. Cardinality(S) \in Nat /\ \A U \in SUBSET S : IsFiniteSet(U) /\ Cardinality(U) \in Nat
      BY <2>1, FS_Subset, FS_CardinalityType
  <2>3. k \in Nat /\ 1 <= k /\ k <= Cardinality(S)
      BY <2>2
  <2>4. S # {}
      BY <2>3, FS_EmptySet
  <2> QED BY <2>1, <2>2, <2>3, <2>4
<1>2. IsFiniteSet(Range(f)) /\ Range(f) \in SUBSET Int /\ Range(f) # {}
  <2>1. IsFiniteSet(Range(f))
      BY <1>1, RangeIsFinite
  <2> QED BY <1>1, <2>1 DEF Range, Numbers
<1> DEFINE V == {v \in Range(f) : k <= Cardinality(E(v))}
<1>3. V # {} /\ IsFiniteSet(V) /\ V \in SUBSET Int
  <2>1. Max(Range(f)) \in Range(f) /\ \A y \in Range(f) : y <= Max(Range(f))
      BY <1>2, ExtremesExist
  <2>2. E(Max(Range(f))) = S
      BY <2>1 DEF Range
  <2>3. Max(Range(f)) \in V
      BY <1>1, <2>1, <2>2
  <2>4. V \in SUBSET Range(f)
      OBVIOUS
  <2> HIDE DEF V
  <2> QED BY <1>2, <2>3, <2>4, FS_Subset
<1> DEFINE m == Min(V)
<1>4. m \in V /\ \A y \in V : m <= y
  <2> HIDE DEF V
  <2> QED BY <1>3, ExtremesExist
<1>5. Cardinality(L(m)) < k
  <2>1. SUFFICES ASSUME k <= Cardinality(L(m)) PROVE FALSE
    <3>1. Cardinality(L(m)) \in Nat
        BY <1>1
    <3> HIDE DEF L, m
    <3> QED BY <1>1, <3>1
  <2> DEFINE W == {f[x] : x \in L(m)}
  <2>2. L(m) # {}
    <3>1. Cardinality(L(m)) \in Nat
        BY <1>1
    <3>2. L(m) = {} => Cardinality(L(m)) = 0
        BY FS_EmptySet
    <3> HIDE DEF L, m
    <3> QED BY <1>1, <2>1, <3>1, <3>2
  <2>3. W # {} /\ W \in SUBSET Range(f)
      BY <2>2 DEF Range
  <2>4. IsFiniteSet(W) /\ W \in SUBSET Int
    <3> HIDE DEF W
    <3> QED BY <1>2, <2>3, FS_Subset
  <2> DEFINE u == Max(W)
  <2>5. u \in W /\ \A y \in W : y <= u
    <3> HIDE DEF W
    <3> QED BY <2>3, <2>4, ExtremesExist
  <2>6. PICK x \in L(m) : u = f[x]
      BY <2>5
  <2> HIDE DEF u
  <2>7. u \in Int /\ m \in Int /\ u < m /\ u \in Range(f)
      BY <1>3, <1>4, <2>3, <2>4, <2>5, <2>6
  <2>8. L(m) \subseteq E(u)
      BY <2>5
  <2>9. k <= Cardinality(E(u))
    <3>1. IsFiniteSet(E(u)) /\ Cardinality(E(u)) \in Nat /\ Cardinality(L(m)) \in Nat
        BY <1>1
    <3>2. Cardinality(L(m)) <= Cardinality(E(u))
      <4> HIDE DEF L, E
      <4> QED BY <2>8, <3>1, FS_Subset
    <3> HIDE DEF L, E
    <3> QED BY <1>1, <2>1, <3>1, <3>2
  <2>10. u \in V
      BY <2>7, <2>9
  <2> HIDE DEF V, m
  <2> QED BY <1>4, <2>7, <2>10
<1>6. IsKth(f, k, m)
    BY <1>4, <1>5 DEF IsKth
<1>7. ASSUME NEW v, IsKth(f, k, v), NEW w, IsKth(f, k, w), v < w PROVE FALSE
  <2>1. v \in Int /\ w \in Int /\ Cardinality(L(w)) < k /\ k <= Cardinality(E(v))
      BY <1>2, <1>7 DEF IsKth
  <2>2. E(v) \subseteq L(w) /\ IsFiniteSet(L(w)) /\ Cardinality(L(w)) \in Nat /\ Cardinality(E(v)) \in Nat
      BY <1>1, <1>7, <2>1 DEF Numbers
  <2>3. Cardinality(E(v)) <= Cardinality(L(w))
    <3> HIDE DEF L, E
    <3> QED BY <2>2, FS_Subset
  <2> HIDE DEF L, E
  <2> QED BY <1>1, <2>1, <2>2, <2>3
<1>8. \A v, w : IsKth(f, k, v) /\ IsKth(f, k, w) => v = w
  <2>1. SUFFICES ASSUME NEW v, IsKth(f, k, v), NEW w, IsKth(f, k, w), v # w PROVE FALSE
      OBVIOUS
  <2>2. v \in Int /\ w \in Int
      BY <1>2, <2>1 DEF IsKth
  <2>3. v < w \/ w < v
      BY <2>1, <2>2
  <2> QED BY <1>7, <2>1, <2>3
<1>9. IsKth(f, k, KthSmallest(f, k))
  <2>1. m \in Range(f) /\ Cardinality({x \in DOMAIN f : f[x] < m}) < k
            /\ k <= Cardinality({x \in DOMAIN f : f[x] <= m})
      BY <1>6 DEF IsKth
  <2> HIDE DEF m
  <2> QED BY <2>1 DEF KthSmallest, IsKth
<1> QED BY <1>8, <1>9

(* Values in another unit have their k-th smallest in that unit.            *)
LEMMA KthIsScaled ==
    ASSUME NEW f, Numbers(f), NEW k \in 1..Cardinality(DOMAIN f), NEW a \in Int, NEW g, DOMAIN g = DOMAIN f,
           \A x \in DOMAIN f : g[x] = 3 * f[x] + a
    PROVE  KthSmallest(g, k) = 3 * KthSmallest(f, k) + a /\ KthSmallest(f, k) \in Int
<1> DEFINE v == KthSmallest(f, k)
<1>1. IsKth(f, k, v)
    BY KthExists
<1>2. v \in Int
    BY <1>1 DEF IsKth, Range, Numbers
<1>3. Numbers(g)
    BY DEF Numbers
<1> HIDE DEF v
<1>4. \A x \in DOMAIN f : f[x] \in Int
    BY DEF Numbers
<1>5. /\ {x \in DOMAIN g : g[x] < 3 * v + a} = {x \in DOMAIN f : f[x] < v}
      /\ {x \in DOMAIN g : g[x] <= 3 * v + a} = {x \in DOMAIN f : f[x] <= v}
    BY <1>2, <1>4
<1>6. 3 * v + a \in Range(g)
    BY <1>1 DEF IsKth, Range
<1>7. IsKth(g, k, 3 * v + a)
    BY <1>1, <1>5, <1>6 DEF IsKth
<1>8. 3 * v + a = KthSmallest(g, k)
    BY <1>3, <1>7, KthExists
<1> QED BY <1>2, <1>8 DEF v

LEMMA MedianIsScaled ==
    ASSUME NEW f, Numbers(f), DOMAIN f # {}, NEW a \in Int, NEW g, DOMAIN g = DOMAIN f,
           \A x \in DOMAIN f : g[x] = 3 * f[x] + a
    PROVE  TwiceMedian(g) = 3 * TwiceMedian(f) + 2 * a /\ TwiceMedian(f) \in Int
<1> DEFINE n == Cardinality(DOMAIN f)
           i == (n + 1) \div 2
           j == n \div 2 + 1
<1>1. n \in Nat /\ n # 0
    BY FS_CardinalityType, FS_EmptySet DEF Numbers
<1>2. i \in 1..n /\ j \in 1..n
  <2> HIDE DEF n
  <2> QED BY <1>1
<1>3. TwiceMedian(f) = KthSmallest(f, i) + KthSmallest(f, j)
          /\ TwiceMedian(g) = KthSmallest(g, i) + KthSmallest(g, j)
    BY DEF TwiceMedian
<1> HIDE DEF i, j
<1>4. KthSmallest(g, i) = 3 * KthSmallest(f, i) + a /\ KthSmallest(f, i) \in Int
    BY <1>2, KthIsScaled
<1>5. KthSmallest(g, j) = 3 * KthSmallest(f, j) + a /\ KthSmallest(f, j) \in Int
    BY <1>2, KthIsScaled
<1> QED BY <1>3, <1>4, <1>5

(* Two columns that tell the same rows apart have as many values.           *)
LEMMA SameKernel ==
    ASSUME NEW D, IsFiniteSet(D), NEW f, NEW g, \A x, y \in D : f[x] = f[y] <=> g[x] = g[y]
    PROVE  Cardinality({f[x] : x \in D}) = Cardinality({g[x] : x \in D})
<1> DEFINE F == {f[x] : x \in D}
           H == {g[x] : x \in D}
           at(y) == CHOOSE x \in D : f[x] = y
           t == [y \in F |-> g[at(y)]]
<1>1. \A y \in F : at(y) \in D /\ f[at(y)] = y
    OBVIOUS
<1>2. t \in [F -> H]
  <2> HIDE DEF at
  <2> QED BY <1>1
<1>3. \A x, y \in F : t[x] = t[y] => x = y
  <2> HIDE DEF at
  <2> QED BY <1>1
<1>4. \A z \in H : \E y \in F : t[y] = z
  <2>1. ASSUME NEW x \in D PROVE f[x] \in F /\ t[f[x]] = g[x]
    <3>1. f[x] \in F
        OBVIOUS
    <3> HIDE DEF at
    <3> QED BY <1>1, <3>1
  <2>2. \A z \in H : \E x \in D : z = g[x]
      OBVIOUS
  <2> HIDE DEF t, F, H
  <2> QED BY <2>1, <2>2
<1>5. t \in Bijection(F, H)
  <2> HIDE DEF t, F, H
  <2> QED BY <1>2, <1>3, <1>4 DEF Bijection, Injection, Surjection, IsInjective
<1>6. IsFiniteSet(F)
  <2> DEFINE s == [x \in D |-> f[x]]
  <2>1. s \in Surjection(D, F)
      BY DEF Surjection
  <2> HIDE DEF s, F
  <2> QED BY <2>1, FS_Surjection
<1> HIDE DEF t, F, H
<1>7. Cardinality(H) = Cardinality(F)
    BY <1>5, <1>6, FS_Bijection DEF ExistsBijection
<1> QED BY <1>7 DEF F, H

-----------------------------------------------------------------------------
(* Rows in another order: cells, roles and outliers                         *)

(* Rows of integers and blanks.                                             *)
Table(rows) ==
    /\ \E n \in Nat : DOMAIN rows = 1..n /\ Len(rows) = n
    /\ \A i \in DOMAIN rows : \E a, t, c, s :
          /\ rows[i] = [asset |-> a, time |-> t, class |-> c, sensor |-> s]
          /\ t \in Int \cup {Blank} /\ s \in Int \cup {Blank}

LEMMA TableRows ==
    ASSUME NEW rows, Table(rows)
    PROVE  /\ IsFiniteSet(DOMAIN rows) /\ DOMAIN rows \subseteq Nat /\ Len(rows) \in Nat
           /\ Cardinality(DOMAIN rows) = Len(rows)
           /\ DOMAIN rows = 1..Len(rows)
           /\ \A i \in DOMAIN rows : rows[i].time \in Int \cup {Blank} /\ rows[i].sensor \in Int \cup {Blank}
           /\ \A U \in SUBSET DOMAIN rows : IsFiniteSet(U) /\ Cardinality(U) \in Nat
<1>1. PICK n \in Nat : DOMAIN rows = 1..n /\ Len(rows) = n
    BY DEF Table
<1>2. IsFiniteSet(1..n) /\ Cardinality(1..n) = n
    BY FS_Interval
<1>3. \A i \in DOMAIN rows : rows[i].time \in Int \cup {Blank} /\ rows[i].sensor \in Int \cup {Blank}
  <2>1. ASSUME NEW i \in DOMAIN rows
        PROVE  rows[i].time \in Int \cup {Blank} /\ rows[i].sensor \in Int \cup {Blank}
    <3>1. PICK a, t, c, s :
              /\ rows[i] = [asset |-> a, time |-> t, class |-> c, sensor |-> s]
              /\ t \in Int \cup {Blank} /\ s \in Int \cup {Blank}
        BY DEF Table
    <3> QED BY <3>1
  <2> QED BY <2>1
<1>4. \A U \in SUBSET DOMAIN rows : IsFiniteSet(U) /\ Cardinality(U) \in Nat
    BY <1>1, <1>2, FS_Subset, FS_CardinalityType
<1>5. DOMAIN rows \subseteq Nat
    BY <1>1
<1> QED BY <1>1, <1>2, <1>3, <1>4, <1>5

LEMMA BijectionFacts ==
    ASSUME NEW S, NEW T, NEW move \in Bijection(S, T)
    PROVE  /\ move \in [S -> T]
           /\ \A x, y \in S : move[x] = move[y] => x = y
           /\ \A t \in T : \E x \in S : move[x] = t
BY DEF Bijection, Injection, Surjection, IsInjective

Moves(order, rows) == order \in Bijection(DOMAIN rows, DOMAIN rows)

(* The part of a bijection that leads to U.                                 *)
LEMMA PartOfBijection ==
    ASSUME NEW S, NEW T, NEW move \in Bijection(S, T), NEW U \in SUBSET T
    PROVE  [x \in {y \in S : move[y] \in U} |-> move[x]] \in Bijection({y \in S : move[y] \in U}, U)
<1> DEFINE R == {y \in S : move[y] \in U}
           f == [x \in R |-> move[x]]
<1>1. move \in [S -> T] /\ (\A x, y \in S : move[x] = move[y] => x = y)
          /\ (\A t \in T : \E x \in S : move[x] = t)
    BY BijectionFacts
<1>2. f \in [R -> U] /\ \A x \in R : f[x] = move[x]
    OBVIOUS
<1>3. \A x, y \in R : f[x] = f[y] => x = y
    BY <1>1
<1>4. ASSUME NEW t \in U PROVE \E x \in R : f[x] = t
  <2>1. PICK x \in S : move[x] = t
      BY <1>1
  <2>2. x \in R
      BY <2>1
  <2> HIDE DEF f, R
  <2> QED BY <1>2, <2>1, <2>2
<1> HIDE DEF f, R
<1>5. f \in Bijection(R, U)
    BY <1>2, <1>3, <1>4 DEF Bijection, Injection, Surjection, IsInjective
<1> QED BY <1>5 DEF f, R

-----------------------------------------------------------------------------
(* Rows in another order.                                                   *)

LEMMA RowsMoved ==
    ASSUME NEW rows, Table(rows), NEW order, Moves(order, rows)
    PROVE  LET moved == Rearranged(rows, order)
           IN  /\ DOMAIN moved = DOMAIN rows /\ Len(moved) = Len(rows)
               /\ \A i \in DOMAIN rows : order[i] \in DOMAIN rows /\ moved[i] = rows[order[i]]
               /\ Table(moved)
<1> DEFINE moved == Rearranged(rows, order)
<1>1. order \in [DOMAIN rows -> DOMAIN rows]
    BY BijectionFacts DEF Moves
<1>2. DOMAIN moved = DOMAIN rows /\ \A i \in DOMAIN rows : order[i] \in DOMAIN rows
          /\ moved[i] = rows[order[i]]
    BY <1>1 DEF Rearranged
<1>3. PICK n \in Nat : DOMAIN rows = 1..n /\ Len(rows) = n
    BY DEF Table
<1>4. Len(moved) = n
  <2>1. moved = [i \in 1..n |-> rows[order[i]]]
      BY <1>3 DEF Rearranged
  <2> QED BY <2>1
<1> HIDE DEF moved
<1>5. Table(moved)
  <2>1. \A i \in DOMAIN moved : \E a, t, c, s :
            /\ moved[i] = [asset |-> a, time |-> t, class |-> c, sensor |-> s]
            /\ t \in Int \cup {Blank} /\ s \in Int \cup {Blank}
      BY <1>2 DEF Table
  <2> QED BY <1>2, <1>3, <1>4, <2>1 DEF Table
<1> QED BY <1>2, <1>3, <1>4, <1>5 DEF moved

LEMMA CellsMoved ==
    ASSUME NEW rows, Table(rows), NEW order, Moves(order, rows), NEW column
    PROVE  LET moved == Rearranged(rows, order)
           IN  /\ \A v : CountOf(moved, column, v) = CountOf(rows, column, v)
               /\ Filled(moved, column) = {i \in DOMAIN rows : order[i] \in Filled(rows, column)}
               /\ Cardinality(Filled(moved, column)) = Cardinality(Filled(rows, column))
               /\ ValuesOf(moved, column) = ValuesOf(rows, column)
<1> DEFINE moved == Rearranged(rows, order)
           D == DOMAIN rows
<1>1. DOMAIN moved = D /\ \A i \in D : order[i] \in D /\ moved[i] = rows[order[i]]
    BY RowsMoved
<1>2. IsFiniteSet(D) /\ order \in Bijection(D, D)
    BY TableRows DEF Moves
<1>3. \A t \in D : \E x \in D : order[x] = t
    BY <1>2, BijectionFacts
<1> HIDE DEF moved
<1>4. ASSUME NEW v PROVE CountOf(moved, column, v) = CountOf(rows, column, v)
  <2> DEFINE U == {i \in D : rows[i][column] = v}
  <2>1. {i \in DOMAIN moved : moved[i][column] = v} = {i \in D : order[i] \in U}
      BY <1>1
  <2>2. Cardinality({i \in D : order[i] \in U}) = Cardinality(U)
    <3>1. U \in SUBSET D
        OBVIOUS
    <3> HIDE DEF U, D
    <3> QED BY <1>2, <3>1, PreimageCount
  <2> QED BY <2>1, <2>2 DEF CountOf
<1>5. Filled(moved, column) = {i \in D : order[i] \in Filled(rows, column)}
    BY <1>1 DEF Filled
<1>6. Cardinality(Filled(moved, column)) = Cardinality(Filled(rows, column))
  <2>1. Filled(rows, column) \in SUBSET D
      BY DEF Filled
  <2>2. Cardinality({i \in D : order[i] \in Filled(rows, column)}) = Cardinality(Filled(rows, column))
    <3> DEFINE U == Filled(rows, column)
    <3>1. U \in SUBSET D
        BY <2>1
    <3> HIDE DEF D, U
    <3>2. Cardinality({i \in D : order[i] \in U}) = Cardinality(U)
        BY <1>2, <3>1, PreimageCount
    <3> QED BY <3>2 DEF U
  <2> QED BY <1>5, <2>2
<1>7. ValuesOf(moved, column) = ValuesOf(rows, column)
  <2>1. \A i \in Filled(moved, column) : order[i] \in Filled(rows, column)
            /\ moved[i][column] = rows[order[i]][column]
      BY <1>1, <1>5
  <2>2. \A j \in Filled(rows, column) : \E i \in Filled(moved, column) : moved[i][column] = rows[j][column]
    <3>1. ASSUME NEW j \in Filled(rows, column)
          PROVE  \E i \in Filled(moved, column) : moved[i][column] = rows[j][column]
      <4>1. j \in D
          BY DEF Filled
      <4>2. PICK i \in D : order[i] = j
          BY <1>3, <4>1
      <4>3. i \in Filled(moved, column)
          BY <1>5, <4>2
      <4> QED BY <1>1, <4>2, <4>3
    <3> QED BY <3>1
  <2> QED BY <2>1, <2>2 DEF ValuesOf
<1> QED BY <1>4, <1>5, <1>6, <1>7 DEF moved

LEMMA RolesMoved ==
    ASSUME NEW rows, Table(rows), NEW order, Moves(order, rows), NEW given
    PROVE  LET moved == Rearranged(rows, order)
           IN  /\ MissingPenalty(moved) = MissingPenalty(rows)
               /\ DuplicatePenalty(moved) = DuplicatePenalty(rows)
               /\ ConstantPenalty(moved) = ConstantPenalty(rows)
               /\ RolePenalty(moved, given) = RolePenalty(rows, given)
<1> DEFINE moved == Rearranged(rows, order)
           D == DOMAIN rows
<1>1. /\ DOMAIN moved = D /\ Len(moved) = Len(rows)
      /\ \A i \in D : order[i] \in D /\ moved[i] = rows[order[i]]
    BY RowsMoved
<1>2. \A c, v : CountOf(moved, c, v) = CountOf(rows, c, v)
    BY CellsMoved
<1>3. \A c : Cardinality(Filled(moved, c)) = Cardinality(Filled(rows, c))
          /\ ValuesOf(moved, c) = ValuesOf(rows, c)
    BY CellsMoved
<1>4. \A t \in D : \E x \in D : order[x] = t
    BY BijectionFacts DEF Moves
<1> HIDE DEF moved
<1>5. MissingPenalty(moved) = MissingPenalty(rows)
  <2>1. [c \in ColumnNames |-> CountOf(moved, c, Blank)] = [c \in ColumnNames |-> CountOf(rows, c, Blank)]
      BY <1>2
  <2> QED BY <1>1, <2>1 DEF MissingPenalty
<1>6. DuplicatePenalty(moved) = DuplicatePenalty(rows)
  <2>1. {moved[i] : i \in DOMAIN moved} = {rows[i] : i \in DOMAIN rows}
      BY <1>1, <1>4
  <2> QED BY <1>1, <2>1 DEF DuplicatePenalty
<1>7. ConstantPenalty(moved) = ConstantPenalty(rows)
    BY <1>3 DEF ConstantPenalty
<1>8. AssetPenalty(moved) = AssetPenalty(rows)
  <2>1. [a \in ValuesOf(moved, "asset") |-> CountOf(moved, "asset", a)]
           = [a \in ValuesOf(rows, "asset") |-> CountOf(rows, "asset", a)]
      BY <1>2, <1>3
  <2> QED BY <1>3, <2>1 DEF AssetPenalty
<1>9. TargetPenalty(moved) = TargetPenalty(rows)
  <2>1. {CountOf(moved, "class", v) : v \in ValuesOf(moved, "class")}
           = {CountOf(rows, "class", v) : v \in ValuesOf(rows, "class")}
      BY <1>2, <1>3
  <2>2. HasOneClass(moved) <=> HasOneClass(rows)
      BY <1>3 DEF HasOneClass
  <2> QED BY <2>1, <2>2 DEF TargetPenalty
<1>10. SamplesPenalty(moved, given) = SamplesPenalty(rows, given)
    BY <1>1, <1>3 DEF SamplesPenalty
<1> QED BY <1>5, <1>6, <1>7, <1>8, <1>9, <1>10 DEF RolePenalty, moved

LEMMA OutliersMoved ==
    ASSUME NEW rows, Table(rows), NEW order, Moves(order, rows)
    PROVE  OutlierPenalty(Rearranged(rows, order)) = OutlierPenalty(rows)
<1> DEFINE moved == Rearranged(rows, order)
           D == DOMAIN rows
           S == Filled(moved, "sensor")
           T == Filled(rows, "sensor")
           part == [x \in S |-> order[x]]
           f == [i \in T |-> rows[i].sensor]
           g == [i \in S |-> moved[i].sensor]
           df == [i \in T |-> Absolute(2 * f[i] - TwiceMedian(f))]
           dg == [i \in S |-> Absolute(2 * g[i] - TwiceMedian(g))]
           farf == {i \in T : 6745 * 2 * df[i] > 35000 * TwiceMedian(df)}
           farg == {i \in S : 6745 * 2 * dg[i] > 35000 * TwiceMedian(dg)}
<1>1. DOMAIN moved = D /\ \A i \in D : order[i] \in D /\ moved[i] = rows[order[i]]
    BY RowsMoved
<1>2. S = {i \in D : order[i] \in T} /\ T \in SUBSET D
  <2>1. S = {i \in D : order[i] \in T}
      BY CellsMoved
  <2>2. T \in SUBSET D
      BY DEF Filled
  <2> QED BY <2>1, <2>2
<1>3. IsFiniteSet(T)
    BY <1>2, TableRows
<1>4. part \in Bijection(S, T)
  <2>1. order \in Bijection(D, D)
      BY DEF Moves
  <2> HIDE DEF D, S, T
  <2> QED BY <1>2, <2>1, PartOfBijection
<1>5. \A x \in S : part[x] \in T /\ part[x] = order[x] /\ g[x] = f[part[x]]
    BY <1>1, <1>2
<1>6. DOMAIN f = T /\ DOMAIN g = S /\ DOMAIN df = T /\ DOMAIN dg = S
    OBVIOUS
<1>7. TwiceMedian(g) = TwiceMedian(f)
  <2> HIDE DEF f, g, S, T, part
  <2> QED BY <1>3, <1>4, <1>5, <1>6, MedianIsMoved
<1>8. \A x \in S : dg[x] = df[part[x]]
  <2> HIDE DEF f, g, S, T, part
  <2> QED BY <1>5, <1>7
<1>9. TwiceMedian(dg) = TwiceMedian(df)
  <2> HIDE DEF df, dg, S, T, part
  <2> QED BY <1>3, <1>4, <1>6, <1>8, MedianIsMoved
<1>10. Cardinality(farg) = Cardinality(farf)
  <2>1. farg = {x \in S : part[x] \in farf} /\ farf \in SUBSET T
    <3>1. ASSUME NEW x \in S PROVE x \in farg <=> part[x] \in farf
      <4>1. part[x] \in T /\ dg[x] = df[part[x]] /\ TwiceMedian(dg) = TwiceMedian(df)
          BY <1>5, <1>8, <1>9
      <4> HIDE DEF df, dg, S, T, part
      <4>2. 6745 * 2 * dg[x] > 35000 * TwiceMedian(dg) <=> 6745 * 2 * df[part[x]] > 35000 * TwiceMedian(df)
          BY <4>1
      <4>3. x \in farg <=> 6745 * 2 * dg[x] > 35000 * TwiceMedian(dg)
          BY DEF farg
      <4>4. part[x] \in farf <=> 6745 * 2 * df[part[x]] > 35000 * TwiceMedian(df)
          BY <4>1 DEF farf
      <4> QED BY <4>2, <4>3, <4>4
    <3> HIDE DEF df, dg, S, T, part
    <3> QED BY <3>1
  <2> HIDE DEF farf, farg, S, T, part
  <2> QED BY <1>3, <1>4, <2>1, PreimageCount
<1>11. Cardinality(S) = Cardinality(T)
    BY CellsMoved
<1>12. OutlierPenalty(moved) =
          IF Cardinality(S) >= 2 /\ TwiceMedian(dg) > 0 /\ Exceeds(Cardinality(farg), Cardinality(S), 1, 10)
          THEN 5 ELSE 0
    BY DEF OutlierPenalty
<1>13. OutlierPenalty(rows) =
          IF Cardinality(T) >= 2 /\ TwiceMedian(df) > 0 /\ Exceeds(Cardinality(farf), Cardinality(T), 1, 10)
          THEN 5 ELSE 0
    BY DEF OutlierPenalty
<1> HIDE DEF moved, S, T, dg, df, farg, farf
<1> QED BY <1>9, <1>10, <1>11, <1>12, <1>13 DEF moved

-----------------------------------------------------------------------------
(* Rows in another order: timestamps                                        *)

(* The rows of a group in their order.                                      *)
Before(rows, S, i) == {j \in S : \/ rows[j].time < rows[i].time
                                 \/ rows[j].time = rows[i].time /\ j < i}

LEMMA RanksDiffer ==
    ASSUME NEW rows, NEW S \in SUBSET Nat, IsFiniteSet(S), \A i \in S : rows[i].time \in Int
    PROVE  /\ \A i \in S : Cardinality(Before(rows, S, i)) \in Nat
                  /\ Cardinality(Before(rows, S, i)) < Cardinality(S)
           /\ \A i, j \in S : Cardinality(Before(rows, S, i)) = Cardinality(Before(rows, S, j)) => i = j
<1> DEFINE B(i) == Before(rows, S, i)
<1>1. \A i \in S : B(i) \in SUBSET S /\ i \notin B(i) /\ IsFiniteSet(B(i)) /\ Cardinality(B(i)) \in Nat
  <2>1. ASSUME NEW i \in S PROVE B(i) \in SUBSET S /\ i \notin B(i)
      BY DEF Before
  <2>2. ASSUME NEW i \in S PROVE IsFiniteSet(B(i)) /\ Cardinality(B(i)) \in Nat
    <3> HIDE DEF B
    <3> QED BY <2>1, FS_Subset, FS_CardinalityType
  <2> QED BY <2>1, <2>2
<1>2. ASSUME NEW i \in S PROVE Cardinality(B(i)) < Cardinality(S)
  <2>1. B(i) \in SUBSET S /\ B(i) # S /\ IsFiniteSet(B(i)) /\ Cardinality(B(i)) \in Nat
      BY <1>1
  <2>2. Cardinality(B(i)) <= Cardinality(S) /\ Cardinality(S) # Cardinality(B(i)) /\ Cardinality(S) \in Nat
    <3> HIDE DEF B
    <3> QED BY <2>1, FS_Subset, FS_CardinalityType
  <2> HIDE DEF B
  <2> QED BY <2>1, <2>2
<1>3. ASSUME NEW i \in S, NEW j \in S, i \in B(j) PROVE Cardinality(B(i)) < Cardinality(B(j))
  <2>1. B(i) \in SUBSET B(j) /\ i \notin B(i)
    <3>1. ASSUME NEW l \in B(i) PROVE l \in B(j)
      <4>1. l \in S /\ i \in S /\ j \in S
          BY <3>1 DEF Before
      <4>2. /\ l \in Int /\ i \in Int /\ j \in Int
            /\ rows[l].time \in Int /\ rows[i].time \in Int /\ rows[j].time \in Int
          BY <4>1
      <4>3. \/ rows[l].time < rows[i].time
            \/ rows[l].time = rows[i].time /\ l < i
          BY <3>1 DEF Before
      <4>4. \/ rows[i].time < rows[j].time
            \/ rows[i].time = rows[j].time /\ i < j
          BY <1>3 DEF Before
      <4>5. \/ rows[l].time < rows[j].time
            \/ rows[l].time = rows[j].time /\ l < j
          BY <4>2, <4>3, <4>4
      <4> QED BY <4>1, <4>5 DEF Before
    <3>2. i \notin B(i)
        BY <1>1
    <3> HIDE DEF B
    <3> QED BY <3>1, <3>2
  <2>2. IsFiniteSet(B(j)) /\ Cardinality(B(j)) \in Nat /\ Cardinality(B(i)) \in Nat /\ B(i) # B(j)
      BY <1>1, <1>3, <2>1
  <2>3. Cardinality(B(i)) <= Cardinality(B(j)) /\ Cardinality(B(j)) # Cardinality(B(i))
    <3> HIDE DEF B
    <3> QED BY <2>1, <2>2, FS_Subset
  <2> HIDE DEF B
  <2> QED BY <2>2, <2>3
<1>4. ASSUME NEW i \in S, NEW j \in S, i # j PROVE i \in B(j) \/ j \in B(i)
  <2>1. i \in Nat /\ j \in Nat /\ rows[i].time \in Int /\ rows[j].time \in Int
      OBVIOUS
  <2> QED BY <1>4, <2>1 DEF Before
<1>5. ASSUME NEW i \in S, NEW j \in S, Cardinality(B(i)) = Cardinality(B(j)) PROVE i = j
  <2>1. SUFFICES ASSUME i # j PROVE FALSE
      OBVIOUS
  <2>2. Cardinality(B(i)) \in Nat /\ Cardinality(B(j)) \in Nat
      BY <1>1
  <2>3. Cardinality(B(i)) < Cardinality(B(j)) \/ Cardinality(B(j)) < Cardinality(B(i))
      BY <1>3, <1>4, <2>1
  <2> HIDE DEF B
  <2> QED BY <1>5, <2>2, <2>3
<1> QED BY <1>1, <1>2, <1>5

LEMMA InOrderIsComplete ==
    ASSUME NEW rows, NEW S \in SUBSET Nat, IsFiniteSet(S), \A i \in S : rows[i].time \in Int
    PROVE  /\ InOrder(rows, S) \in Bijection(1..Cardinality(S), S)
           /\ \A k \in 1..Cardinality(S) : Cardinality(Before(rows, S, InOrder(rows, S)[k])) = k - 1
<1> DEFINE n == Cardinality(S)
           rank(i) == Cardinality(Before(rows, S, i))
           f == [i \in S |-> rank(i) + 1]
           g == InOrder(rows, S)
<1>1. n \in Nat
    BY FS_CardinalityType
<1>2. \A i \in S : rank(i) \in Nat /\ rank(i) < n
    BY RanksDiffer
<1>3. \A i, j \in S : rank(i) = rank(j) => i = j
    BY RanksDiffer
<1>4. g = [k \in 1..n |-> CHOOSE i \in S : rank(i) = k - 1]
    BY DEF InOrder, Before
<1> HIDE DEF rank, n, g
<1>5. f \in Injection(S, 1..n)
  <2>1. f \in [S -> 1..n]
      BY <1>1, <1>2
  <2>2. \A i, j \in S : f[i] = f[j] => i = j
      BY <1>2, <1>3
  <2> HIDE DEF f
  <2> QED BY <2>1, <2>2 DEF Injection, IsInjective
<1>6. f \in Surjection(S, 1..n)
  <2>1. IsFiniteSet(1..n) /\ Cardinality(1..n) = n
      BY <1>1, FS_Interval
  <2>2. Cardinality(S) = Cardinality(1..n)
      BY <2>1 DEF n
  <2> HIDE DEF f
  <2> QED BY <1>5, <2>1, <2>2, FS_Injection
<1>7. \A k \in 1..n : \E i \in S : rank(i) = k - 1
  <2>1. ASSUME NEW k \in 1..n PROVE \E i \in S : rank(i) = k - 1
    <3>1. PICK i \in S : f[i] = k
      <4> HIDE DEF f
      <4> QED BY <1>6 DEF Surjection
    <3>2. rank(i) + 1 = k /\ rank(i) \in Nat /\ k \in Int
        BY <1>2, <3>1
    <3>3. rank(i) = k - 1
        BY <3>2
    <3> QED BY <3>3
  <2> QED BY <2>1
<1>8. \A k \in 1..n : g[k] \in S /\ rank(g[k]) = k - 1
  <2>1. \A k \in 1..n : g[k] = CHOOSE i \in S : rank(i) = k - 1
      BY <1>4
  <2> QED BY <1>7, <2>1
<1>9. g \in [1..n -> S]
    BY <1>4, <1>8
<1>10. \A k, l \in 1..n : g[k] = g[l] => k = l
  <2>1. ASSUME NEW k \in 1..n, NEW l \in 1..n, g[k] = g[l] PROVE k = l
    <3>1. k - 1 = l - 1 /\ k \in Int /\ l \in Int
        BY <1>1, <1>8, <2>1
    <3> QED BY <3>1
  <2> QED BY <2>1
<1>11. \A i \in S : \E k \in 1..n : g[k] = i
  <2>1. ASSUME NEW i \in S PROVE \E k \in 1..n : g[k] = i
    <3> DEFINE k == rank(i) + 1
    <3>1. k \in 1..n /\ k - 1 = rank(i)
        BY <1>1, <1>2
    <3>2. g[k] \in S /\ rank(g[k]) = rank(i)
        BY <1>8, <3>1
    <3>3. g[k] = i
        BY <1>3, <3>2
    <3> QED BY <3>1, <3>3
  <2> QED BY <2>1
<1>12. g \in Bijection(1..n, S)
    BY <1>9, <1>10, <1>11 DEF Bijection, Injection, Surjection, IsInjective
<1> QED BY <1>8, <1>12 DEF g, n, rank

(* No two rows of S have one time.                                          *)
Distinct(rows, S) ==
    /\ \A i \in S : rows[i].time \in Int
    /\ \A i, j \in S : rows[i].time = rows[j].time => i = j

(* A group of the moved rows is the moved group.                            *)
LEMMA InOrderMoved ==
    ASSUME NEW rows, Table(rows), NEW order, Moves(order, rows),
           NEW S \in SUBSET DOMAIN rows, Distinct(rows, S)
    PROVE  LET moved == Rearranged(rows, order)
               from == {i \in DOMAIN rows : order[i] \in S}
           IN  /\ Cardinality(from) = Cardinality(S)
               /\ InOrder(rows, S) \in [1..Cardinality(S) -> S]
               /\ InOrder(moved, from) \in [1..Cardinality(S) -> from]
               /\ \A k \in 1..Cardinality(S) : order[InOrder(moved, from)[k]] = InOrder(rows, S)[k]
<1> DEFINE moved == Rearranged(rows, order)
           D == DOMAIN rows
           from == {i \in D : order[i] \in S}
           n == Cardinality(S)
           g == InOrder(rows, S)
           h == InOrder(moved, from)
<1>1. DOMAIN moved = D /\ \A i \in D : order[i] \in D /\ moved[i] = rows[order[i]]
    BY RowsMoved
<1>2. /\ IsFiniteSet(D) /\ D \subseteq Nat /\ IsFiniteSet(S) /\ IsFiniteSet(from)
      /\ S \in SUBSET Nat /\ from \in SUBSET Nat /\ order \in Bijection(D, D)
  <2>1. IsFiniteSet(D) /\ D \subseteq Nat /\ \A U \in SUBSET D : IsFiniteSet(U)
      BY TableRows
  <2>2. from \in SUBSET D
      OBVIOUS
  <2> HIDE DEF from
  <2> QED BY <2>1, <2>2 DEF Moves
<1>3. Cardinality(from) = n
  <2>1. S \in SUBSET D
      OBVIOUS
  <2> QED BY <1>2, <2>1, MovedCount
<1>4. \A i \in S : rows[i].time \in Int
    BY DEF Distinct
<1>5. \A i \in from : i \in D /\ order[i] \in S /\ moved[i].time = rows[order[i]].time
          /\ moved[i].time \in Int
    BY <1>1, <1>4
<1>6. g \in Bijection(1..n, S) /\ \A k \in 1..n : Cardinality(Before(rows, S, g[k])) = k - 1
    BY <1>2, <1>4, InOrderIsComplete
<1>7. h \in Bijection(1..n, from) /\ \A k \in 1..n : Cardinality(Before(moved, from, h[k])) = k - 1
  <2>1. \A i \in from : moved[i].time \in Int
      BY <1>5
  <2> HIDE DEF from, moved, n
  <2> QED BY <1>2, <1>3, <2>1, InOrderIsComplete
<1>8. \A i, j \in D : order[i] = order[j] => i = j
    BY <1>2, BijectionFacts
<1>9. ASSUME NEW i \in from
      PROVE  Cardinality(Before(moved, from, i)) = Cardinality(Before(rows, S, order[i]))
  <2>1. Before(moved, from, i) = {j \in D : order[j] \in Before(rows, S, order[i])}
    <3>1. ASSUME NEW j \in D
          PROVE  j \in Before(moved, from, i) <=> order[j] \in Before(rows, S, order[i])
      <4>1. CASE j \notin from
          BY <4>1 DEF Before
      <4>2. CASE j \in from
        <5>1. /\ moved[j].time = rows[order[j]].time /\ moved[i].time = rows[order[i]].time
              /\ order[i] \in S /\ order[j] \in S /\ i \in Nat /\ j \in Nat /\ order[i] \in Nat
                     /\ order[j] \in Nat
            BY <1>2, <1>5, <4>2
        <5>2. rows[order[j]].time = rows[order[i]].time => order[i] = order[j] /\ i = j
          <6>1. rows[order[j]].time = rows[order[i]].time => order[i] = order[j]
              BY <5>1 DEF Distinct
          <6>2. i \in D
              BY <1>5
          <6> QED BY <1>8, <6>1, <6>2
        <5>3. j \in Before(moved, from, i) <=> rows[order[j]].time < rows[order[i]].time
          <6> HIDE DEF from
          <6> QED BY <4>2, <5>1, <5>2 DEF Before
        <5>4. order[j] \in Before(rows, S, order[i]) <=> rows[order[j]].time < rows[order[i]].time
            BY <5>1, <5>2 DEF Before
        <5> QED BY <5>3, <5>4
      <4> QED BY <4>1, <4>2
    <3>2. Before(moved, from, i) \subseteq D
        BY DEF Before
    <3> HIDE DEF D, from, moved
    <3> QED BY <3>1, <3>2
  <2>2. Before(rows, S, order[i]) \in SUBSET D
      BY DEF Before
  <2> DEFINE U == Before(rows, S, order[i])
  <2>3. Cardinality({j \in D : order[j] \in U}) = Cardinality(U)
    <3> HIDE DEF D, U
    <3> QED BY <1>2, <2>2, PreimageCount DEF U
  <2> QED BY <2>1, <2>3
<1>11. g \in [1..n -> S] /\ h \in [1..n -> from]
  <2>1. g \in [1..n -> S]
    <3> HIDE DEF n, g
    <3> QED BY <1>6, BijectionFacts
  <2>2. h \in [1..n -> from]
    <3> HIDE DEF n, h, from
    <3> QED BY <1>7, BijectionFacts
  <2> QED BY <2>1, <2>2
<1>10. ASSUME NEW k \in 1..n PROVE order[h[k]] = g[k]
  <2>1. h[k] \in from /\ g[k] \in S
    <3> HIDE DEF n, g, h, from
    <3> QED BY <1>11
  <2>2. order[h[k]] \in S
      BY <1>5, <2>1
  <2>3. Cardinality(Before(rows, S, order[h[k]])) = Cardinality(Before(rows, S, g[k]))
      BY <1>6, <1>7, <1>9, <2>1
  <2> HIDE DEF g, h, n
  <2> QED BY <1>2, <1>4, <2>1, <2>2, <2>3, RanksDiffer
<1> QED BY <1>3, <1>10, <1>11

(* The rows that are put in order together.                                 *)
OfAsset(rows, a) == {i \in Filled(rows, "time") : rows[i].asset = a}

Parts(rows, given) ==
    IF "asset" \in given
    THEN {OfAsset(rows, a) : a \in {rows[i].asset : i \in Filled(rows, "time")} \ {Blank}}
    ELSE IF Filled(rows, "time") = {} THEN {} ELSE {Filled(rows, "time")}

LEMMA GroupsAreParts ==
    ASSUME NEW rows, NEW given
    PROVE  Groups(rows, given) = {InOrder(rows, S) : S \in Parts(rows, given)}
<1> DEFINE T == Filled(rows, "time")
           A == {rows[i].asset : i \in T} \ {Blank}
<1>1. CASE "asset" \in given
  <2>1. Groups(rows, given) = {InOrder(rows, OfAsset(rows, a)) : a \in A}
      BY <1>1 DEF Groups, OfAsset
  <2>2. Parts(rows, given) = {OfAsset(rows, a) : a \in A}
      BY <1>1 DEF Parts
  <2> HIDE DEF A
  <2> QED BY <2>1, <2>2
<1>2. CASE "asset" \notin given
  <2>1. Groups(rows, given) = IF T = {} THEN {} ELSE {InOrder(rows, T)}
      BY <1>2 DEF Groups
  <2>2. Parts(rows, given) = IF T = {} THEN {} ELSE {T}
      BY <1>2 DEF Parts
  <2> HIDE DEF T
  <2> QED BY <2>1, <2>2
<1> QED BY <1>1, <1>2

LEMMA PartsHaveRows ==
    ASSUME NEW rows, NEW given, NEW S \in Parts(rows, given)
    PROVE  S \in SUBSET Filled(rows, "time") /\ S # {}
<1> DEFINE T == Filled(rows, "time")
           A == {rows[i].asset : i \in T} \ {Blank}
<1>1. CASE "asset" \in given
  <2>1. PICK a \in A : S = OfAsset(rows, a)
      BY <1>1 DEF Parts
  <2>2. PICK i \in T : rows[i].asset = a
      BY <2>1
  <2>3. i \in S
      BY <2>1, <2>2 DEF OfAsset
  <2> QED BY <2>1, <2>3 DEF OfAsset
<1>2. CASE "asset" \notin given
    BY <1>2 DEF Parts
<1> QED BY <1>1, <1>2

(* The parts of moved rows are the moved parts.                             *)
From(order, D, S) == {i \in D : order[i] \in S}

LEMMA PartsMoved ==
    ASSUME NEW rows, Table(rows), NEW order, Moves(order, rows), NEW given
    PROVE  Parts(Rearranged(rows, order), given) = {From(order, DOMAIN rows, S) : S \in Parts(rows, given)}
<1> DEFINE moved == Rearranged(rows, order)
           D == DOMAIN rows
           T == Filled(rows, "time")
           U == Filled(moved, "time")
           A == {rows[i].asset : i \in T} \ {Blank}
           B == {moved[i].asset : i \in U} \ {Blank}
<1>1. DOMAIN moved = D /\ \A i \in D : order[i] \in D /\ moved[i] = rows[order[i]]
    BY RowsMoved
<1>2. U = From(order, D, T)
    BY CellsMoved DEF From
<1>3. \A t \in D : \E i \in D : order[i] = t
    BY BijectionFacts DEF Moves
<1>4. T \subseteq D
    BY DEF Filled
<1>5. B = A
  <2>1. {moved[i].asset : i \in U} = {rows[i].asset : i \in T}
    <3> HIDE DEF D, T, U, moved
    <3> QED BY <1>1, <1>2, <1>3, <1>4 DEF From
  <2> QED BY <2>1
<1>6. ASSUME NEW a PROVE OfAsset(moved, a) = From(order, D, OfAsset(rows, a))
  <2>1. OfAsset(moved, a) = {i \in U : moved[i].asset = a}
            /\ OfAsset(rows, a) = {i \in T : rows[i].asset = a}
      BY DEF OfAsset
  <2> HIDE DEF D, T, U, moved
  <2> QED BY <1>1, <1>2, <2>1 DEF From
<1> SUFFICES Parts(moved, given) = {From(order, D, S) : S \in Parts(rows, given)}
    OBVIOUS
<1>7. CASE "asset" \in given
  <2>1. Parts(moved, given) = {OfAsset(moved, a) : a \in B}
            /\ Parts(rows, given) = {OfAsset(rows, a) : a \in A}
      BY <1>7 DEF Parts
  <2> HIDE DEF A, B, D, moved
  <2>2. Parts(moved, given) = {From(order, D, OfAsset(rows, a)) : a \in A}
      BY <1>5, <1>6, <2>1
  <2>3. {From(order, D, S) : S \in {OfAsset(rows, a) : a \in A}} =
            {From(order, D, OfAsset(rows, a)) : a \in A}
      OBVIOUS
  <2> QED BY <2>1, <2>2, <2>3
<1>8. CASE "asset" \notin given
  <2>1. /\ Parts(moved, given) = IF U = {} THEN {} ELSE {U}
        /\ Parts(rows, given) = IF T = {} THEN {} ELSE {T}
      BY <1>8 DEF Parts
  <2>2. U = {} <=> T = {}
    <3> HIDE DEF D, T, U, moved
    <3> QED BY <1>1, <1>2, <1>3, <1>4 DEF From
  <2> HIDE DEF T, U, D, moved
  <2>3. CASE T = {}
      BY <2>1, <2>2, <2>3
  <2>4. CASE T # {}
      BY <1>2, <2>1, <2>2, <2>4
  <2> QED BY <2>3, <2>4
<1> QED BY <1>7, <1>8

(* Rows with a time of their own.                                           *)
Stamp(rows, given, i) == IF "asset" \in given THEN <<rows[i].asset, rows[i].time>> ELSE <<rows[i].time>>

LEMMA SameTimes ==
    ASSUME NEW rows, Table(rows), NEW order, Moves(order, rows), NEW given
    PROVE  DuplicateTimesPenalty(Rearranged(rows, order), given) = DuplicateTimesPenalty(rows, given)
<1> DEFINE moved == Rearranged(rows, order)
           D == DOMAIN rows
           T == Filled(rows, "time")
           U == Filled(moved, "time")
           K == {Stamp(rows, given, i) : i \in T}
           L == {Stamp(moved, given, i) : i \in U}
<1>1. DOMAIN moved = D /\ \A i \in D : order[i] \in D /\ moved[i] = rows[order[i]]
    BY RowsMoved
<1>2. U = {i \in D : order[i] \in T} /\ Cardinality(U) = Cardinality(T)
    BY CellsMoved
<1>3. \A t \in D : \E i \in D : order[i] = t
    BY BijectionFacts DEF Moves
<1>4. T \subseteq D
    BY DEF Filled
<1>5. L = K
  <2>1. \A i \in D : Stamp(moved, given, i) = Stamp(rows, given, order[i])
    <3> HIDE DEF moved
    <3> QED BY <1>1 DEF Stamp
  <2> HIDE DEF D, T, U, moved
  <2> QED BY <1>2, <1>3, <1>4, <2>1
<1>6. /\ DuplicateTimesPenalty(moved, given) = IF Cardinality(L) < Cardinality(U) THEN 2 ELSE 0
      /\ DuplicateTimesPenalty(rows, given) = IF Cardinality(K) < Cardinality(T) THEN 2 ELSE 0
    BY DEF DuplicateTimesPenalty, Stamp
<1> HIDE DEF K, L, T, U, moved
<1> QED BY <1>2, <1>5, <1>6 DEF moved

LEMMA TimesTell ==
    ASSUME NEW rows, Table(rows), NEW given, DuplicateTimesPenalty(rows, given) = 0
    PROVE  \A S \in Parts(rows, given) : Distinct(rows, S)
<1> DEFINE T == Filled(rows, "time")
           K == {Stamp(rows, given, i) : i \in T}
           f == [i \in T |-> Stamp(rows, given, i)]
<1>1. T \in SUBSET DOMAIN rows /\ IsFiniteSet(T) /\ Cardinality(T) \in Nat
  <2>1. T \in SUBSET DOMAIN rows
      BY DEF Filled
  <2> HIDE DEF T
  <2> QED BY <2>1, TableRows
<1>2. ~(Cardinality(K) < Cardinality(T))
  <2>1. DuplicateTimesPenalty(rows, given) = IF Cardinality(K) < Cardinality(T) THEN 2 ELSE 0
      BY DEF DuplicateTimesPenalty, Stamp
  <2> QED BY <2>1
<1>3. f \in Surjection(T, K)
  <2>1. f \in [T -> K] /\ \A y \in K : \E i \in T : f[i] = y
      OBVIOUS
  <2> HIDE DEF f, T, K
  <2> QED BY <2>1 DEF Surjection
<1>4. IsFiniteSet(K) /\ Cardinality(K) <= Cardinality(T) /\ Cardinality(K) \in Nat
          /\ (Cardinality(K) = Cardinality(T) <=> f \in Injection(T, K))
  <2> HIDE DEF f, T, K
  <2> QED BY <1>1, <1>3, FS_Surjection, FS_CardinalityType
<1>5. \A i, j \in T : Stamp(rows, given, i) = Stamp(rows, given, j) => i = j
  <2>1. Cardinality(K) = Cardinality(T)
    <3> HIDE DEF K, T
    <3> QED BY <1>1, <1>2, <1>4
  <2>2. \A i, j \in T : f[i] = f[j] => i = j
    <3> HIDE DEF f, T, K
    <3> QED BY <1>4, <2>1 DEF Injection, IsInjective
  <2>3. \A i \in T : f[i] = Stamp(rows, given, i)
      OBVIOUS
  <2> HIDE DEF f, T
  <2> QED BY <2>2, <2>3
<1>6. \A i \in T : rows[i].time \in Int
  <2>1. \A i \in T : i \in DOMAIN rows /\ rows[i].time # Blank
      BY DEF Filled
  <2> HIDE DEF T
  <2> QED BY <2>1, TableRows
<1>7. ASSUME NEW S \in Parts(rows, given) PROVE Distinct(rows, S)
  <2>1. S \subseteq T
      BY PartsHaveRows
  <2>2. ASSUME NEW i \in S, NEW j \in S, rows[i].time = rows[j].time PROVE i = j
    <3>1. CASE "asset" \in given
      <4>1. PICK a : S = OfAsset(rows, a)
          BY <3>1 DEF Parts
      <4>2. rows[i].asset = rows[j].asset
          BY <4>1 DEF OfAsset
      <4>3. Stamp(rows, given, i) = Stamp(rows, given, j)
          BY <2>2, <4>2 DEF Stamp
      <4> HIDE DEF T
      <4> QED BY <1>5, <2>1, <4>3
    <3>2. CASE "asset" \notin given
      <4>1. Stamp(rows, given, i) = Stamp(rows, given, j)
          BY <2>2, <3>2 DEF Stamp
      <4> HIDE DEF T
      <4> QED BY <1>5, <2>1, <4>1
    <3> QED BY <3>1, <3>2
  <2> HIDE DEF T
  <2> QED BY <1>6, <2>1, <2>2 DEF Distinct
<1> QED BY <1>7

(* Rows in an order, and the same rows in it after a move.                  *)
Listing(g, D) == \E n \in Nat : n # 0 /\ Len(g) = n /\ g \in [1..n -> D]

Follows(order, D, h, g) ==
    /\ DOMAIN h = DOMAIN g /\ Len(h) = Len(g)
    /\ \A k \in DOMAIN g : h[k] \in D /\ g[k] \in D /\ order[h[k]] = g[k]

LEMMA ListingLength ==
    ASSUME NEW D, NEW n \in Nat, NEW g \in [1..n -> D]
    PROVE  Len(g) = n
<1>1. g \in Seq(D)
    BY SeqDef
<1>2. DOMAIN g = 1..Len(g) /\ Len(g) \in Nat
    BY <1>1
<1> QED BY <1>1, <1>2

LEMMA PartMoved ==
    ASSUME NEW rows, Table(rows), NEW order, Moves(order, rows),
           NEW S \in SUBSET DOMAIN rows, S # {}, Distinct(rows, S)
    PROVE  LET g == InOrder(rows, S)
               h == InOrder(Rearranged(rows, order), From(order, DOMAIN rows, S))
           IN  /\ Listing(g, DOMAIN rows) /\ Listing(h, DOMAIN rows)
               /\ Follows(order, DOMAIN rows, h, g)
               /\ \A k \in DOMAIN g : rows[g[k]].time \in Int
<1> DEFINE D == DOMAIN rows
           n == Cardinality(S)
           from == From(order, D, S)
           g == InOrder(rows, S)
           h == InOrder(Rearranged(rows, order), from)
<1>1. n \in Nat /\ n # 0
  <2>1. IsFiniteSet(S)
      BY TableRows
  <2> QED BY <2>1, FS_CardinalityType, FS_EmptySet
<1>2. from = {i \in DOMAIN rows : order[i] \in S}
    BY DEF From
<1>3. g \in [1..n -> S] /\ h \in [1..n -> from] /\ \A k \in 1..n : order[h[k]] = g[k]
    BY <1>2, InOrderMoved
<1>4. from \subseteq D /\ S \subseteq D
    BY <1>2
<1>9. \A k \in DOMAIN g : rows[g[k]].time \in Int
  <2>1. \A i \in S : rows[i].time \in Int
      BY DEF Distinct
  <2> HIDE DEF g, n
  <2> QED BY <1>3, <2>1
<1> HIDE DEF n, D, from, g, h
<1>5. g \in [1..n -> D] /\ h \in [1..n -> D]
    BY <1>3, <1>4
<1>6. Len(g) = n /\ Len(h) = n
    BY <1>1, <1>5, ListingLength
<1>7. Listing(g, D) /\ Listing(h, D)
    BY <1>1, <1>5, <1>6 DEF Listing
<1>8. Follows(order, D, h, g)
    BY <1>3, <1>5, <1>6 DEF Follows
<1> QED BY <1>7, <1>8, <1>9 DEF D, g, h, from

LEMMA GroupsMoved ==
    ASSUME NEW rows, Table(rows), NEW order, Moves(order, rows), NEW given,
           DuplicateTimesPenalty(rows, given) = 0
    PROVE  LET D == DOMAIN rows
               moved == Rearranged(rows, order)
           IN  /\ \A g \in Groups(rows, given) :
                     /\ Listing(g, D) /\ \A k \in DOMAIN g : rows[g[k]].time \in Int
                     /\ \E h \in Groups(moved, given) : Follows(order, D, h, g)
               /\ \A h \in Groups(moved, given) :
                     Listing(h, D) /\ \E g \in Groups(rows, given) : Follows(order, D, h, g)
<1> DEFINE D == DOMAIN rows
           moved == Rearranged(rows, order)
           P == Parts(rows, given)
           g(S) == InOrder(rows, S)
           h(S) == InOrder(moved, From(order, D, S))
<1>1. Groups(rows, given) = {g(S) : S \in P}
    BY GroupsAreParts
<1>2. Groups(moved, given) = {h(S) : S \in P}
  <2>1. Groups(moved, given) = {InOrder(moved, S) : S \in Parts(moved, given)}
      BY GroupsAreParts
  <2>2. Parts(moved, given) = {From(order, D, S) : S \in P}
      BY PartsMoved
  <2> HIDE DEF P, D, moved
  <2> QED BY <2>1, <2>2
<1>3. ASSUME NEW S \in P
      PROVE  /\ Listing(g(S), D) /\ Listing(h(S), D) /\ Follows(order, D, h(S), g(S))
             /\ \A k \in DOMAIN g(S) : rows[g(S)[k]].time \in Int
  <2>1. S \in SUBSET DOMAIN rows /\ S # {}
      BY PartsHaveRows DEF Filled
  <2>2. Distinct(rows, S)
      BY TimesTell
  <2> HIDE DEF P
  <2> QED BY <2>1, <2>2, PartMoved
<1> HIDE DEF g, h, P
<1>4. \A x \in Groups(rows, given) :
          /\ Listing(x, D) /\ \A k \in DOMAIN x : rows[x[k]].time \in Int
          /\ \E y \in Groups(moved, given) : Follows(order, D, y, x)
    BY <1>1, <1>2, <1>3
<1>5. \A y \in Groups(moved, given) : Listing(y, D) /\ \E x \in Groups(rows, given) : Follows(order, D, y, x)
    BY <1>1, <1>2, <1>3
<1> QED BY <1>4, <1>5

-----------------------------------------------------------------------------
(* Of some groups one begins with the first row.                            *)
LEMMA FirstIsThere ==
    ASSUME NEW F, F # {}, NEW D \in SUBSET Nat, \A g \in F : Listing(g, D)
    PROVE  (CHOOSE g \in F : \A h \in F : Min(Range(g)) <= Min(Range(h))) \in F
<1> DEFINE E == {Min(Range(g)) : g \in F}
<1>1. ASSUME NEW g \in F PROVE Min(Range(g)) \in Nat
  <2>1. PICK n \in Nat : n # 0 /\ g \in [1..n -> D]
      BY DEF Listing
  <2>2. 1 \in 1..n
      BY <2>1
  <2>3. Range(g) \in SUBSET Nat /\ Range(g) # {}
      BY <2>1, <2>2 DEF Range
  <2>4. \E x \in Range(g) : \A y \in Range(g) : x <= y
      BY <2>3, LeastNumber
  <2> QED BY <2>3, <2>4 DEF Min
<1>2. E \in SUBSET Nat /\ E # {}
    BY <1>1
<1>3. PICK m \in E : \A y \in E : m <= y
  <2> HIDE DEF E
  <2> QED BY <1>2, LeastNumber
<1>4. PICK g \in F : m = Min(Range(g))
    BY <1>3
<1>5. \A h \in F : Min(Range(g)) <= Min(Range(h))
    BY <1>3, <1>4
<1> QED BY <1>4, <1>5

(* Flat lines: the first of agreeing groups is any of them.                 *)
LEMMA FlatlineOfAgreed ==
    ASSUME NEW rows, NEW given, RunsAgree(rows, given), NEW D \in SUBSET Nat,
           \A g \in Groups(rows, given) : Listing(g, D)
    PROVE  FlatlinePenalty(rows, given) = IF \E g \in Flattest(rows, given) : IsFlat(rows, g) THEN 3 ELSE 0
<1> DEFINE flattest == Flattest(rows, given)
           first == CHOOSE g \in flattest : \A h \in flattest : Min(Range(g)) <= Min(Range(h))
<1>1. FlatlinePenalty(rows, given) = IF flattest # {} /\ IsFlat(rows, first) THEN 3 ELSE 0
    BY DEF FlatlinePenalty
<1>2. flattest \subseteq Groups(rows, given)
    BY DEF Flattest
<1>4. CASE flattest = {}
    BY <1>1, <1>4
<1>5. CASE flattest # {}
  <2>1. first \in flattest
    <3>1. \A g \in flattest : Listing(g, D)
        BY <1>2
    <3> HIDE DEF flattest
    <3> QED BY <1>5, <3>1, FirstIsThere
  <2>2. \A g \in flattest : IsFlat(rows, g) <=> IsFlat(rows, first)
      BY <2>1 DEF RunsAgree
  <2> HIDE DEF first
  <2> QED BY <1>1, <1>5, <2>1, <2>2
<1> QED BY <1>4, <1>5

(* The same readings are as flat.                                           *)
LEMMA SameReadings ==
    ASSUME NEW rows, NEW moved, NEW order, NEW D, NEW h, NEW g,
           Follows(order, D, h, g), \A i \in D : moved[i] = rows[order[i]]
    PROVE  /\ FlatlineRun(Readings(moved, h)) = FlatlineRun(Readings(rows, g))
           /\ IsFlat(moved, h) <=> IsFlat(rows, g)
<1>1. Readings(moved, h) = Readings(rows, g)
    BY DEF Follows, Readings
<1>2. Len(h) = Len(g)
    BY DEF Follows
<1> QED BY <1>1, <1>2 DEF IsFlat

LEMMA FlatlinesMoved ==
    ASSUME NEW rows, Table(rows), NEW order, Moves(order, rows), NEW given,
           DuplicateTimesPenalty(rows, given) = 0, RunsAgree(rows, given)
    PROVE  FlatlinePenalty(Rearranged(rows, order), given) = FlatlinePenalty(rows, given)
<1> DEFINE D == DOMAIN rows
           moved == Rearranged(rows, order)
           G == Groups(rows, given)
           H == Groups(moved, given)
           F == Flattest(rows, given)
           E == Flattest(moved, given)
           runG(g) == FlatlineRun(Readings(rows, g))
           runH(g) == FlatlineRun(Readings(moved, g))
<1>1. /\ \A g \in G : Listing(g, D) /\ \E h \in H : Follows(order, D, h, g)
      /\ \A h \in H : Listing(h, D) /\ \E g \in G : Follows(order, D, h, g)
    BY GroupsMoved
<1>2. \A i \in D : moved[i] = rows[order[i]]
    BY RowsMoved
<1>3. \A g \in G, h \in H : Follows(order, D, h, g) =>
          runH(h) = runG(g) /\ (IsFlat(moved, h) <=> IsFlat(rows, g))
  <2> HIDE DEF D, moved, G, H
  <2> QED BY <1>2, SameReadings
<1>4. F = {g \in G : \A h \in G : runG(h) <= runG(g)} /\ E = {g \in H : \A h \in H : runH(h) <= runH(g)}
    BY DEF Flattest
<1> HIDE DEF D, moved, G, H, E, F, runG, runH
<1>5. \A g \in G, h \in H : Follows(order, D, h, g) => (h \in E <=> g \in F)
    BY <1>1, <1>3, <1>4
<1>6. (\E h \in E : IsFlat(moved, h)) <=> (\E g \in F : IsFlat(rows, g))
    BY <1>1, <1>3, <1>4, <1>5
<1>7. RunsAgree(moved, given)
  <2>1. \A g, h \in F : IsFlat(rows, g) <=> IsFlat(rows, h)
      BY DEF RunsAgree, F
  <2>2. \A g, h \in E : IsFlat(moved, g) <=> IsFlat(moved, h)
      BY <1>1, <1>3, <1>4, <1>5, <2>1
  <2> QED BY <2>2 DEF RunsAgree, E
<1>8. D \in SUBSET Nat
    BY TableRows DEF D
<1>9. FlatlinePenalty(rows, given) = IF \E g \in F : IsFlat(rows, g) THEN 3 ELSE 0
  <2>1. \A g \in Groups(rows, given) : Listing(g, D)
      BY <1>1 DEF G
  <2> QED BY <1>8, <2>1, FlatlineOfAgreed DEF F
<1>10. FlatlinePenalty(moved, given) = IF \E h \in E : IsFlat(moved, h) THEN 3 ELSE 0
  <2>1. \A h \in Groups(moved, given) : Listing(h, D)
      BY <1>1 DEF H
  <2> QED BY <1>7, <1>8, <2>1, FlatlineOfAgreed DEF E
<1> QED BY <1>6, <1>9, <1>10 DEF moved

(* Gaps: the neighbours of moved groups are the moved neighbours.           *)

(* A sum does not depend on where its values are.                           *)
LEMMA SumIsMoved ==
    ASSUME NEW S, NEW T, IsFiniteSet(S), IsFiniteSet(T), NEW move \in Bijection(S, T),
           NEW f, \A y \in T : f[y] \in Int, NEW g, \A x \in S : g[x] = f[move[x]]
    PROVE  SumFunctionOnSet(g, S) = SumFunctionOnSet(f, T)
<1> DEFINE by == [y \in T |-> f[y] * CountIn(move, S, y)]
<1>1. /\ move \in [S -> T] /\ (\A x, y \in S : move[x] = move[y] => x = y)
             /\ \A t \in T : \E x \in S : move[x] = t
    BY BijectionFacts
<1>2. ASSUME NEW y \in T PROVE CountIn(move, S, y) = 1
  <2>1. PICK x \in S : move[x] = y
      BY <1>1
  <2>2. {i \in S : move[i] = y} = {x}
      BY <1>1, <2>1
  <2> QED BY <2>2, FS_Singleton DEF CountIn
<1>3. \A y \in T : by[y] = f[y] * CountIn(move, S, y)
    OBVIOUS
<1>4. \A y \in T : by[y] = f[y]
    BY <1>2, <1>3
<1> HIDE DEF by
<1>5. SumFunctionOnSet(g, S) = SumFunctionOnSet(by, T)
    BY <1>1, <1>3, SumByValue
<1>6. SumFunctionOnSet(f, T) = SumFunctionOnSet(by, T)
    BY <1>4, SumSame
<1> QED BY <1>5, <1>6

Neighbours(groups) == UNION {{<<g[k], g[k + 1]>> : k \in 1..(Len(g) - 1)} : g \in groups}

LEMMA NeighboursMoved ==
    ASSUME NEW rows, Table(rows), NEW order, Moves(order, rows), NEW given,
           DuplicateTimesPenalty(rows, given) = 0
    PROVE  LET P == Neighbours(Groups(rows, given))
               Q == Neighbours(Groups(Rearranged(rows, order), given))
           IN  /\ IsFiniteSet(P) /\ IsFiniteSet(Q)
               /\ \A p \in P : rows[p[1]].time \in Int /\ rows[p[2]].time \in Int
               /\ \A q \in P \cup Q : q[1] \in DOMAIN rows /\ q[2] \in DOMAIN rows
               /\ [q \in Q |-> <<order[q[1]], order[q[2]]>>] \in Bijection(Q, P)
<1> DEFINE D == DOMAIN rows
           G == Groups(rows, given)
           H == Groups(Rearranged(rows, order), given)
           P == Neighbours(G)
           Q == Neighbours(H)
           move == [q \in Q |-> <<order[q[1]], order[q[2]]>>]
<1>1. /\ \A g \in G : /\ Listing(g, D) /\ \A k \in DOMAIN g : rows[g[k]].time \in Int
                      /\ \E h \in H : Follows(order, D, h, g)
      /\ \A h \in H : Listing(h, D) /\ \E g \in G : Follows(order, D, h, g)
    BY GroupsMoved
<1>2. IsFiniteSet(D)
    BY TableRows
<1>3. \A i, j \in D : order[i] = order[j] => i = j
    BY BijectionFacts DEF Moves
<1> HIDE DEF D, G, H
<1>4. /\ \A p \in P : \E g \in G : \E k \in 1..(Len(g) - 1) : p = <<g[k], g[k + 1]>>
      /\ \A q \in Q : \E h \in H : \E k \in 1..(Len(h) - 1) : q = <<h[k], h[k + 1]>>
      /\ \A g \in G : \A k \in 1..(Len(g) - 1) : <<g[k], g[k + 1]>> \in P
      /\ \A h \in H : \A k \in 1..(Len(h) - 1) : <<h[k], h[k + 1]>> \in Q
    BY DEF Neighbours
<1> HIDE DEF P, Q
<1>5. ASSUME NEW g, Listing(g, D), NEW k \in 1..(Len(g) - 1)
      PROVE  /\ k \in DOMAIN g /\ k + 1 \in DOMAIN g
             /\ g[k] \in D /\ g[k + 1] \in D
  <2>1. PICK n \in Nat : n # 0 /\ Len(g) = n /\ g \in [1..n -> D]
      BY <1>5 DEF Listing
  <2>2. k \in 1..n /\ k + 1 \in 1..n /\ DOMAIN g = 1..n
      BY <2>1
  <2> QED BY <2>1, <2>2
<1>6. \A p \in P : p \in D \X D /\ rows[p[1]].time \in Int /\ rows[p[2]].time \in Int
  <2>1. ASSUME NEW p \in P PROVE p \in D \X D /\ rows[p[1]].time \in Int /\ rows[p[2]].time \in Int
    <3>1. PICK g \in G : \E k \in 1..(Len(g) - 1) : p = <<g[k], g[k + 1]>>
        BY <1>4
    <3>2. PICK k \in 1..(Len(g) - 1) : p = <<g[k], g[k + 1]>>
        BY <3>1
    <3>3. /\ k \in DOMAIN g /\ k + 1 \in DOMAIN g /\ g[k] \in D /\ g[k + 1] \in D
        BY <1>1, <1>5
    <3>4. p[1] = g[k] /\ p[2] = g[k + 1]
        BY <3>2
    <3> QED BY <1>1, <3>2, <3>3, <3>4
  <2> QED BY <2>1
<1>7. \A q \in Q : q \in D \X D
  <2>1. ASSUME NEW q \in Q PROVE q \in D \X D
    <3>1. PICK h \in H : \E k \in 1..(Len(h) - 1) : q = <<h[k], h[k + 1]>>
        BY <1>4
    <3>2. PICK k \in 1..(Len(h) - 1) : q = <<h[k], h[k + 1]>>
        BY <3>1
    <3>3. h[k] \in D /\ h[k + 1] \in D
        BY <1>1, <1>5
    <3> QED BY <3>2, <3>3
  <2> QED BY <2>1
<1>8. IsFiniteSet(P) /\ IsFiniteSet(Q)
  <2>1. P \subseteq D \X D /\ Q \subseteq D \X D
      BY <1>6, <1>7
  <2>2. IsFiniteSet(D \X D)
      BY <1>2, FS_Product
  <2> QED BY <2>1, <2>2, FS_Subset
<1>9. \A q \in Q : move[q] = <<order[q[1]], order[q[2]]>>
    OBVIOUS
<1>10. ASSUME NEW q \in Q PROVE move[q] \in P
  <2>1. PICK h \in H : \E k \in 1..(Len(h) - 1) : q = <<h[k], h[k + 1]>>
      BY <1>4
  <2>2. PICK k \in 1..(Len(h) - 1) : q = <<h[k], h[k + 1]>>
      BY <2>1
  <2>3. PICK g \in G : Follows(order, D, h, g)
      BY <1>1
  <2>4. k \in DOMAIN h /\ k + 1 \in DOMAIN h
      BY <1>1, <1>5
  <2>5. order[h[k]] = g[k] /\ order[h[k + 1]] = g[k + 1] /\ Len(g) = Len(h)
      BY <2>3, <2>4 DEF Follows
  <2>6. q[1] = h[k] /\ q[2] = h[k + 1]
      BY <2>2
  <2>7. move[q] = <<g[k], g[k + 1]>>
      BY <1>9, <2>5, <2>6
  <2> QED BY <1>4, <2>5, <2>7
<1>11. ASSUME NEW p \in P PROVE \E q \in Q : move[q] = p
  <2>1. PICK g \in G : \E k \in 1..(Len(g) - 1) : p = <<g[k], g[k + 1]>>
      BY <1>4
  <2>2. PICK k \in 1..(Len(g) - 1) : p = <<g[k], g[k + 1]>>
      BY <2>1
  <2>3. PICK h \in H : Follows(order, D, h, g)
      BY <1>1
  <2>4. k \in DOMAIN g /\ k + 1 \in DOMAIN g
      BY <1>1, <1>5
  <2>5. order[h[k]] = g[k] /\ order[h[k + 1]] = g[k + 1] /\ Len(g) = Len(h)
      BY <2>3, <2>4 DEF Follows
  <2> DEFINE q == <<h[k], h[k + 1]>>
  <2>6. q \in Q
      BY <1>4, <2>5
  <2>7. q[1] = h[k] /\ q[2] = h[k + 1]
      OBVIOUS
  <2> HIDE DEF q
  <2>8. move[q] = p
      BY <1>9, <2>2, <2>5, <2>6, <2>7
  <2> QED BY <2>6, <2>8
<1>12. ASSUME NEW q \in Q, NEW r \in Q, move[q] = move[r] PROVE q = r
  <2>1. order[q[1]] = order[r[1]] /\ order[q[2]] = order[r[2]]
      BY <1>9, <1>12
  <2>2. q[1] = r[1] /\ q[2] = r[2]
      BY <1>3, <1>7, <2>1
  <2> QED BY <1>7, <2>2
<1>13. move \in Bijection(Q, P)
  <2>1. move \in [Q -> P]
      BY <1>10
  <2> HIDE DEF move
  <2> QED BY <1>11, <1>12, <2>1 DEF Bijection, Injection, Surjection, IsInjective
<1>14. \A q \in P \cup Q : q[1] \in D /\ q[2] \in D
    BY <1>6, <1>7
<1> QED BY <1>6, <1>8, <1>13, <1>14 DEF P, Q, G, H, D

LEMMA GapsMoved ==
    ASSUME NEW rows, Table(rows), NEW order, Moves(order, rows), NEW given,
           DuplicateTimesPenalty(rows, given) = 0
    PROVE  GapPenalty(Rearranged(rows, order), given) = GapPenalty(rows, given)
<1> DEFINE moved == Rearranged(rows, order)
           D == DOMAIN rows
           P == Neighbours(Groups(rows, given))
           Q == Neighbours(Groups(moved, given))
           move == [q \in Q |-> <<order[q[1]], order[q[2]]>>]
           f == [p \in P |-> rows[p[2]].time - rows[p[1]].time]
           g == [q \in Q |-> moved[q[2]].time - moved[q[1]].time]
           ff == [p \in P |-> f[p] * f[p]]
           gg == [q \in Q |-> g[q] * g[q]]
           Rule(empty, n, total, squares, median2, long) ==
               IF empty \/ median2 = 0 THEN 0
               ELSE (IF long THEN 3 ELSE 0)
                    + (IF 4 * (n * squares - total * total) > n * n * median2 * median2 THEN 2 ELSE 0)
<1>1. /\ IsFiniteSet(P) /\ IsFiniteSet(Q) /\ move \in Bijection(Q, P)
      /\ \A p \in P : rows[p[1]].time \in Int /\ rows[p[2]].time \in Int
      /\ \A q \in Q : q[1] \in D /\ q[2] \in D
    BY NeighboursMoved
<1>2. \A i \in D : moved[i] = rows[order[i]]
    BY RowsMoved
<1>3. GapPenalty(rows, given) =
          Rule(P = {}, Cardinality(P), SumFunction(f), SumFunction(ff), TwiceMedian(f),
               \E p \in P : 2 * f[p] > 5 * TwiceMedian(f))
    BY DEF GapPenalty, Neighbours
<1>4. GapPenalty(moved, given) =
          Rule(Q = {}, Cardinality(Q), SumFunction(g), SumFunction(gg), TwiceMedian(g),
               \E q \in Q : 2 * g[q] > 5 * TwiceMedian(g))
    BY DEF GapPenalty, Neighbours
<1>5. (\A p \in P : f[p] = rows[p[2]].time - rows[p[1]].time)
          /\ \A q \in Q : move[q] = <<order[q[1]], order[q[2]]>>
    OBVIOUS
<1>6. \A q \in Q : g[q] = moved[q[2]].time - moved[q[1]].time
    OBVIOUS
<1>7. DOMAIN f = P /\ DOMAIN g = Q /\ DOMAIN ff = P /\ DOMAIN gg = Q
    OBVIOUS
<1>8. (\A p \in P : ff[p] = f[p] * f[p]) /\ \A q \in Q : gg[q] = g[q] * g[q]
    OBVIOUS
<1> HIDE DEF P, Q, D, moved, f, g, ff, gg, move, Rule
<1>9. move \in [Q -> P] /\ \A p \in P : \E q \in Q : move[q] = p
    BY <1>1, BijectionFacts
<1>10. \A p \in P : f[p] \in Int /\ ff[p] \in Int
    BY <1>1, <1>5, <1>8
<1>11. ASSUME NEW q \in Q PROVE g[q] = f[move[q]] /\ gg[q] = ff[move[q]]
  <2>1. move[q][1] = order[q[1]] /\ move[q][2] = order[q[2]] /\ move[q] \in P
      BY <1>5, <1>9
  <2>2. moved[q[1]] = rows[order[q[1]]] /\ moved[q[2]] = rows[order[q[2]]]
      BY <1>1, <1>2
  <2>3. g[q] = f[move[q]]
      BY <1>5, <1>6, <2>1, <2>2
  <2> QED BY <1>8, <2>1, <2>3
<1>12. SumFunction(g) = SumFunction(f) /\ SumFunction(gg) = SumFunction(ff)
  <2>1. SumFunctionOnSet(g, Q) = SumFunctionOnSet(f, P)
      BY <1>1, <1>10, <1>11, SumIsMoved
  <2>2. SumFunctionOnSet(gg, Q) = SumFunctionOnSet(ff, P)
      BY <1>1, <1>10, <1>11, SumIsMoved
  <2> QED BY <1>7, <2>1, <2>2 DEF SumFunction
<1>13. TwiceMedian(g) = TwiceMedian(f)
    BY <1>1, <1>7, <1>11, MedianIsMoved
<1>14. Cardinality(Q) = Cardinality(P)
  <2>1. {q \in Q : move[q] \in P} = Q
      BY <1>9
  <2>2. Cardinality({q \in Q : move[q] \in P}) = Cardinality(P)
      BY <1>1, PreimageCount
  <2> QED BY <2>1, <2>2
<1>15. Q = {} <=> P = {}
    BY <1>9
<1>16. (\E q \in Q : 2 * g[q] > 5 * TwiceMedian(g)) <=> (\E p \in P : 2 * f[p] > 5 * TwiceMedian(f))
    BY <1>9, <1>11, <1>13
<1>17. CASE P = {}
    BY <1>3, <1>4, <1>15, <1>17 DEF Rule, moved
<1>18. CASE P # {}
    BY <1>3, <1>4, <1>12, <1>13, <1>14, <1>15, <1>16, <1>18 DEF Rule, moved
<1> QED BY <1>17, <1>18

-----------------------------------------------------------------------------
(* The score of rows in another order, and in another unit                  *)

(* The score does not depend on the order of the rows.                      *)
LEMMA OrderIsNothing ==
    ASSUME NEW rows, Table(rows), NEW order, Moves(order, rows), NEW given,
           "time" \in given => DuplicateTimesPenalty(rows, given) = 0 /\ RunsAgree(rows, given)
    PROVE  Score(Rearranged(rows, order), given) = Score(rows, given)
<1> DEFINE moved == Rearranged(rows, order)
<1>1. TimePenalty(moved, given) = TimePenalty(rows, given)
  <2>1. CASE "time" \notin given
      BY <2>1 DEF TimePenalty
  <2>2. CASE "time" \in given
    <3>1. /\ FlatlinePenalty(moved, given) = FlatlinePenalty(rows, given)
          /\ DuplicateTimesPenalty(moved, given) = DuplicateTimesPenalty(rows, given)
          /\ GapPenalty(moved, given) = GapPenalty(rows, given)
        BY <2>2, FlatlinesMoved, SameTimes, GapsMoved
    <3> HIDE DEF moved
    <3> QED BY <2>2, <3>1 DEF TimePenalty
  <2> QED BY <2>1, <2>2
<1>2. /\ MissingPenalty(moved) = MissingPenalty(rows)
      /\ DuplicatePenalty(moved) = DuplicatePenalty(rows)
      /\ ConstantPenalty(moved) = ConstantPenalty(rows)
      /\ RolePenalty(moved, given) = RolePenalty(rows, given)
    BY RolesMoved
<1>3. OutlierPenalty(moved) = OutlierPenalty(rows)
    BY OutliersMoved
<1> HIDE DEF moved
<1> QED BY <1>1, <1>2, <1>3 DEF Score, Penalty, moved

-----------------------------------------------------------------------------
(* Another unit of the sensor.                                              *)
LEMMA RowsRecalibrated ==
    ASSUME NEW rows, Table(rows)
    PROVE  LET re == Recalibrated(rows)
           IN  /\ DOMAIN re = DOMAIN rows /\ Len(re) = Len(rows)
               /\ \A i \in DOMAIN rows :
                     /\ re[i].asset = rows[i].asset /\ re[i].time = rows[i].time
                            /\ re[i].class = rows[i].class
                     /\ re[i].sensor = IF rows[i].sensor = Blank THEN Blank ELSE 3 * rows[i].sensor + 5
               /\ \A i, j \in DOMAIN rows : re[i] = re[j] <=> rows[i] = rows[j]
<1> DEFINE re == Recalibrated(rows)
           D == DOMAIN rows
<1>1. PICK n \in Nat : DOMAIN rows = 1..n /\ Len(rows) = n
    BY DEF Table
<1>2. DOMAIN re = D
    BY DEF Recalibrated
<1>3. Len(re) = n
  <2>1. re \in [1..n -> {re[i] : i \in 1..n}]
      BY <1>1 DEF Recalibrated
  <2> HIDE DEF re
  <2> QED BY <2>1, ListingLength
<1>4. ASSUME NEW i \in D
      PROVE  \E a, t, c, s :
                /\ rows[i] = [asset |-> a, time |-> t, class |-> c, sensor |-> s] /\ s \in Int \cup {Blank}
                /\ re[i] = [asset |-> a, time |-> t, class |-> c, sensor |-> IF s = Blank
                       THEN Blank ELSE 3 * s + 5]
  <2>1. PICK a, t, c, s :
          rows[i] = [asset |-> a, time |-> t, class |-> c, sensor |-> s] /\ s \in Int \cup {Blank}
      BY DEF Table
  <2>2. re[i] = [rows[i] EXCEPT !.sensor = IF rows[i].sensor = Blank THEN Blank ELSE 3 * rows[i].sensor + 5]
      BY DEF Recalibrated
  <2>3. rows[i].sensor = s
      BY <2>1
  <2>4. re[i] = [asset |-> a, time |-> t, class |-> c, sensor |-> IF s = Blank THEN Blank ELSE 3 * s + 5]
      BY <2>1, <2>2, <2>3
  <2> QED BY <2>1, <2>4
<1> HIDE DEF re
<1>5. \A i \in D :
          /\ re[i].asset = rows[i].asset /\ re[i].time = rows[i].time /\ re[i].class = rows[i].class
          /\ re[i].sensor = IF rows[i].sensor = Blank THEN Blank ELSE 3 * rows[i].sensor + 5
  <2>1. ASSUME NEW i \in D
        PROVE  /\ re[i].asset = rows[i].asset /\ re[i].time = rows[i].time /\ re[i].class = rows[i].class
               /\ re[i].sensor = IF rows[i].sensor = Blank THEN Blank ELSE 3 * rows[i].sensor + 5
    <3>1. PICK a, t, c, s :
              /\ rows[i] = [asset |-> a, time |-> t, class |-> c, sensor |-> s]
              /\ re[i] = [asset |-> a, time |-> t, class |-> c, sensor |-> IF s = Blank
                     THEN Blank ELSE 3 * s + 5]
        BY <1>4
    <3> DEFINE x == IF s = Blank THEN Blank ELSE 3 * s + 5
    <3>2. rows[i].sensor = s /\ re[i].sensor = x
        BY <3>1
    <3>3. re[i].asset = rows[i].asset /\ re[i].time = rows[i].time /\ re[i].class = rows[i].class
        BY <3>1
    <3> QED BY <3>2, <3>3
  <2> QED BY <2>1
<1>6. ASSUME NEW i \in D, NEW j \in D PROVE re[i] = re[j] <=> rows[i] = rows[j]
  <2>1. PICK a, t, c, s :
            /\ rows[i] = [asset |-> a, time |-> t, class |-> c, sensor |-> s] /\ s \in Int \cup {Blank}
            /\ re[i] = [asset |-> a, time |-> t, class |-> c, sensor |-> IF s = Blank
                   THEN Blank ELSE 3 * s + 5]
      BY <1>4
  <2>2. PICK b, u, d, v :
            /\ rows[j] = [asset |-> b, time |-> u, class |-> d, sensor |-> v] /\ v \in Int \cup {Blank}
            /\ re[j] = [asset |-> b, time |-> u, class |-> d, sensor |-> IF v = Blank
                   THEN Blank ELSE 3 * v + 5]
      BY <1>4
  <2> DEFINE x == IF s = Blank THEN Blank ELSE 3 * s + 5
             y == IF v = Blank THEN Blank ELSE 3 * v + 5
  <2>3. x = y <=> s = v
      BY <2>1, <2>2, BlankAssumption
  <2> HIDE DEF x, y
  <2>4. rows[i] = rows[j] <=> a = b /\ t = u /\ c = d /\ s = v
      BY <2>1, <2>2
  <2>5. re[i] = re[j] <=> a = b /\ t = u /\ c = d /\ x = y
      BY <2>1, <2>2 DEF x, y
  <2> QED BY <2>3, <2>4, <2>5
<1> QED BY <1>1, <1>2, <1>3, <1>5, <1>6 DEF re

LEMMA CellsRecalibrated ==
    ASSUME NEW rows, Table(rows)
    PROVE  LET re == Recalibrated(rows)
           IN  /\ \A c \in ColumnNames : Filled(re, c) = Filled(rows, c)
                      /\ CountOf(re, c, Blank) = CountOf(rows, c, Blank)
               /\ \A c \in {"asset", "time", "class"} :
                     ValuesOf(re, c) = ValuesOf(rows, c) /\ \A v : CountOf(re, c, v) = CountOf(rows, c, v)
<1> DEFINE re == Recalibrated(rows)
           D == DOMAIN rows
<1>1. /\ DOMAIN re = D
      /\ \A i \in D : /\ re[i]["asset"] = rows[i]["asset"] /\ re[i]["time"] = rows[i]["time"]
                      /\ re[i]["class"] = rows[i]["class"]
                      /\ re[i]["sensor"] = IF rows[i]["sensor"] = Blank
                             THEN Blank ELSE 3 * rows[i]["sensor"] + 5
    BY RowsRecalibrated
<1>2. \A i \in D : rows[i]["sensor"] \in Int \cup {Blank}
    BY TableRows
<1>3. \A i \in D : re[i]["sensor"] = Blank <=> rows[i]["sensor"] = Blank
    BY <1>1, <1>2, BlankAssumption
<1> HIDE DEF re
<1>4. \A c \in {"asset", "time", "class"} : \A i \in D : re[i][c] = rows[i][c]
    BY <1>1
<1>5. \A c \in ColumnNames : \A i \in D : re[i][c] = Blank <=> rows[i][c] = Blank
    BY <1>3, <1>4 DEF ColumnNames
<1>6. \A c \in ColumnNames : Filled(re, c) = Filled(rows, c)
    BY <1>1, <1>5 DEF Filled
<1>7. \A c \in ColumnNames : CountOf(re, c, Blank) = CountOf(rows, c, Blank)
  <2>1. \A c \in ColumnNames : {i \in DOMAIN re : re[i][c] = Blank} =
            {i \in DOMAIN rows : rows[i][c] = Blank}
      BY <1>1, <1>5
  <2> QED BY <2>1 DEF CountOf
<1>8. \A c \in {"asset", "time", "class"} : \A v : CountOf(re, c, v) = CountOf(rows, c, v)
  <2>1. \A c \in {"asset", "time", "class"} :
            \A v : {i \in DOMAIN re : re[i][c] = v} = {i \in DOMAIN rows : rows[i][c] = v}
      BY <1>1, <1>4
  <2> QED BY <2>1 DEF CountOf
<1>9. ASSUME NEW c \in {"asset", "time", "class"} PROVE ValuesOf(re, c) = ValuesOf(rows, c)
  <2>1. Filled(re, c) = Filled(rows, c)
      BY <1>6 DEF ColumnNames
  <2>2. \A i \in Filled(rows, c) : re[i][c] = rows[i][c]
      BY <1>4 DEF Filled
  <2> QED BY <2>1, <2>2 DEF ValuesOf
<1> QED BY <1>6, <1>7, <1>8, <1>9 DEF re

LEMMA RolesRecalibrated ==
    ASSUME NEW rows, Table(rows), NEW given
    PROVE  LET re == Recalibrated(rows)
           IN  /\ MissingPenalty(re) = MissingPenalty(rows)
               /\ DuplicatePenalty(re) = DuplicatePenalty(rows)
               /\ ConstantPenalty(re) = ConstantPenalty(rows)
               /\ RolePenalty(re, given) = RolePenalty(rows, given)
<1> DEFINE re == Recalibrated(rows)
           D == DOMAIN rows
<1>1. /\ DOMAIN re = D /\ Len(re) = Len(rows) /\ \A i, j \in D : re[i] = re[j] <=> rows[i] = rows[j]
      /\ \A i \in D : re[i].sensor = IF rows[i].sensor = Blank THEN Blank ELSE 3 * rows[i].sensor + 5
    BY RowsRecalibrated
<1>2. /\ \A c \in ColumnNames : Filled(re, c) = Filled(rows, c)
             /\ CountOf(re, c, Blank) = CountOf(rows, c, Blank)
      /\ \A c \in {"asset", "time", "class"} :
            ValuesOf(re, c) = ValuesOf(rows, c) /\ \A v : CountOf(re, c, v) = CountOf(rows, c, v)
    BY CellsRecalibrated
<1>3. IsFiniteSet(D) /\ \A U \in SUBSET D : IsFiniteSet(U)
    BY TableRows
<1>4. \A i \in D : rows[i].sensor \in Int \cup {Blank}
    BY TableRows
<1> HIDE DEF re
<1>5. MissingPenalty(re) = MissingPenalty(rows)
  <2>1. [c \in ColumnNames |-> CountOf(re, c, Blank)] = [c \in ColumnNames |-> CountOf(rows, c, Blank)]
      BY <1>2
  <2> QED BY <1>1, <2>1 DEF MissingPenalty
<1>6. DuplicatePenalty(re) = DuplicatePenalty(rows)
  <2>1. Cardinality({re[i] : i \in D}) = Cardinality({rows[i] : i \in D})
    <3>1. \A i, j \in D : re[i] = re[j] <=> rows[i] = rows[j]
        BY <1>1
    <3> HIDE DEF D
    <3> QED BY <1>3, <3>1, SameKernel
  <2> QED BY <1>1, <2>1 DEF DuplicatePenalty
<1>7. ConstantPenalty(re) = ConstantPenalty(rows)
  <2> DEFINE T == Filled(rows, "sensor")
             f == [i \in T |-> rows[i].sensor]
             g == [i \in T |-> re[i].sensor]
  <2>1. Filled(re, "sensor") = T
      BY <1>2 DEF ColumnNames
  <2>2. \A i \in T : i \in D /\ rows[i].sensor \in Int
      BY <1>4 DEF Filled
  <2>3. \A i \in T : f[i] = rows[i].sensor /\ g[i] = re[i].sensor
      OBVIOUS
  <2>4. T \in SUBSET D
      BY <2>2
  <2> HIDE DEF T, f, g, D
  <2>5. IsFiniteSet(T)
      BY <1>3, <2>4
  <2>6. \A i \in T : f[i] \in Int /\ g[i] = 3 * f[i] + 5
      BY <1>1, <2>2, <2>3, BlankAssumption
  <2>7. \A i, j \in T : f[i] = f[j] <=> g[i] = g[j]
      BY <2>6
  <2>8. Cardinality({f[i] : i \in T}) = Cardinality({g[i] : i \in T})
      BY <2>5, <2>7, SameKernel
  <2>9. {f[i] : i \in T} = ValuesOf(rows, "sensor") /\ {g[i] : i \in T} = ValuesOf(re, "sensor")
      BY <2>1, <2>3 DEF ValuesOf, T
  <2> QED BY <2>1, <2>8, <2>9 DEF ConstantPenalty, T
<1>8. RolePenalty(re, given) = RolePenalty(rows, given)
  <2>1. AssetPenalty(re) = AssetPenalty(rows)
    <3>1. ValuesOf(re, "asset") = ValuesOf(rows, "asset")
        BY <1>2
    <3>2. [a \in ValuesOf(re, "asset") |-> CountOf(re, "asset", a)] =
              [a \in ValuesOf(rows, "asset") |-> CountOf(rows, "asset", a)]
        BY <1>2, <3>1
    <3> QED BY <3>1, <3>2 DEF AssetPenalty
  <2>2. TargetPenalty(re) = TargetPenalty(rows)
    <3>1. ValuesOf(re, "class") = ValuesOf(rows, "class")
        BY <1>2
    <3>2. {CountOf(re, "class", v) : v \in ValuesOf(re, "class")} =
              {CountOf(rows, "class", v) : v \in ValuesOf(rows, "class")}
        BY <1>2, <3>1
    <3> QED BY <3>1, <3>2 DEF TargetPenalty, HasOneClass
  <2>3. SamplesPenalty(re, given) = SamplesPenalty(rows, given)
      BY <1>1, <1>2 DEF SamplesPenalty, ColumnNames
  <2> QED BY <2>1, <2>2, <2>3 DEF RolePenalty
<1> QED BY <1>5, <1>6, <1>7, <1>8 DEF re

LEMMA OutliersRecalibrated ==
    ASSUME NEW rows, Table(rows)
    PROVE  OutlierPenalty(Recalibrated(rows)) = OutlierPenalty(rows)
<1> DEFINE re == Recalibrated(rows)
           D == DOMAIN rows
           T == Filled(rows, "sensor")
           f == [i \in T |-> rows[i].sensor]
           g == [i \in T |-> re[i].sensor]
           mf == TwiceMedian(f)
           mg == TwiceMedian(g)
           df == [i \in T |-> Absolute(2 * f[i] - mf)]
           dg == [i \in T |-> Absolute(2 * g[i] - mg)]
           nf == TwiceMedian(df)
           ng == TwiceMedian(dg)
           farf == {i \in T : 6745 * 2 * df[i] > 35000 * nf}
           farg == {i \in T : 6745 * 2 * dg[i] > 35000 * ng}
<1>1. /\ DOMAIN re = D
      /\ \A i \in D : re[i].sensor = IF rows[i].sensor = Blank THEN Blank ELSE 3 * rows[i].sensor + 5
    BY RowsRecalibrated
<1>2. Filled(re, "sensor") = T
    BY CellsRecalibrated DEF ColumnNames
<1>3. T \in SUBSET D /\ \A i \in T : rows[i].sensor \in Int
  <2>1. \A i \in D : rows[i].sensor \in Int \cup {Blank}
      BY TableRows
  <2> QED BY <2>1 DEF Filled
<1>4. IsFiniteSet(T)
  <2> HIDE DEF T
  <2> QED BY <1>3, TableRows
<1>5. OutlierPenalty(rows) = IF Cardinality(T) >= 2 /\ nf > 0
          /\ Exceeds(Cardinality(farf), Cardinality(T), 1, 10) THEN 5 ELSE 0
    BY DEF OutlierPenalty
<1>6. OutlierPenalty(re) = IF Cardinality(T) >= 2 /\ ng > 0
          /\ Exceeds(Cardinality(farg), Cardinality(T), 1, 10) THEN 5 ELSE 0
  <2> DEFINE Rule(filled) ==
                 LET value == [i \in filled |-> re[i].sensor]
                     median2 == TwiceMedian(value)
                     deviation2 == [i \in filled |-> Absolute(2 * value[i] - median2)]
                     mad4 == TwiceMedian(deviation2)
                     far == {i \in filled : 6745 * 2 * deviation2[i] > 35000 * mad4}
                 IN  IF Cardinality(filled) >= 2 /\ mad4 > 0
                         /\ Exceeds(Cardinality(far), Cardinality(filled), 1, 10)
                     THEN 5 ELSE 0
  <2>1. OutlierPenalty(re) = Rule(Filled(re, "sensor"))
      BY DEF OutlierPenalty
  <2>2. Rule(Filled(re, "sensor")) = Rule(T)
    <3> HIDE DEF Rule, T, re
    <3> QED BY <1>2
  <2> QED BY <2>1, <2>2
<1>7. /\ DOMAIN f = T /\ DOMAIN g = T /\ DOMAIN df = T /\ DOMAIN dg = T
      /\ \A i \in T : /\ f[i] = rows[i].sensor /\ g[i] = re[i].sensor
                      /\ df[i] = Absolute(2 * f[i] - mf) /\ dg[i] = Absolute(2 * g[i] - mg)
    OBVIOUS
<1>8. CASE T = {}
  <2>1. ~(Cardinality(T) >= 2)
      BY <1>8, FS_EmptySet
  <2> QED BY <1>5, <1>6, <2>1
<1>9. CASE T # {}
  <2>1. \A i \in T : f[i] \in Int /\ g[i] = 3 * f[i] + 5
    <3> HIDE DEF T, f, g, re
    <3> QED BY <1>1, <1>3, <1>7, BlankAssumption
  <2>2. Numbers(f)
    <3> HIDE DEF f, T
    <3> QED BY <1>4, <1>7, <2>1, <1>9 DEF Numbers
  <2>3. mg = 3 * mf + 10 /\ mf \in Int
    <3> HIDE DEF f, g, T
    <3>1. DOMAIN f # {} /\ DOMAIN g = DOMAIN f /\ \A i \in DOMAIN f : g[i] = 3 * f[i] + 5
        BY <1>7, <1>9, <2>1
    <3>2. TwiceMedian(g) = 3 * TwiceMedian(f) + 2 * 5 /\ TwiceMedian(f) \in Int
        BY <2>2, <3>1, MedianIsScaled
    <3> QED BY <3>2
  <2> HIDE DEF f, g, T, mf, mg, df, dg
  <2>4. ASSUME NEW i \in T PROVE df[i] \in Int /\ dg[i] = 3 * df[i] + 0
    <3>1. f[i] \in Int /\ g[i] = 3 * f[i] + 5 /\ df[i] = Absolute(2 * f[i] - mf)
              /\ dg[i] = Absolute(2 * g[i] - mg)
        BY <1>7, <2>1
    <3> QED BY <2>3, <3>1 DEF Absolute
  <2>5. ng = 3 * nf /\ nf \in Int
    <3>1. DOMAIN df # {} /\ DOMAIN dg = DOMAIN df /\ \A i \in DOMAIN df : dg[i] = 3 * df[i] + 0
        BY <1>7, <1>9, <2>4
    <3>2. Numbers(df)
        BY <1>4, <1>7, <1>9, <2>4 DEF Numbers
    <3>3. TwiceMedian(dg) = 3 * TwiceMedian(df) + 2 * 0 /\ TwiceMedian(df) \in Int
        BY <3>1, <3>2, MedianIsScaled
    <3> QED BY <3>3
  <2> HIDE DEF nf, ng
  <2>6. farf = farg
    <3>1. \A i \in T : 6745 * 2 * df[i] > 35000 * nf <=> 6745 * 2 * dg[i] > 35000 * ng
        BY <2>4, <2>5
    <3> QED BY <3>1
  <2>7. nf > 0 <=> ng > 0
      BY <2>5
  <2> HIDE DEF farf, farg, re
  <2> QED BY <1>5, <1>6, <2>6, <2>7 DEF re
<1> QED BY <1>8, <1>9

-----------------------------------------------------------------------------
LEMMA GroupsRecalibrated ==
    ASSUME NEW rows, Table(rows), NEW given
    PROVE  Groups(Recalibrated(rows), given) = Groups(rows, given)
<1> DEFINE re == Recalibrated(rows)
           D == DOMAIN rows
           T == Filled(rows, "time")
           A == {rows[i].asset : i \in T} \ {Blank}
           B == {re[i].asset : i \in T} \ {Blank}
<1>1. DOMAIN re = D /\ \A i \in D : re[i].asset = rows[i].asset /\ re[i].time = rows[i].time
    BY RowsRecalibrated
<1>2. Filled(re, "time") = T
    BY CellsRecalibrated DEF ColumnNames
<1>3. T \subseteq D
    BY DEF Filled
<1> HIDE DEF re, D
<1>4. B = A
  <2> HIDE DEF T
  <2> QED BY <1>1, <1>3
<1>5. ASSUME NEW a PROVE OfAsset(re, a) = OfAsset(rows, a)
  <2>1. OfAsset(re, a) = {i \in T : re[i].asset = a} /\ OfAsset(rows, a) = {i \in T : rows[i].asset = a}
      BY <1>2 DEF OfAsset
  <2> HIDE DEF T
  <2> QED BY <1>1, <1>3, <2>1
<1>6. Parts(re, given) = Parts(rows, given)
  <2>1. CASE "asset" \in given
    <3>1. Parts(re, given) = {OfAsset(re, a) : a \in B} /\ Parts(rows, given) = {OfAsset(rows, a) : a \in A}
        BY <1>2, <2>1 DEF Parts
    <3> HIDE DEF A, B
    <3> QED BY <1>4, <1>5, <3>1
  <2>2. CASE "asset" \notin given
      BY <1>2, <2>2 DEF Parts
  <2> QED BY <2>1, <2>2
<1>7. ASSUME NEW S \in Parts(rows, given) PROVE InOrder(re, S) = InOrder(rows, S)
  <2>1. S \subseteq D
      BY PartsHaveRows DEF Filled, D
  <2>2. \A i, j \in S : /\ re[j].time < re[i].time <=> rows[j].time < rows[i].time
                        /\ re[j].time = re[i].time <=> rows[j].time = rows[i].time
      BY <1>1, <2>1
  <2>3. \A i \in S : {j \in S : re[j].time < re[i].time \/ (re[j].time = re[i].time /\ j < i)}
                     = {j \in S : rows[j].time < rows[i].time \/ (rows[j].time = rows[i].time /\ j < i)}
      BY <2>2
  <2> DEFINE b(i) == {j \in S : re[j].time < re[i].time \/ (re[j].time = re[i].time /\ j < i)}
             c(i) == {j \in S : rows[j].time < rows[i].time \/ (rows[j].time = rows[i].time /\ j < i)}
  <2>4. /\ InOrder(re, S) = [k \in 1..Cardinality(S) |-> CHOOSE i \in S : Cardinality(b(i)) = k - 1]
        /\ InOrder(rows, S) = [k \in 1..Cardinality(S) |-> CHOOSE i \in S : Cardinality(c(i)) = k - 1]
      BY DEF InOrder
  <2>5. \A i \in S : b(i) = c(i)
      BY <2>3
  <2> HIDE DEF b, c
  <2>6. \A k \in 1..Cardinality(S) :
            (CHOOSE i \in S : Cardinality(b(i)) = k - 1) = CHOOSE i \in S : Cardinality(c(i)) = k - 1
      BY <2>5
  <2> QED BY <2>4, <2>6
<1>8. Groups(re, given) = {InOrder(re, S) : S \in Parts(rows, given)}
    BY <1>6, GroupsAreParts
<1>9. Groups(rows, given) = {InOrder(rows, S) : S \in Parts(rows, given)}
    BY GroupsAreParts
<1> QED BY <1>7, <1>8, <1>9 DEF re

(* Another unit keeps what is flat.                                         *)
LEMMA FlatRecalibrated ==
    ASSUME NEW rows, Table(rows), NEW g, Listing(g, DOMAIN rows)
    PROVE  LET re == Recalibrated(rows)
           IN  /\ FlatlineRun(Readings(re, g)) = FlatlineRun(Readings(rows, g))
               /\ IsFlat(re, g) <=> IsFlat(rows, g)
<1> DEFINE re == Recalibrated(rows)
           D == DOMAIN rows
           V == Readings(rows, g)
           W == Readings(re, g)
           K == DOMAIN g
           flatV(i, j) == V[i] # Blank /\ \A k \in i..j : V[k] = V[i]
           flatW(i, j) == W[i] # Blank /\ \A k \in i..j : W[k] = W[i]
<1>1. /\ \A i \in D : re[i].sensor = IF rows[i].sensor = Blank THEN Blank ELSE 3 * rows[i].sensor + 5
    BY RowsRecalibrated
<1>2. \A i \in D : rows[i].sensor \in Int \cup {Blank}
    BY TableRows
<1>3. PICK n \in Nat : g \in [1..n -> D]
    BY DEF Listing
<1>4. DOMAIN V = K /\ DOMAIN W = K /\ K = 1..n /\ \A k \in K : V[k] = rows[g[k]].sensor
          /\ W[k] = re[g[k]].sensor
    BY <1>3 DEF Readings
<1> HIDE DEF re, D, V, W, K
<1>5. \A k \in K : /\ V[k] \in Int \cup {Blank}
                   /\ W[k] = IF V[k] = Blank THEN Blank ELSE 3 * V[k] + 5
    BY <1>1, <1>2, <1>3, <1>4
<1>6. \A k \in K : W[k] = Blank <=> V[k] = Blank
    BY <1>5, BlankAssumption
<1>7. \A k, l \in K : W[k] = W[l] <=> V[k] = V[l]
    BY <1>5, <1>6, BlankAssumption
<1>8. ASSUME NEW i \in K, NEW j \in K PROVE flatW(i, j) <=> flatV(i, j)
  <2>1. \A k \in i..j : k \in K
      BY <1>4
  <2> QED BY <1>6, <1>7, <2>1
<1>9. /\ FlatlineRun(V) = IF K = {} THEN 0
                          ELSE Max({1} \cup {s[2] - s[1] + 1 : s \in {s \in K \X K : s[1] <= s[2] /\ flatV(s[1], s[2])}})
      /\ FlatlineRun(W) = IF K = {} THEN 0
                          ELSE Max({1} \cup {s[2] - s[1] + 1 : s \in {s \in K \X K : s[1] <= s[2] /\ flatW(s[1], s[2])}})
    BY <1>4 DEF FlatlineRun
<1> HIDE DEF flatV, flatW
<1>10. {s \in K \X K : s[1] <= s[2] /\ flatV(s[1], s[2])} =
           {s \in K \X K : s[1] <= s[2] /\ flatW(s[1], s[2])}
    BY <1>8
<1>11. FlatlineRun(W) = FlatlineRun(V)
    BY <1>9, <1>10
<1> QED BY <1>11 DEF IsFlat, V, W, re

LEMMA TimesRecalibrated ==
    ASSUME NEW rows, Table(rows), NEW order, Moves(order, rows), NEW given,
           DuplicateTimesPenalty(rows, given) = 0
    PROVE  TimePenalty(Recalibrated(rows), given) = TimePenalty(rows, given)
<1> DEFINE re == Recalibrated(rows)
           D == DOMAIN rows
           G == Groups(rows, given)
           P == Neighbours(G)
<1>1. DOMAIN re = D /\ \A i \in D : re[i].asset = rows[i].asset /\ re[i].time = rows[i].time
    BY RowsRecalibrated
<1>2. Groups(re, given) = G
    BY GroupsRecalibrated
<1>3. \A g \in G : Listing(g, D)
    BY GroupsMoved
<1>4. \A g \in G : /\ FlatlineRun(Readings(re, g)) = FlatlineRun(Readings(rows, g))
                   /\ IsFlat(re, g) <=> IsFlat(rows, g)
    BY <1>3, FlatRecalibrated
<1>5. FlatlinePenalty(re, given) = FlatlinePenalty(rows, given)
  <2> DEFINE F == Flattest(rows, given)
             first == CHOOSE g \in F : \A h \in F : Min(Range(g)) <= Min(Range(h))
  <2>1. Flattest(re, given) = F
    <3>1. /\ Flattest(re, given) =
                 {g \in G : \A h \in G : FlatlineRun(Readings(re, h)) <= FlatlineRun(Readings(re, g))}
          /\ F = {g \in G : \A h \in G : FlatlineRun(Readings(rows, h)) <= FlatlineRun(Readings(rows, g))}
        BY <1>2 DEF Flattest
    <3> HIDE DEF F, G, re
    <3> QED BY <1>4, <3>1
  <2>2. FlatlinePenalty(rows, given) = IF F # {} /\ IsFlat(rows, first) THEN 3 ELSE 0
      BY DEF FlatlinePenalty
  <2>3. FlatlinePenalty(re, given) = IF F # {} /\ IsFlat(re, first) THEN 3 ELSE 0
    <3> DEFINE Rule(S) == LET one == CHOOSE g \in S : \A h \in S : Min(Range(g)) <= Min(Range(h))
                          IN  IF S # {} /\ IsFlat(re, one) THEN 3 ELSE 0
    <3>1. FlatlinePenalty(re, given) = Rule(Flattest(re, given))
        BY DEF FlatlinePenalty
    <3>2. Rule(Flattest(re, given)) = Rule(F)
      <4> HIDE DEF Rule, F, re
      <4> QED BY <2>1
    <3> QED BY <3>1, <3>2
  <2>4. ASSUME F # {} PROVE IsFlat(re, first) <=> IsFlat(rows, first)
    <3>1. F \subseteq G
        BY DEF Flattest
    <3>2. first \in F
      <4>1. \A g \in F : Listing(g, D)
          BY <1>3, <3>1
      <4>2. D \in SUBSET Nat
          BY TableRows
      <4> HIDE DEF F, D
      <4> QED BY <2>4, <4>1, <4>2, FirstIsThere
    <3> HIDE DEF F, first, G
    <3> QED BY <1>4, <3>1, <3>2
  <2> HIDE DEF F, first
  <2> QED BY <2>2, <2>3, <2>4
<1>6. DuplicateTimesPenalty(re, given) = DuplicateTimesPenalty(rows, given)
  <2> DEFINE T == Filled(rows, "time")
  <2>1. Filled(re, "time") = T
      BY CellsRecalibrated DEF ColumnNames
  <2>2. T \subseteq D
      BY DEF Filled
  <2>3. \A i \in T : Stamp(re, given, i) = Stamp(rows, given, i)
    <3> HIDE DEF re, T, D
    <3> QED BY <1>1, <2>2 DEF Stamp
  <2>4. {Stamp(re, given, i) : i \in T} = {Stamp(rows, given, i) : i \in T}
    <3> HIDE DEF re, T
    <3> QED BY <2>3
  <2>5. /\ DuplicateTimesPenalty(re, given) =
               IF Cardinality({Stamp(re, given, i) : i \in T}) < Cardinality(T) THEN 2 ELSE 0
        /\ DuplicateTimesPenalty(rows, given) =
               IF Cardinality({Stamp(rows, given, i) : i \in T}) < Cardinality(T) THEN 2 ELSE 0
    <3>1. DuplicateTimesPenalty(re, given) =
              IF Cardinality({Stamp(re, given, i) : i \in Filled(re, "time")}) < Cardinality(Filled(re, "time")) THEN 2 ELSE 0
        BY DEF DuplicateTimesPenalty, Stamp
    <3>2. DuplicateTimesPenalty(rows, given) =
              IF Cardinality({Stamp(rows, given, i) : i \in T}) < Cardinality(T) THEN 2 ELSE 0
        BY DEF DuplicateTimesPenalty, Stamp
    <3> HIDE DEF re, T
    <3> QED BY <2>1, <3>1, <3>2
  <2> HIDE DEF re, T
  <2> QED BY <2>4, <2>5 DEF re
<1>7. GapPenalty(re, given) = GapPenalty(rows, given)
  <2> DEFINE f == [p \in P |-> rows[p[2]].time - rows[p[1]].time]
             g == [p \in P |-> re[p[2]].time - re[p[1]].time]
             Rule(pairs, gap) ==
               LET n == Cardinality(pairs)
                   total == SumFunction(gap)
                   squares == SumFunction([p \in pairs |-> gap[p] * gap[p]])
                   median2 == TwiceMedian(gap)
               IN  IF pairs = {} \/ median2 = 0 THEN 0
                   ELSE (IF \E p \in pairs : 2 * gap[p] > 5 * median2 THEN 3 ELSE 0)
                        + (IF 4 * (n * squares - total * total) > n * n * median2 * median2 THEN 2 ELSE 0)
  <2>1. GapPenalty(rows, given) = Rule(P, f)
      BY DEF GapPenalty, Neighbours
  <2>2. GapPenalty(re, given) = Rule(P, g)
    <3> DEFINE R(pairs) == Rule(pairs, [p \in pairs |-> re[p[2]].time - re[p[1]].time])
    <3>1. GapPenalty(re, given) = R(Neighbours(Groups(re, given)))
        BY DEF GapPenalty, Neighbours
    <3>2. R(Neighbours(Groups(re, given))) = R(P)
      <4> HIDE DEF R, re, G
      <4> QED BY <1>2
    <3> QED BY <3>1, <3>2
  <2>3. \A p \in P : p[1] \in D /\ p[2] \in D
      BY NeighboursMoved
  <2>4. f = g
    <3> HIDE DEF P, re, D
    <3> QED BY <1>1, <2>3
  <2> HIDE DEF Rule, f, g, P, re
  <2> QED BY <2>1, <2>2, <2>4 DEF re
<1> HIDE DEF re
<1> QED BY <1>5, <1>6, <1>7 DEF TimePenalty, re

-----------------------------------------------------------------------------
(* quality.py: the score of a dataset neither depends on the order of its   *)
(* rows nor on the unit of a sensor, as long as its times tell the order of *)
(* an asset's rows and longest flat lines agree.                            *)
THEOREM ScoreIsStable ==
    ASSUME NEW rows, Table(rows), NEW order, Moves(order, rows), NEW given
    PROVE  ScoreIsOfTheData(rows, given, order)
<1> DEFINE re == Recalibrated(rows)
<1> SUFFICES ASSUME "time" \in given => DuplicateTimesPenalty(rows, given) = 0 /\ RunsAgree(rows, given)
             PROVE  /\ Score(Rearranged(rows, order), given) = Score(rows, given)
                    /\ Score(re, given) = Score(rows, given)
    BY DEF ScoreIsOfTheData
<1>1. Score(Rearranged(rows, order), given) = Score(rows, given)
    BY OrderIsNothing
<1>2. TimePenalty(re, given) = TimePenalty(rows, given)
  <2>1. CASE "time" \notin given
      BY <2>1 DEF TimePenalty
  <2>2. CASE "time" \in given
      BY <2>2, TimesRecalibrated
  <2> QED BY <2>1, <2>2
<1>3. /\ MissingPenalty(re) = MissingPenalty(rows)
      /\ DuplicatePenalty(re) = DuplicatePenalty(rows)
      /\ ConstantPenalty(re) = ConstantPenalty(rows)
      /\ RolePenalty(re, given) = RolePenalty(rows, given)
    BY RolesRecalibrated
<1>4. OutlierPenalty(re) = OutlierPenalty(rows)
    BY OutliersRecalibrated
<1> HIDE DEF re
<1>5. Score(re, given) = Score(rows, given)
    BY <1>2, <1>3, <1>4 DEF Score, Penalty
<1> QED BY <1>1, <1>5
=============================================================================
