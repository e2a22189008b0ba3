--------------------------------- MODULE Sums ---------------------------------
(***************************************************************************)
(* Sums over finite sets: SumFunctionOnSet adds the elements of a set in   *)
(* an order of its choice.  What it adds up to is found by induction on    *)
(* the number of elements, which follows from the order of the natural     *)
(* numbers being well-founded.                                             *)
(***************************************************************************)
EXTENDS Integers, Functions, FiniteSetTheorems, WellFoundedInduction, TLAPS

LessNat == OpToRel(<, Nat)

LEMMA LessNatWellFounded == IsWellFoundedOn(LessNat, Nat)
BY NatLessThanWellFounded DEF LessNat

\* Induction over the natural numbers, for a set in place of a predicate.
LEMMA ReachesAll ==
  ASSUME NEW S, 0 \in S, \A n \in Nat : n \in S => n + 1 \in S
  PROVE  \A n \in Nat : n \in S
<1> DEFINE T == Nat \ S
<1> SUFFICES ASSUME T # {} PROVE FALSE
  OBVIOUS
<1>1. PICK x \in T : \A y \in T : ~ (<<y, x>> \in LessNat)
  BY LessNatWellFounded, WFMin
<1>2. x \in Nat /\ x # 0
  OBVIOUS
<1>3. x - 1 \in Nat /\ x - 1 < x
  BY <1>2
<1>4. <<x - 1, x>> \in LessNat
  BY <1>2, <1>3 DEF LessNat, OpToRel
<1>5. x - 1 \in S
  BY <1>1, <1>3, <1>4
<1>6. x \in S
  BY <1>2, <1>3, <1>5
<1>7. QED
  BY <1>6

\* Induction over the subsets of a finite set: from the empty set, one element
\* at a time.
LEMMA GrowsToAll ==
  ASSUME NEW S, IsFiniteSet(S), NEW P, {} \in P,
         \A T \in SUBSET S : \A x \in S \ T : T \in P => T \cup {x} \in P
  PROVE  \A T \in SUBSET S : T \in P
<1> DEFINE N == {n \in Nat : \A T \in SUBSET S : Cardinality(T) = n => T \in P}
<1>1. \A T \in SUBSET S : IsFiniteSet(T) /\ Cardinality(T) \in Nat
  BY FS_Subset, FS_CardinalityType
<1>2. 0 \in N
  BY <1>1, FS_EmptySet
<1>3. ASSUME NEW n \in Nat, n \in N
      PROVE  n + 1 \in N
  <2> SUFFICES ASSUME NEW T \in SUBSET S, Cardinality(T) = n + 1
               PROVE  T \in P
    OBVIOUS
  <2>0. IsFiniteSet(T)
    BY <1>1
  <2>a. T # {}
    <3>1. Cardinality({}) = 0
      BY FS_EmptySet
    <3>2. n + 1 # 0
      OBVIOUS
    <3>3. QED
      BY <3>1, <3>2
  <2>1. PICK x : x \in T
    BY <2>a
  <2>2. T \ {x} \in SUBSET S /\ Cardinality(T \ {x}) = n
    <3>1. Cardinality(T \ {x}) = Cardinality(T) - 1
      BY <2>0, <2>1, FS_RemoveElement
    <3>2. QED
      BY <3>1
  <2>3. T \ {x} \in P
    BY <1>3, <2>2
  <2>4. (T \ {x}) \cup {x} = T /\ x \in S \ (T \ {x})
    BY <2>1
  <2>5. QED
    BY <2>2, <2>3, <2>4
<1>4. \A n \in Nat : n \in N
  <2> HIDE DEF N
  <2>1. QED
    BY <1>2, <1>3, ReachesAll
<1>5. QED
  BY <1>1, <1>4

-----------------------------------------------------------------------------
(* The recursion behind a sum *)

Some(T) == CHOOSE x \in T : TRUE

\* g holds the totals of f over every subset of S.
Totals(f, S, g) ==
  g = [T \in SUBSET S |-> IF T = {} THEN 0 ELSE f[Some(T)] + g[T \ {Some(T)}]]

TotalsOf(f, S) == CHOOSE g : Totals(f, S, g)

LEMMA SumIsTotal == \A f, S : SumFunctionOnSet(f, S) = TotalsOf(f, S)[S]
BY DEF SumFunctionOnSet, FoldFunctionOnSet, MapThenFoldSet, TotalsOf, Totals, Some

LEMMA SomeIn == \A T : T # {} => Some(T) \in T
BY DEF Some

\* Totals over the smaller subsets make those over the next larger ones.
LEMMA TotalsThere ==
  ASSUME NEW S, IsFiniteSet(S), NEW f, \A x \in S : f[x] \in Int
  PROVE  \E g : Totals(f, S, g) /\ g \in [SUBSET S -> Int]
<1> DEFINE Small(n) == {T \in SUBSET S : Cardinality(T) <= n}
           Next(g, T) == IF T = {} THEN 0 ELSE f[Some(T)] + g[T \ {Some(T)}]
           Built(n) == \E g \in [Small(n) -> Int] :
                         \A T \in Small(n) : g[T] = Next(g, T)
           N == {n \in Nat : Built(n)}
<1>1. \A T \in SUBSET S : /\ IsFiniteSet(T) /\ Cardinality(T) \in Nat
                          /\ Cardinality(T) <= Cardinality(S)
                          /\ Cardinality(T) = 0 <=> T = {}
  BY FS_Subset, FS_CardinalityType, FS_EmptySet
<1>2. 0 \in N
  <2> DEFINE g == [T \in Small(0) |-> 0]
  <2>1. \A T \in Small(0) : T = {}
    BY <1>1
  <2>2. g \in [Small(0) -> Int] /\ \A T \in Small(0) : g[T] = Next(g, T)
    BY <2>1
  <2>3. QED
    BY <2>2
<1>3. ASSUME NEW n \in Nat, n \in N
      PROVE  n + 1 \in N
  <2>1. PICK g \in [Small(n) -> Int] : \A T \in Small(n) : g[T] = Next(g, T)
    BY <1>3
  <2> DEFINE h == [T \in Small(n + 1) |-> Next(g, T)]
  <2>2. \A T \in Small(n + 1) : T # {} => Some(T) \in S /\ T \ {Some(T)} \in Small(n)
    <3> TAKE T \in Small(n + 1)
    <3> HAVE T # {}
    <3>1. Some(T) \in T /\ T \in SUBSET S
      BY SomeIn
    <3>2. Cardinality(T \ {Some(T)}) = Cardinality(T) - 1
      BY <1>1, <3>1, FS_RemoveElement
    <3>3. QED
      BY <1>1, <3>1, <3>2
  <2>3. \A T \in Small(n) : h[T] = g[T] /\ T \in Small(n + 1)
    BY <1>1, <2>1
  <2>4. h \in [Small(n + 1) -> Int]
    BY <2>1, <2>2
  <2>5. \A T \in Small(n + 1) : h[T] = Next(h, T)
    BY <2>2, <2>3
  <2> HIDE DEF h, Next
  <2>6. Built(n + 1)
    BY <2>4, <2>5
  <2> HIDE DEF Built
  <2>7. QED
    BY <2>6
<1>4. Cardinality(S) \in N
  <2>1. Cardinality(S) \in Nat
    BY FS_CardinalityType
  <2> HIDE DEF N
  <2>2. QED
    BY <1>2, <1>3, <2>1, ReachesAll
<1>5. Small(Cardinality(S)) = SUBSET S
  BY <1>1
<1>6. PICK g \in [SUBSET S -> Int] : \A T \in SUBSET S : g[T] = Next(g, T)
  BY <1>4, <1>5
<1>7. QED
  BY <1>6 DEF Totals

\* There is one total of a set, whatever larger set it is seen as a part of.
LEMMA TotalsAgree ==
  ASSUME NEW S, NEW R, IsFiniteSet(R), R \subseteq S,
         NEW f, NEW g, NEW h, Totals(f, S, g), Totals(f, R, h)
  PROVE  \A T \in SUBSET R : g[T] = h[T]
<1> DEFINE N == {n \in Nat : \A T \in SUBSET R : Cardinality(T) = n => g[T] = h[T]}
<1>1. \A T \in SUBSET R : IsFiniteSet(T) /\ Cardinality(T) \in Nat
  BY FS_Subset, FS_CardinalityType
<1>2. \A T \in SUBSET R :
        /\ g[T] = IF T = {} THEN 0 ELSE f[Some(T)] + g[T \ {Some(T)}]
        /\ h[T] = IF T = {} THEN 0 ELSE f[Some(T)] + h[T \ {Some(T)}]
  <2> TAKE T \in SUBSET R
  <2>1. T \in SUBSET S
    OBVIOUS
  <2>2. QED
    BY <2>1 DEF Totals
<1>3. 0 \in N
  BY <1>1, <1>2, FS_EmptySet
<1>4. ASSUME NEW n \in Nat, n \in N
      PROVE  n + 1 \in N
  <2> SUFFICES ASSUME NEW T \in SUBSET R, Cardinality(T) = n + 1
               PROVE  g[T] = h[T]
    OBVIOUS
  <2>0. IsFiniteSet(T)
    BY <1>1
  <2>1. T # {}
    <3>1. Cardinality({}) = 0
      BY FS_EmptySet
    <3>2. QED
      BY <3>1
  <2>a. Some(T) \in T
    BY <2>1, SomeIn
  <2>2. T \ {Some(T)} \in SUBSET R /\ Cardinality(T \ {Some(T)}) = n
    <3>1. Cardinality(T \ {Some(T)}) = Cardinality(T) - 1
      BY <2>0, <2>a, FS_RemoveElement
    <3>2. QED
      BY <3>1
  <2>3. g[T \ {Some(T)}] = h[T \ {Some(T)}]
    BY <1>4, <2>2
  <2>4. QED
    BY <1>2, <2>1, <2>3
<1>5. \A n \in Nat : n \in N
  <2> HIDE DEF N
  <2>1. QED
    BY <1>3, <1>4, ReachesAll
<1>6. QED
  BY <1>1, <1>5

\* g holds the sums of f over the subsets of S.
Sums(f, S, g) ==
  /\ Totals(f, S, g)
  /\ g \in [SUBSET S -> Int]
  /\ \A T \in SUBSET S : SumFunctionOnSet(f, T) = g[T]

LEMMA SumsOfParts ==
  ASSUME NEW S, IsFiniteSet(S), NEW f, \A x \in S : f[x] \in Int
  PROVE  \E g : Sums(f, S, g)
<1>1. PICK g : Totals(f, S, g) /\ g \in [SUBSET S -> Int]
  BY TotalsThere
<1>2. ASSUME NEW T \in SUBSET S
      PROVE  SumFunctionOnSet(f, T) = g[T]
  <2>1. IsFiniteSet(T)
    BY FS_Subset
  <2>2. \E h : Totals(f, T, h)
    <3>1. \A x \in T : f[x] \in Int
      OBVIOUS
    <3>2. QED
      BY <2>1, <3>1, TotalsThere
  <2>3. Totals(f, T, TotalsOf(f, T))
    BY <2>2 DEF TotalsOf
  <2>4. g[T] = TotalsOf(f, T)[T]
    BY <1>1, <2>1, <2>3, TotalsAgree
  <2>5. QED
    BY <2>4, SumIsTotal
<1>3. QED
  BY <1>1, <1>2 DEF Sums

LEMMA SumEmpty == \A f : SumFunctionOnSet(f, {}) = 0
<1> TAKE f
<1>1. IsFiniteSet({})
  BY FS_EmptySet
<1>2. \A x \in {} : f[x] \in Int
  OBVIOUS
<1>3. PICK g : Sums(f, {}, g)
  BY <1>1, <1>2, SumsOfParts
<1>4. g[{}] = 0
  BY <1>3 DEF Sums, Totals
<1>5. QED
  BY <1>3, <1>4 DEF Sums

LEMMA SumInt ==
  ASSUME NEW S, IsFiniteSet(S), NEW f, \A x \in S : f[x] \in Int
  PROVE  \A T \in SUBSET S : SumFunctionOnSet(f, T) \in Int
<1>1. PICK g : Sums(f, S, g)
  BY SumsOfParts
<1>2. QED
  BY <1>1 DEF Sums

LEMMA SumStep ==
  ASSUME NEW S, IsFiniteSet(S), NEW f, \A x \in S : f[x] \in Int
  PROVE  \A T \in SUBSET S : T # {} =>
            SumFunctionOnSet(f, T) =
              f[Some(T)] + SumFunctionOnSet(f, T \ {Some(T)})
<1>1. PICK g : Sums(f, S, g)
  BY SumsOfParts
<1>2. ASSUME NEW T \in SUBSET S, T # {}
      PROVE  g[T] = f[Some(T)] + g[T \ {Some(T)}]
  BY <1>1, <1>2 DEF Sums, Totals
<1>3. \A T \in SUBSET S : T \ {Some(T)} \in SUBSET S
  OBVIOUS
<1>4. QED
  BY <1>1, <1>2, <1>3 DEF Sums

\* Whichever element is taken out, the sum is that one and the sum of the rest.
LEMMA SumRemove ==
  ASSUME NEW S, IsFiniteSet(S), NEW f, \A x \in S : f[x] \in Int
  PROVE  \A T \in SUBSET S : \A x \in T :
            SumFunctionOnSet(f, T) = f[x] + SumFunctionOnSet(f, T \ {x})
<1> DEFINE Sum(T) == SumFunctionOnSet(f, T)
           N == {n \in Nat : \A T \in SUBSET S : Cardinality(T) = n =>
                               \A x \in T : Sum(T) = f[x] + Sum(T \ {x})}
<1>1. \A T \in SUBSET S : IsFiniteSet(T)
  BY FS_Subset
<1>2. \A T \in SUBSET S : Cardinality(T) \in Nat
  BY <1>1, FS_CardinalityType
<1>3. \A T \in SUBSET S : Sum(T) \in Int
  BY SumInt
<1>4. \A T \in SUBSET S : T # {} => Sum(T) = f[Some(T)] + Sum(T \ {Some(T)})
  BY SumStep
<1> HIDE DEF Sum
<1>5. 0 \in N
  <2>1. \A T \in SUBSET S : Cardinality(T) = 0 => T = {}
    BY <1>1, FS_EmptySet
  <2>2. QED
    BY <2>1
<1>6. ASSUME NEW n \in Nat, n \in N
      PROVE  n + 1 \in N
  <2> SUFFICES ASSUME NEW T \in SUBSET S, Cardinality(T) = n + 1,
                      NEW x \in T
               PROVE  Sum(T) = f[x] + Sum(T \ {x})
    OBVIOUS
  <2> DEFINE c == Some(T)
  <2>1. c \in T
    BY SomeIn
  <2>2. Sum(T) = f[c] + Sum(T \ {c})
    BY <1>4
  <2>3. CASE x = c
    BY <2>2, <2>3
  <2>4. CASE x # c
    <3> HIDE DEF c
    <3>1. \A y \in T : T \ {y} \in SUBSET S /\ Cardinality(T \ {y}) = n
      <4> TAKE y \in T
      <4>1. IsFiniteSet(T)
        BY <1>1
      <4>2. Cardinality(T \ {y}) = Cardinality(T) - 1
        BY <4>1, FS_RemoveElement
      <4>3. QED
        BY <4>2
    <3>2. Sum(T \ {c}) = f[x] + Sum((T \ {c}) \ {x})
      BY <1>6, <2>1, <2>4, <3>1
    <3>3. Sum(T \ {x}) = f[c] + Sum((T \ {x}) \ {c})
      BY <1>6, <2>1, <2>4, <3>1
    <3>4. (T \ {c}) \ {x} = (T \ {x}) \ {c}
      OBVIOUS
    <3>5. /\ f[x] \in Int /\ f[c] \in Int
          /\ Sum((T \ {c}) \ {x}) \in Int
      BY <1>3, <2>1
    <3>6. Sum(T \ {x}) = f[c] + Sum((T \ {c}) \ {x})
      BY <3>3, <3>4
    <3>7. f[c] + (f[x] + Sum((T \ {c}) \ {x})) = f[x] + (f[c] + Sum((T \ {c}) \ {x}))
      BY <3>5
    <3>8. QED
      BY <2>2, <3>2, <3>6, <3>7
  <2>5. QED
    BY <2>3, <2>4
<1>7. \A n \in Nat : n \in N
  <2> HIDE DEF N
  <2>1. QED
    BY <1>5, <1>6, ReachesAll
<1>8. \A T \in SUBSET S : \A x \in T : Sum(T) = f[x] + Sum(T \ {x})
  BY <1>2, <1>7
<1>9. QED
  BY <1>8 DEF Sum

-----------------------------------------------------------------------------
(* What is used of sums *)

LEMMA SumAdd ==
  ASSUME NEW S, IsFiniteSet(S), NEW f, \A x \in S : f[x] \in Int
  PROVE  \A T \in SUBSET S : \A x \in S \ T :
            SumFunctionOnSet(f, T \cup {x}) = SumFunctionOnSet(f, T) + f[x]
<1> TAKE T \in SUBSET S
<1> TAKE x \in S \ T
<1>1. T \cup {x} \in SUBSET S /\ (T \cup {x}) \ {x} = T
  OBVIOUS
<1>2. SumFunctionOnSet(f, T \cup {x}) = f[x] + SumFunctionOnSet(f, T)
  <2>1. SumFunctionOnSet(f, T \cup {x}) =
          f[x] + SumFunctionOnSet(f, (T \cup {x}) \ {x})
    BY <1>1, SumRemove
  <2>2. QED
    BY <1>1, <2>1
<1>3. SumFunctionOnSet(f, T) \in Int /\ f[x] \in Int
  BY SumInt
<1>4. QED
  BY <1>2, <1>3

LEMMA SumEqual ==
  ASSUME NEW S, IsFiniteSet(S), NEW f, NEW g,
         \A x \in S : f[x] \in Int /\ g[x] = f[x]
  PROVE  SumFunctionOnSet(g, S) = SumFunctionOnSet(f, S)
<1> DEFINE P == {T \in SUBSET S : SumFunctionOnSet(g, T) = SumFunctionOnSet(f, T)}
<1>1. {} \in P
  BY SumEmpty
<1>0. (\A x \in S : f[x] \in Int) /\ (\A x \in S : g[x] \in Int)
  OBVIOUS
<1>2. \A T \in SUBSET S : \A x \in S \ T :
        SumFunctionOnSet(f, T \cup {x}) = SumFunctionOnSet(f, T) + f[x]
  BY <1>0, SumAdd
<1>a. \A T \in SUBSET S : \A x \in S \ T :
        SumFunctionOnSet(g, T \cup {x}) = SumFunctionOnSet(g, T) + g[x]
  BY <1>0, SumAdd
<1>3. \A T \in SUBSET S : \A x \in S \ T : T \in P => T \cup {x} \in P
  BY <1>2, <1>a
<1>4. S \in P
  <2> HIDE DEF P
  <2>1. QED
    BY <1>1, <1>3, GrowsToAll
<1>5. QED
  BY <1>4

LEMMA SumPlus ==
  \A S, f, g, h :
    /\ IsFiniteSet(S)
    /\ \A x \in S : f[x] \in Int
    /\ \A x \in S : g[x] \in Int
    /\ \A x \in S : h[x] = f[x] + g[x]
    => SumFunctionOnSet(h, S) = SumFunctionOnSet(f, S) + SumFunctionOnSet(g, S)
<1> TAKE S, f, g, h
<1>0. SUFFICES ASSUME IsFiniteSet(S),
                      \A x \in S : f[x] \in Int,
                      \A x \in S : g[x] \in Int,
                      \A x \in S : h[x] = f[x] + g[x]
               PROVE  SumFunctionOnSet(h, S) =
                        SumFunctionOnSet(f, S) + SumFunctionOnSet(g, S)
  OBVIOUS
<1> DEFINE P == {T \in SUBSET S : SumFunctionOnSet(h, T) =
                    SumFunctionOnSet(f, T) + SumFunctionOnSet(g, T)}
<1>1. IsFiniteSet(S)
  BY <1>0
<1>2. \A x \in S : f[x] \in Int
  BY <1>0
<1>3. \A x \in S : g[x] \in Int
  BY <1>0
<1>4. \A x \in S : h[x] \in Int
  BY <1>0
<1>5. \A T \in SUBSET S : \A x \in S \ T :
        SumFunctionOnSet(f, T \cup {x}) = SumFunctionOnSet(f, T) + f[x]
  BY <1>1, <1>2, SumAdd
<1>6. \A T \in SUBSET S : \A x \in S \ T :
        SumFunctionOnSet(g, T \cup {x}) = SumFunctionOnSet(g, T) + g[x]
  BY <1>1, <1>3, SumAdd
<1>7. \A T \in SUBSET S : \A x \in S \ T :
        SumFunctionOnSet(h, T \cup {x}) = SumFunctionOnSet(h, T) + h[x]
  BY <1>1, <1>4, SumAdd
<1>8. \A T \in SUBSET S : SumFunctionOnSet(f, T) \in Int
  BY <1>1, <1>2, SumInt
<1>9. \A T \in SUBSET S : SumFunctionOnSet(g, T) \in Int
  BY <1>1, <1>3, SumInt
<1>10. {} \in P
  BY SumEmpty
<1>11. \A T \in SUBSET S : \A x \in S \ T : T \in P => T \cup {x} \in P
  BY <1>0, <1>5, <1>6, <1>7, <1>8, <1>9
<1>12. S \in P
  <2> HIDE DEF P
  <2>1. QED
    BY <1>1, <1>10, <1>11, GrowsToAll
<1>13. QED
  BY <1>12

LEMMA SumUnion ==
  ASSUME NEW S, NEW R, IsFiniteSet(S), IsFiniteSet(R), S \cap R = {},
         NEW f, \A x \in S \cup R : f[x] \in Int
  PROVE  SumFunctionOnSet(f, S \cup R) =
           SumFunctionOnSet(f, S) + SumFunctionOnSet(f, R)
<1> DEFINE P == {T \in SUBSET R : SumFunctionOnSet(f, S \cup T) =
                    SumFunctionOnSet(f, S) + SumFunctionOnSet(f, T)}
<1>0. IsFiniteSet(S \cup R)
  BY FS_Union
<1>1. \A T \in SUBSET (S \cup R) : SumFunctionOnSet(f, T) \in Int
  BY <1>0, SumInt
<1>2. {} \in P
  <2>1. S \cup {} = S /\ SumFunctionOnSet(f, {}) = 0
    BY SumEmpty
  <2>2. SumFunctionOnSet(f, S) \in Int
    BY <1>1
  <2>3. QED
    BY <2>1, <2>2
<1>3. ASSUME NEW T \in SUBSET R, NEW x \in R \ T, T \in P
      PROVE  T \cup {x} \in P
  <2>1. SumFunctionOnSet(f, T \cup {x}) = SumFunctionOnSet(f, T) + f[x]
    <3>1. T \in SUBSET (S \cup R) /\ x \in (S \cup R) \ T
      OBVIOUS
    <3>2. QED
      BY <1>0, <3>1, SumAdd
  <2>2. SumFunctionOnSet(f, (S \cup T) \cup {x}) =
          SumFunctionOnSet(f, S \cup T) + f[x]
    <3>1. S \cup T \in SUBSET (S \cup R) /\ x \in (S \cup R) \ (S \cup T)
      OBVIOUS
    <3>2. \A U \in SUBSET (S \cup R) : \A y \in (S \cup R) \ U :
            SumFunctionOnSet(f, U \cup {y}) = SumFunctionOnSet(f, U) + f[y]
      BY <1>0, SumAdd
    <3>3. QED
      BY <3>1, <3>2
  <2>3. S \cup (T \cup {x}) = (S \cup T) \cup {x}
    OBVIOUS
  <2>4. /\ f[x] \in Int
        /\ SumFunctionOnSet(f, S) \in Int
        /\ SumFunctionOnSet(f, T) \in Int
    BY <1>1
  <2>5. SumFunctionOnSet(f, S \cup T) =
          SumFunctionOnSet(f, S) + SumFunctionOnSet(f, T)
    BY <1>3
  <2>6. SumFunctionOnSet(f, S \cup (T \cup {x})) =
          SumFunctionOnSet(f, S) + SumFunctionOnSet(f, T \cup {x})
    <3>1. SumFunctionOnSet(f, S \cup (T \cup {x})) =
            (SumFunctionOnSet(f, S) + SumFunctionOnSet(f, T)) + f[x]
      BY <2>2, <2>3, <2>5
    <3>2. QED
      BY <2>1, <2>4, <3>1
  <2>7. T \cup {x} \in SUBSET R
    OBVIOUS
  <2>8. QED
    BY <2>6, <2>7
<1>4. R \in P
  <2> HIDE DEF P
  <2>1. QED
    BY <1>2, <1>3, GrowsToAll
<1>5. QED
  BY <1>4

LEMMA SumNat ==
  ASSUME NEW S, IsFiniteSet(S), NEW f, \A x \in S : f[x] \in Nat
  PROVE  \A T \in SUBSET S : SumFunctionOnSet(f, T) \in Nat
<1> DEFINE P == {T \in SUBSET S : SumFunctionOnSet(f, T) \in Nat}
<1>1. {} \in P
  BY SumEmpty
<1>2. \A T \in SUBSET S : \A x \in S \ T :
        SumFunctionOnSet(f, T \cup {x}) = SumFunctionOnSet(f, T) + f[x]
  <2>1. \A x \in S : f[x] \in Int
    OBVIOUS
  <2>2. QED
    BY <2>1, SumAdd
<1>3. \A T \in SUBSET S : \A x \in S \ T : T \in P => T \cup {x} \in P
  BY <1>2
<1>4. \A T \in SUBSET S : T \in P
  <2> HIDE DEF P
  <2>1. QED
    BY <1>1, <1>3, GrowsToAll
<1>5. QED
  BY <1>4

LEMMA SumZero ==
  ASSUME NEW S, IsFiniteSet(S), NEW f, \A x \in S : f[x] = 0
  PROVE  SumFunctionOnSet(f, S) = 0
<1> DEFINE P == {T \in SUBSET S : SumFunctionOnSet(f, T) = 0}
<1>1. {} \in P
  BY SumEmpty
<1>2. \A T \in SUBSET S : \A x \in S \ T :
        SumFunctionOnSet(f, T \cup {x}) = SumFunctionOnSet(f, T) + f[x]
  <2>1. \A x \in S : f[x] \in Int
    OBVIOUS
  <2>2. QED
    BY <2>1, SumAdd
<1>3. \A T \in SUBSET S : \A x \in S \ T : T \in P => T \cup {x} \in P
  BY <1>2
<1>4. S \in P
  <2> HIDE DEF P
  <2>1. QED
    BY <1>1, <1>3, GrowsToAll
<1>5. QED
  BY <1>4

\* A sum is the same along an injection that misses only zeroes.
LEMMA SumAlong ==
  \A S, R, h, f, g :
    /\ IsFiniteSet(S) /\ IsFiniteSet(R)
    /\ \A x \in S : h[x] \in R
    /\ \A x \in S : \A y \in S : h[x] = h[y] => x = y
    /\ \A y \in R : g[y] \in Int
    /\ \A x \in S : f[x] = g[h[x]]
    /\ \A y \in R : g[y] # 0 => \E x \in S : h[x] = y
    => SumFunctionOnSet(f, S) = SumFunctionOnSet(g, R)
<1> TAKE S, R, h, f, g
<1>0. SUFFICES ASSUME IsFiniteSet(S), IsFiniteSet(R),
                      \A x \in S : h[x] \in R,
                      \A x \in S : \A y \in S : h[x] = h[y] => x = y,
                      \A y \in R : g[y] \in Int,
                      \A x \in S : f[x] = g[h[x]],
                      \A y \in R : g[y] # 0 => \E x \in S : h[x] = y
               PROVE  SumFunctionOnSet(f, S) = SumFunctionOnSet(g, R)
  OBVIOUS
<1> DEFINE Img(T) == {h[x] : x \in T}
           P == {T \in SUBSET S : SumFunctionOnSet(f, T) = SumFunctionOnSet(g, Img(T))}
<1>1. (\A x \in S : f[x] \in Int) /\ IsFiniteSet(S)
  BY <1>0
<1>a. (\A y \in R : g[y] \in Int) /\ IsFiniteSet(R)
  BY <1>0
<1>2. \A T \in SUBSET S : \A x \in S \ T :
        SumFunctionOnSet(f, T \cup {x}) = SumFunctionOnSet(f, T) + f[x]
  BY <1>1, SumAdd
<1>3. \A T \in SUBSET R : \A y \in R \ T :
        SumFunctionOnSet(g, T \cup {y}) = SumFunctionOnSet(g, T) + g[y]
  BY <1>a, SumAdd
<1>4. {} \in P
  <2>1. Img({}) = {}
    OBVIOUS
  <2>2. QED
    BY <2>1, SumEmpty
<1>5. ASSUME NEW T \in SUBSET S, NEW x \in S \ T, T \in P
      PROVE  T \cup {x} \in P
  <2>1. Img(T \cup {x}) = Img(T) \cup {h[x]}
    OBVIOUS
  <2>2. Img(T) \in SUBSET R /\ h[x] \in R \ Img(T)
    BY <1>0
  <2> HIDE DEF Img
  <2>3. SumFunctionOnSet(g, Img(T) \cup {h[x]}) =
          SumFunctionOnSet(g, Img(T)) + g[h[x]]
    BY <1>3, <2>2
  <2>4. SumFunctionOnSet(f, T \cup {x}) = SumFunctionOnSet(f, T) + f[x]
    BY <1>2
  <2>5. SumFunctionOnSet(f, T) = SumFunctionOnSet(g, Img(T))
    BY <1>5
  <2>6. f[x] = g[h[x]]
    BY <1>0
  <2>7. QED
    BY <2>1, <2>3, <2>4, <2>5, <2>6
<1>6. S \in P
  <2> HIDE DEF P
  <2>1. QED
    BY <1>0, <1>4, <1>5, GrowsToAll
<1>7. SumFunctionOnSet(g, R) = SumFunctionOnSet(g, Img(S))
  <2>1. PICK H, Z : H = Img(S) /\ Z = R \ Img(S)
    OBVIOUS
  <2>2. H \cup Z = R /\ H \cap Z = {}
    BY <1>0, <2>1
  <2>3. IsFiniteSet(H) /\ IsFiniteSet(Z)
    <3>1. H \subseteq R /\ Z \subseteq R
      BY <2>2
    <3>2. QED
      BY <1>0, <3>1, FS_Subset
  <2>4. \A y \in Z : g[y] = 0
    BY <1>0, <2>1
  <2>5. SumFunctionOnSet(g, Z) = 0
    BY <2>3, <2>4, SumZero
  <2>6. \A y \in H \cup Z : g[y] \in Int
    BY <1>0, <2>2
  <2>7. SumFunctionOnSet(g, H \cup Z)
          = SumFunctionOnSet(g, H) + SumFunctionOnSet(g, Z)
    BY <2>2, <2>3, <2>6, SumUnion
  <2>8. SumFunctionOnSet(g, H) \in Int
    <3>1. H \in SUBSET R
      BY <2>2
    <3>2. QED
      BY <1>0, <3>1, SumInt
  <2>9. QED
    <3>1. SumFunctionOnSet(g, R) = SumFunctionOnSet(g, H) + 0
      BY <2>2, <2>5, <2>7
    <3>2. QED
      BY <2>1, <2>8, <3>1
<1>8. QED
  BY <1>6, <1>7

\* One element changes its value: the sum changes by as much.
LEMMA SumChange ==
  ASSUME NEW S, IsFiniteSet(S), NEW f, NEW g, NEW x \in S,
         \A y \in S : f[y] \in Int,
         g[x] \in Int,
         \A y \in S \ {x} : g[y] = f[y]
  PROVE  SumFunctionOnSet(g, S) = SumFunctionOnSet(f, S) + g[x] - f[x]
<1>1. \A y \in S : g[y] \in Int
  OBVIOUS
<1>2. /\ SumFunctionOnSet(f, S) = f[x] + SumFunctionOnSet(f, S \ {x})
      /\ SumFunctionOnSet(g, S) = g[x] + SumFunctionOnSet(g, S \ {x})
  BY <1>1, SumRemove
<1>3. SumFunctionOnSet(g, S \ {x}) = SumFunctionOnSet(f, S \ {x})
  <2>1. IsFiniteSet(S \ {x})
    BY FS_Subset
  <2>2. \A y \in S \ {x} : f[y] \in Int /\ g[y] = f[y]
    OBVIOUS
  <2>3. QED
    BY <2>1, <2>2, SumEqual
<1>4. SumFunctionOnSet(f, S \ {x}) \in Int
  BY SumInt
<1>5. QED
  BY <1>2, <1>3, <1>4

LEMMA SumScale ==
  \A S, f, g : \A c \in Int :
    /\ IsFiniteSet(S)
    /\ \A x \in S : f[x] \in Int
    /\ \A x \in S : g[x] = c * f[x]
    => SumFunctionOnSet(g, S) = c * SumFunctionOnSet(f, S)
<1> TAKE S, f, g
<1> TAKE c \in Int
<1>0. SUFFICES ASSUME IsFiniteSet(S),
                      \A x \in S : f[x] \in Int,
                      \A x \in S : g[x] = c * f[x]
               PROVE  SumFunctionOnSet(g, S) = c * SumFunctionOnSet(f, S)
  OBVIOUS
<1> DEFINE P == {T \in SUBSET S :
                   SumFunctionOnSet(g, T) = c * SumFunctionOnSet(f, T)}
<1>1. IsFiniteSet(S)
  BY <1>0
<1>2. \A x \in S : f[x] \in Int
  BY <1>0
<1>3. \A x \in S : g[x] \in Int
  BY <1>0
<1>4. \A T \in SUBSET S : \A x \in S \ T :
        SumFunctionOnSet(f, T \cup {x}) = SumFunctionOnSet(f, T) + f[x]
  BY <1>1, <1>2, SumAdd
<1>5. \A T \in SUBSET S : \A x \in S \ T :
        SumFunctionOnSet(g, T \cup {x}) = SumFunctionOnSet(g, T) + g[x]
  BY <1>1, <1>3, SumAdd
<1>6. \A T \in SUBSET S : SumFunctionOnSet(f, T) \in Int
  BY <1>1, <1>2, SumInt
<1>7. {} \in P
  BY SumEmpty
<1>8. ASSUME NEW T \in SUBSET S, NEW x \in S \ T, T \in P
      PROVE  T \cup {x} \in P
  <2>1. \A a, b \in Int : c * (a + b) = c * a + c * b
    OBVIOUS
  <2>2. SumFunctionOnSet(g, T \cup {x}) = c * SumFunctionOnSet(f, T) + c * f[x]
    BY <1>0, <1>5, <1>8
  <2>3. SumFunctionOnSet(g, T \cup {x}) = c * (SumFunctionOnSet(f, T) + f[x])
    BY <1>2, <1>6, <2>1, <2>2
  <2>4. SumFunctionOnSet(g, T \cup {x}) = c * SumFunctionOnSet(f, T \cup {x})
    BY <1>4, <2>3
  <2>5. QED
    BY <2>4
<1>9. S \in P
  <2> HIDE DEF P
  <2>1. QED
    BY <1>1, <1>7, <1>8, GrowsToAll
<1>10. QED
  BY <1>9

LEMMA SumBelow ==
  \A S, f : \A c \in Int :
    /\ IsFiniteSet(S)
    /\ \A x \in S : f[x] \in Int
    /\ \A x \in S : f[x] <= c
    => SumFunctionOnSet(f, S) <= c * Cardinality(S)
<1> TAKE S, f
<1> TAKE c \in Int
<1>0. SUFFICES ASSUME IsFiniteSet(S),
                      \A x \in S : f[x] \in Int,
                      \A x \in S : f[x] <= c
               PROVE  SumFunctionOnSet(f, S) <= c * Cardinality(S)
  OBVIOUS
<1> DEFINE P == {T \in SUBSET S : SumFunctionOnSet(f, T) <= c * Cardinality(T)}
<1>1. IsFiniteSet(S)
  BY <1>0
<1>2. \A x \in S : f[x] \in Int
  BY <1>0
<1>3. \A T \in SUBSET S : \A x \in S \ T :
        SumFunctionOnSet(f, T \cup {x}) = SumFunctionOnSet(f, T) + f[x]
  BY <1>1, <1>2, SumAdd
<1>4. \A T \in SUBSET S : SumFunctionOnSet(f, T) \in Int
  BY <1>1, <1>2, SumInt
<1>5. \A T \in SUBSET S : IsFiniteSet(T)
  BY <1>1, FS_Subset
<1>6. \A T \in SUBSET S : Cardinality(T) \in Nat
  BY <1>5, FS_CardinalityType
<1>7. \A T \in SUBSET S : \A x \in S \ T : Cardinality(T \cup {x}) = Cardinality(T) + 1
  BY <1>5, FS_AddElement
<1>8. {} \in P
  BY SumEmpty, FS_EmptySet
<1>9. ASSUME NEW T \in SUBSET S, NEW x \in S \ T, T \in P
      PROVE  T \cup {x} \in P
  <2>1. c * (Cardinality(T) + 1) = c * Cardinality(T) + c
    BY <1>6
  <2>2. c * Cardinality(T) \in Int
    BY <1>6
  <2>3. SumFunctionOnSet(f, T) + f[x] <= c * Cardinality(T) + c
    BY <1>0, <1>4, <1>9, <2>2
  <2>4. QED
    BY <1>3, <1>7, <2>1, <2>3
<1>10. S \in P
  <2> HIDE DEF P
  <2>1. QED
    BY <1>1, <1>8, <1>9, GrowsToAll
<1>11. QED
  BY <1>10

LEMMA SumCount ==
  \A S, H, f :
    /\ IsFiniteSet(S)
    /\ H \subseteq S
    /\ \A x \in S : f[x] = IF x \in H THEN 1 ELSE 0
    => SumFunctionOnSet(f, S) = Cardinality(H)
<1> TAKE S, H, f
<1>0. SUFFICES ASSUME IsFiniteSet(S), H \subseteq S,
                      \A x \in S : f[x] = IF x \in H THEN 1 ELSE 0
               PROVE  SumFunctionOnSet(f, S) = Cardinality(H)
  OBVIOUS
<1> DEFINE P == {T \in SUBSET S : SumFunctionOnSet(f, T) = Cardinality(T \cap H)}
<1>1. IsFiniteSet(S)
  BY <1>0
<1>2. \A x \in S : f[x] \in Int
  BY <1>0
<1>3. \A T \in SUBSET S : \A x \in S \ T :
        SumFunctionOnSet(f, T \cup {x}) = SumFunctionOnSet(f, T) + f[x]
  BY <1>1, <1>2, SumAdd
<1>4. \A T \in SUBSET S : IsFiniteSet(T)
  BY <1>1, FS_Subset
<1>5. {} \in P
  <2>1. {} \cap H = {}
    OBVIOUS
  <2>2. QED
    BY <2>1, SumEmpty, FS_EmptySet
<1>6. ASSUME NEW T \in SUBSET S, NEW x \in S \ T, T \in P
      PROVE  T \cup {x} \in P
  <2>1. IsFiniteSet(T \cap H)
    <3>1. T \cap H \in SUBSET S
      OBVIOUS
    <3>2. QED
      BY <1>4, <3>1
  <2>2. Cardinality(T \cap H) \in Nat
    BY <2>1, FS_CardinalityType
  <2>3. SumFunctionOnSet(f, T) = Cardinality(T \cap H)
    BY <1>6
  <2>4. CASE x \in H
    <3>1. (T \cup {x}) \cap H = (T \cap H) \cup {x} /\ x \notin T \cap H
      BY <2>4
    <3>2. Cardinality((T \cap H) \cup {x}) = Cardinality(T \cap H) + 1
      BY <2>1, <3>1, FS_AddElement
    <3>3. f[x] = 1
      BY <1>0, <2>4
    <3>4. QED
      BY <1>3, <2>3, <3>1, <3>2, <3>3
  <2>5. CASE x \notin H
    <3>1. (T \cup {x}) \cap H = T \cap H
      BY <2>5
    <3>2. f[x] = 0
      BY <1>0, <2>5
    <3>3. SumFunctionOnSet(f, T \cup {x}) = Cardinality(T \cap H)
      BY <1>3, <2>2, <2>3, <3>2
    <3>4. QED
      BY <3>1, <3>3
  <2>6. QED
    BY <2>4, <2>5
<1>7. S \in P
  <2> HIDE DEF P
  <2>1. QED
    BY <1>1, <1>5, <1>6, GrowsToAll
<1>8. S \cap H = H
  BY <1>0
<1>9. QED
  BY <1>7, <1>8
===============================================================================
