------------------------------ MODULE Positions ------------------------------
(***************************************************************************)
(* What the proofs need to know of Max, which picks the last of some       *)
(* positions in a sequence, and of the sums that MapThenSumSet computes.   *)
(***************************************************************************)
EXTENDS Integers, FiniteSetsExt, FiniteSetTheorems, WellFoundedInduction, TLAPS

\* A nonempty set of numbers has a least one.
LEMMA LeastNumber ==
    ASSUME NEW S \in SUBSET Nat, S # {}
    PROVE  \E n \in S : \A m \in S : n <= m
  <1> DEFINE R == OpToRel(<, Nat)
  <1>1. IsWellFoundedOn(R, Nat)
    BY NatLessThanWellFounded
  <1>2. PICK x \in S : \A y \in S : ~(<<y, x>> \in R)
    <2> HIDE DEF R
    <2> QED BY <1>1, WFMin
  <1>3. \A y \in S : ~(y < x)
    BY <1>2 DEF OpToRel
  <1> HIDE DEF R
  <1>4. QED
    BY <1>3

\* A nonempty set of positions has a last one.
LEMMA MaxExists ==
    ASSUME NEW n \in Nat, NEW S \in SUBSET (1..n), S # {}
    PROVE  Max(S) \in S
  <1> DEFINE T == {n - i : i \in S}
  <1>1. T \subseteq Nat /\ T # {}
    <2>1. \A i \in S : n - i \in Nat
      OBVIOUS
    <2>2. QED
      BY <2>1, Zenon
  <1> HIDE DEF T
  <1>2. PICK x \in T : \A y \in T : x <= y
    BY <1>1, LeastNumber
  <1> USE DEF T
  <1>3. PICK i \in S : x = n - i
    OBVIOUS
  <1>4. \A j \in S : i >= j
    <2>1. \A j \in S : n - j \in T
      OBVIOUS
    <2>2. \A j \in S : n - i <= n - j
      BY <1>2, <1>3, <2>1
    <2>3. QED
      BY <2>2
  <1>5. QED
    BY <1>3, <1>4 DEF Max

-----------------------------------------------------------------------------
(* Sums                                                                    *)

\* g sums up f over the subsets of S, as MapThenSumSet does it.
One(s)       == CHOOSE x \in s : TRUE
Sum(g, f, s) == IF s = {} THEN 0 ELSE f[One(s)] + g[s \ {One(s)}]
Sums(g, f, S) == g = [s \in SUBSET S |-> Sum(g, f, s)]

LEMMA OneLess ==
    ASSUME NEW S, IsFiniteSet(S), NEW s \in SUBSET S, s # {}
    PROVE  /\ One(s) \in s /\ s \ {One(s)} \in SUBSET S
           /\ IsFiniteSet(s) /\ Cardinality(s) \in Nat /\ Cardinality(s) > 0
           /\ Cardinality(s \ {One(s)}) = Cardinality(s) - 1
  <1>1. One(s) \in s
    BY DEF One
  <1>2. IsFiniteSet(s)
    BY FS_Subset
  <1>3. Cardinality(s) \in Nat /\ Cardinality(s) # 0
    BY <1>2, FS_CardinalityType, FS_EmptySet
  <1>4. Cardinality(s \ {One(s)}) = Cardinality(s) - 1
    BY <1>1, <1>2, FS_RemoveElement
  <1>5. QED
    BY <1>1, <1>2, <1>3, <1>4

\* There is such a g: what it says of the subsets of one size comes from those
\* of the size below.
LEMMA SumsExist ==
    ASSUME NEW S, IsFiniteSet(S), NEW f
    PROVE  \E g : Sums(g, f, S)
  <1> DEFINE UpTo(g, n) == \A s \in SUBSET S : Cardinality(s) <= n => g[s] = Sum(g, f, s)
             Bad == {n \in Nat : ~\E g : UpTo(g, n)}
  <1>1. \A s \in SUBSET S : IsFiniteSet(s) /\ Cardinality(s) \in Nat /\ Cardinality(s) <= Cardinality(S)
    BY FS_Subset, FS_CardinalityType
  <1>2. Bad = {}
    <2>1. SUFFICES ASSUME Bad # {} PROVE FALSE
      OBVIOUS
    <2>2. Bad \in SUBSET Nat
      OBVIOUS
    <2> HIDE DEF Bad
    <2>3. PICK n \in Bad : \A m \in Bad : n <= m
      BY <2>1, <2>2, LeastNumber
    <2>4. n \in Nat
      BY <2>2
    <2> USE DEF Bad
    <2>5. CASE n = 0
      <3>1. PICK g : g = [s \in SUBSET S |-> 0]
        OBVIOUS
      <3>2. ASSUME NEW s \in SUBSET S, Cardinality(s) <= 0 PROVE g[s] = Sum(g, f, s)
        <4>1. s = {}
          BY <1>1, <3>2, FS_EmptySet
        <4>2. QED
          BY <3>1, <4>1 DEF Sum
      <3>3. UpTo(g, n)
        BY <2>5, <3>2
      <3>4. QED
        BY <3>3
    <2>6. CASE n # 0
      <3>1. n - 1 \in Nat /\ n - 1 \notin Bad
        <4>1. n - 1 \in Nat /\ ~(n <= n - 1)
          BY <2>4, <2>6
        <4> HIDE DEF Bad
        <4>2. QED
          BY <2>3, <4>1
      <3>2. PICK h : UpTo(h, n - 1)
        BY <3>1
      <3>3. PICK g : g = [s \in SUBSET S |-> IF Cardinality(s) <= n - 1 THEN h[s] ELSE Sum(h, f, s)]
        OBVIOUS
      <3>4. ASSUME NEW s \in SUBSET S, Cardinality(s) <= n PROVE g[s] = Sum(g, f, s)
        <4>1. CASE s = {}
          <5>1. Cardinality(s) <= n - 1
            BY <3>1, <4>1, FS_EmptySet
          <5>2. g[s] = h[s] /\ h[s] = Sum(h, f, s)
            BY <3>2, <3>3, <5>1
          <5>3. QED
            BY <4>1, <5>2 DEF Sum
        <4>2. CASE s # {}
          <5> DEFINE t == s \ {One(s)}
          <5>1. t \in SUBSET S /\ Cardinality(t) <= n - 1
            BY <1>1, <2>4, <3>4, <4>2, OneLess
          <5>2. g[s] = Sum(h, f, s)
            BY <3>2, <3>3
          <5>3. g[t] = h[t]
            <6> HIDE DEF t
            <6> QED BY <3>3, <5>1
          <5>4. Sum(h, f, s) = f[One(s)] + h[t] /\ Sum(g, f, s) = f[One(s)] + g[t]
            BY <4>2 DEF Sum
          <5>5. QED
            BY <5>2, <5>3, <5>4
        <4>3. QED
          BY <4>1, <4>2
      <3>5. UpTo(g, n)
        BY <3>4
      <3>6. QED
        BY <3>5
    <2>7. QED
      BY <2>5, <2>6
  <1>3. PICK h : UpTo(h, Cardinality(S))
    <2>1. Cardinality(S) \in Nat
      BY <1>1
    <2>2. QED
      BY <1>2, <2>1
  <1>4. PICK g : g = [s \in SUBSET S |-> h[s]]
    OBVIOUS
  <1>5. ASSUME NEW s \in SUBSET S PROVE g[s] = Sum(g, f, s)
    <2>1. g[s] = Sum(h, f, s)
      BY <1>1, <1>3, <1>4
    <2>2. CASE s = {}
      BY <2>1, <2>2 DEF Sum
    <2>3. CASE s # {}
      <3> DEFINE t == s \ {One(s)}
      <3>1. t \in SUBSET S
        OBVIOUS
      <3>2. g[t] = h[t]
        <4> HIDE DEF t
        <4> QED BY <1>4, <3>1
      <3>3. Sum(h, f, s) = f[One(s)] + h[t] /\ Sum(g, f, s) = f[One(s)] + g[t]
        BY <2>3 DEF Sum
      <3>4. QED
        BY <2>1, <3>2, <3>3
    <2>4. QED
      BY <2>2, <2>3
  <1>6. g = [s \in SUBSET S |-> Sum(g, f, s)]
    <2>1. \A s \in SUBSET S : h[s] = Sum(g, f, s)
      BY <1>4, <1>5
    <2>2. QED
      BY <1>4, <2>1
  <1>7. QED
    BY <1>6 DEF Sums

\* A sum of elements of a set that is closed under addition is one of them.
LEMMA SumsIn ==
    ASSUME NEW S, IsFiniteSet(S), NEW V, 0 \in V, \A x, y \in V : x + y \in V,
           NEW f, \A x \in S : f[x] \in V, NEW g, Sums(g, f, S)
    PROVE  \A s \in SUBSET S : g[s] \in V
  <1> DEFINE Bad == {n \in Nat : \E s \in SUBSET S : Cardinality(s) = n /\ g[s] \notin V}
  <1>1. \A s \in SUBSET S : Cardinality(s) \in Nat
    BY FS_Subset, FS_CardinalityType
  <1>2. Bad = {}
    <2>1. SUFFICES ASSUME Bad # {} PROVE FALSE
      OBVIOUS
    <2>2. Bad \in SUBSET Nat
      OBVIOUS
    <2> HIDE DEF Bad
    <2>3. PICK n \in Bad : \A m \in Bad : n <= m
      BY <2>1, <2>2, LeastNumber
    <2> USE DEF Bad
    <2>4. PICK s \in SUBSET S : Cardinality(s) = n /\ g[s] \notin V
      OBVIOUS
    <2>5. g[s] = Sum(g, f, s)
      BY DEF Sums
    <2>6. s # {}
      BY <2>4, <2>5 DEF Sum
    <2> DEFINE t == s \ {One(s)}
    <2>7. t \in SUBSET S /\ Cardinality(t) = n - 1 /\ n - 1 \in Nat /\ One(s) \in S
      BY <2>4, <2>6, OneLess
    <2>8. g[s] = f[One(s)] + g[t]
      BY <2>5, <2>6 DEF Sum
    <2> HIDE DEF t
    <2>9. g[t] \notin V
      BY <2>4, <2>7, <2>8
    <2>10. n - 1 \in Bad
      BY <2>7, <2>9
    <2> HIDE DEF Bad
    <2>11. QED
      BY <2>2, <2>3, <2>7, <2>10
  <1>3. QED
    BY <1>1, <1>2

\* What is summed up over one element, or none.
LEMMA SumsFew ==
    ASSUME NEW S, NEW f, NEW g, Sums(g, f, S)
    PROVE  /\ S = {} => g[S] = 0
           /\ \A x : S = {x} /\ f[x] \in Int => g[S] = f[x]
  <1>1. \A s \in SUBSET S : g[s] = Sum(g, f, s)
    BY DEF Sums
  <1>2. g[{}] = 0
    BY <1>1 DEF Sum
  <1>3. ASSUME NEW x, S = {x}, f[x] \in Int PROVE g[S] = f[x]
    <2>1. One(S) = x /\ S \ {x} = {} /\ S # {}
      BY <1>3 DEF One
    <2>2. g[S] = f[One(S)] + g[S \ {One(S)}]
      BY <1>1, <2>1 DEF Sum
    <2>3. QED
      BY <1>2, <1>3, <2>1, <2>2
  <1>4. QED
    BY <1>2, <1>3

Ints(f, S) == \A x \in S : f[x] \in Int

\* Any element can be summed up last.
AnyLast(g, f, S) == \A s \in SUBSET S : g[s] \in Int /\ \A x \in s : g[s] = f[x] + g[s \ {x}]

LEMMA SumsAny ==
    ASSUME NEW S, IsFiniteSet(S), NEW f, Ints(f, S), NEW g, Sums(g, f, S)
    PROVE  AnyLast(g, f, S)
  <1> DEFINE Bad == {n \in Nat : \E s \in SUBSET S : /\ Cardinality(s) = n
                                                     /\ \E x \in s : g[s] # f[x] + g[s \ {x}]}
  <1>1. \A s \in SUBSET S : IsFiniteSet(s) /\ Cardinality(s) \in Nat
    BY FS_Subset, FS_CardinalityType
  <1>2. \A s \in SUBSET S : g[s] \in Int
    <2>1. PICK V : V = Int /\ 0 \in V
      OBVIOUS
    <2>2. \A x, y \in Int : x + y \in Int
      OBVIOUS
    <2>3. \A s \in SUBSET S : g[s] \in V
      BY <2>1, <2>2, SumsIn DEF Ints
    <2>4. QED
      BY <2>1, <2>3
  <1>3. Bad = {}
    <2>1. SUFFICES ASSUME Bad # {} PROVE FALSE
      OBVIOUS
    <2>2. Bad \in SUBSET Nat
      OBVIOUS
    <2> HIDE DEF Bad
    <2>3. PICK n \in Bad : \A m \in Bad : n <= m
      BY <2>1, <2>2, LeastNumber
    <2> USE DEF Bad
    <2>4. PICK s \in SUBSET S : Cardinality(s) = n /\ \E x \in s : g[s] # f[x] + g[s \ {x}]
      OBVIOUS
    <2>5. PICK x \in s : g[s] # f[x] + g[s \ {x}]
      BY <2>4
    <2> HIDE DEF Bad
    <2>6. n \in Nat /\ n > 0 /\ One(s) \in s /\ Cardinality(s \ {One(s)}) = n - 1
      <3>1. s # {} /\ n \in Nat
        BY <2>2, <2>5
      <3>2. /\ One(s) \in s /\ Cardinality(s) \in Nat /\ Cardinality(s) > 0
            /\ Cardinality(s \ {One(s)}) = Cardinality(s) - 1
        BY <3>1, OneLess
      <3>3. Cardinality(s) = n
        BY <2>4
      <3>4. QED
        BY <3>1, <3>2, <3>3
    <2>7. PICK y : y = One(s)
      OBVIOUS
    <2>8. y \in s /\ Cardinality(s \ {y}) = n - 1 /\ n - 1 \in Nat
      BY <2>6, <2>7
    <2>9. g[s] = f[y] + g[s \ {y}]
      BY <2>5, <2>8, <2>7 DEF Sums, Sum
    <2>10. x # y
      BY <2>5, <2>9
    <2>11. Cardinality(s \ {x}) = n - 1
      BY <1>1, <2>4, FS_RemoveElement
    <2>12. n - 1 \notin Bad
      <3>1. n \in Nat /\ ~(n <= n - 1)
        BY <2>2
      <3>2. QED
        BY <2>3, <3>1
    <2>13. g[s \ {y}] = f[x] + g[(s \ {y}) \ {x}]
      BY <2>8, <2>10, <2>12 DEF Bad
    <2>14. g[s \ {x}] = f[y] + g[(s \ {x}) \ {y}]
      BY <2>8, <2>10, <2>11, <2>12 DEF Bad
    <2> DEFINE t == (s \ {y}) \ {x}
    <2>15. t \in SUBSET S /\ (s \ {x}) \ {y} = t
      OBVIOUS
    <2> HIDE DEF t
    <2>16. g[t] \in Int /\ f[x] \in Int /\ f[y] \in Int
      BY <1>2, <2>8, <2>15 DEF Ints
    <2>17. g[s] = f[y] + (f[x] + g[t]) /\ g[s \ {x}] = f[y] + g[t]
      BY <2>9, <2>13, <2>14, <2>15 DEF t
    <2>18. QED
      BY <2>5, <2>16, <2>17
  <1>4. QED
    BY <1>1, <1>2, <1>3 DEF AnyLast

\* Sums over the numbers from 0, one number at a time.
InTurn(g, f, m) ==
    /\ g[0 .. 0] = f[0]
    /\ \A n \in 0 .. m : g[0 .. n] \in Int
    /\ \A n \in 1 .. m : g[0 .. n] = f[n] + g[0 .. n - 1]

LEMMA SumsInTurn ==
    ASSUME NEW m \in Nat, NEW f, Ints(f, 0 .. m), NEW g, Sums(g, f, 0 .. m)
    PROVE  InTurn(g, f, m)
  <1>1. IsFiniteSet(0 .. m)
    BY FS_Interval
  <1>2. \A s \in SUBSET (0 .. m) : g[s] \in Int /\ \A x \in s : g[s] = f[x] + g[s \ {x}]
    <2>1. AnyLast(g, f, 0 .. m)
      BY <1>1, SumsAny
    <2>2. QED
      BY <2>1 DEF AnyLast
  <1>3. g[0 .. 0] = f[0]
    <2>1. 0 .. 0 = {0} /\ {0} \in SUBSET (0 .. m) /\ {0} \ {0} = {}
      OBVIOUS
    <2>2. g[{0}] = f[0] + g[{}] /\ f[0] \in Int
      BY <1>2, <2>1 DEF Ints
    <2>3. g[{}] = 0
      BY DEF Sums, Sum
    <2>4. QED
      BY <2>1, <2>2, <2>3
  <1>4. ASSUME NEW n \in 0 .. m PROVE g[0 .. n] \in Int
    <2>1. 0 .. n \in SUBSET (0 .. m)
      OBVIOUS
    <2>2. QED
      BY <1>2, <2>1
  <1>5. ASSUME NEW n \in 1 .. m PROVE g[0 .. n] = f[n] + g[0 .. n - 1]
    <2>1. 0 .. n \in SUBSET (0 .. m) /\ n \in 0 .. n /\ (0 .. n) \ {n} = 0 .. n - 1
      OBVIOUS
    <2>2. QED
      BY <1>2, <2>1
  <1>6. QED
    BY <1>3, <1>4, <1>5 DEF InTurn

\* Shifted by one, the numbers lose their last.
Shifted(f, m) == [a \in 0 .. m |-> IF a = 0 THEN 0 ELSE f[a - 1]]

LEMMA SumsShifted ==
    ASSUME NEW m \in Nat, NEW f, Ints(f, 0 .. m), NEW g, Sums(g, f, 0 .. m),
           NEW g1, Sums(g1, Shifted(f, m), 0 .. m)
    PROVE  g1[0 .. m] = g[0 .. m] - f[m]
  <1>1. PICK f1 : f1 = Shifted(f, m)
    OBVIOUS
  <1>2. Ints(f1, 0 .. m)
    <2>1. \A a \in 0 .. m : a # 0 => a - 1 \in 0 .. m
      OBVIOUS
    <2>2. QED
      BY <1>1, <2>1 DEF Ints, Shifted
  <1>3. \A n \in 1 .. m : f1[n] = f[n - 1]
    BY <1>1 DEF Shifted
  <1>4. /\ g[0 .. 0] = f[0] /\ g1[0 .. 0] = 0
        /\ \A n \in 0 .. m : g[0 .. n] \in Int /\ g1[0 .. n] \in Int
        /\ \A n \in 1 .. m : g[0 .. n] = f[n] + g[0 .. n - 1] /\ g1[0 .. n] = f[n - 1] + g1[0 .. n - 1]
    <2>1. /\ g[0 .. 0] = f[0] /\ \A n \in 0 .. m : g[0 .. n] \in Int
          /\ \A n \in 1 .. m : g[0 .. n] = f[n] + g[0 .. n - 1]
      BY SumsInTurn DEF InTurn
    <2>2. /\ g1[0 .. 0] = f1[0] /\ \A n \in 0 .. m : g1[0 .. n] \in Int
          /\ \A n \in 1 .. m : g1[0 .. n] = f1[n] + g1[0 .. n - 1]
      BY <1>1, <1>2, SumsInTurn DEF InTurn
    <2>3. f1[0] = 0
      BY <1>1 DEF Shifted
    <2>4. QED
      BY <1>3, <2>1, <2>2, <2>3
  <1> DEFINE Bad == {n \in 0 .. m : g1[0 .. n] # g[0 .. n] - f[n]}
  <1>5. Bad = {}
    <2>1. SUFFICES ASSUME Bad # {} PROVE FALSE
      OBVIOUS
    <2>2. Bad \in SUBSET Nat
      OBVIOUS
    <2> HIDE DEF Bad
    <2>3. PICK n \in Bad : \A k \in Bad : n <= k
      BY <2>1, <2>2, LeastNumber
    <2>4. n \in 0 .. m /\ g1[0 .. n] # g[0 .. n] - f[n]
      BY DEF Bad
    <2>5. n # 0
      <3>1. f[0] \in Int /\ g1[0 .. 0] = g[0 .. 0] - f[0]
        BY <1>4 DEF Ints
      <3>2. QED
        BY <2>4, <3>1
    <2>6. n - 1 \in 0 .. m /\ n \in 1 .. m /\ ~(n <= n - 1)
      BY <2>4, <2>5
    <2>7. n - 1 \notin Bad
      BY <2>3, <2>6
    <2>8. g1[0 .. n - 1] = g[0 .. n - 1] - f[n - 1]
      BY <2>6, <2>7 DEF Bad
    <2>9. /\ g[0 .. n] = f[n] + g[0 .. n - 1] /\ g1[0 .. n] = f[n - 1] + g1[0 .. n - 1]
          /\ g[0 .. n - 1] \in Int /\ f[n] \in Int /\ f[n - 1] \in Int
      BY <1>4, <2>4, <2>6 DEF Ints
    <2>10. QED
      BY <2>4, <2>8, <2>9
  <1>6. QED
    BY <1>5

\* One more at 0 is one more of all.
OneMore(f1, f, m) == f1[0] = f[0] + 1 /\ \A a \in 1 .. m : f1[a] = f[a]

LEMMA SumsOneMore ==
    ASSUME NEW m \in Nat, NEW f, Ints(f, 0 .. m), NEW g, Sums(g, f, 0 .. m),
           NEW f1, OneMore(f1, f, m), NEW g1, Sums(g1, f1, 0 .. m)
    PROVE  g1[0 .. m] = g[0 .. m] + 1
  <1>1. Ints(f1, 0 .. m)
    <2>1. \A a \in 0 .. m : a = 0 \/ a \in 1 .. m
      OBVIOUS
    <2>2. QED
      BY <2>1 DEF Ints, OneMore
  <1>2. /\ g[0 .. 0] = f[0] /\ g1[0 .. 0] = f[0] + 1
        /\ \A n \in 0 .. m : g[0 .. n] \in Int /\ g1[0 .. n] \in Int
        /\ \A n \in 1 .. m : g[0 .. n] = f[n] + g[0 .. n - 1] /\ g1[0 .. n] = f[n] + g1[0 .. n - 1]
    <2>1. /\ g[0 .. 0] = f[0] /\ \A n \in 0 .. m : g[0 .. n] \in Int
          /\ \A n \in 1 .. m : g[0 .. n] = f[n] + g[0 .. n - 1]
      BY SumsInTurn DEF InTurn
    <2>2. /\ g1[0 .. 0] = f1[0] /\ \A n \in 0 .. m : g1[0 .. n] \in Int
          /\ \A n \in 1 .. m : g1[0 .. n] = f1[n] + g1[0 .. n - 1]
      BY <1>1, SumsInTurn DEF InTurn
    <2>3. QED
      BY <2>1, <2>2 DEF OneMore
  <1> DEFINE Bad == {n \in 0 .. m : g1[0 .. n] # g[0 .. n] + 1}
  <1>3. Bad = {}
    <2>1. SUFFICES ASSUME Bad # {} PROVE FALSE
      OBVIOUS
    <2>2. Bad \in SUBSET Nat
      OBVIOUS
    <2> HIDE DEF Bad
    <2>3. PICK n \in Bad : \A k \in Bad : n <= k
      BY <2>1, <2>2, LeastNumber
    <2>4. n \in 0 .. m /\ g1[0 .. n] # g[0 .. n] + 1
      BY DEF Bad
    <2>5. n # 0
      BY <1>2, <2>4
    <2>6. n - 1 \in 0 .. m /\ n \in 1 .. m /\ ~(n <= n - 1)
      BY <2>4, <2>5
    <2>7. n - 1 \notin Bad
      BY <2>3, <2>6
    <2>8. g1[0 .. n - 1] = g[0 .. n - 1] + 1
      BY <2>6, <2>7 DEF Bad
    <2>9. /\ g[0 .. n] = f[n] + g[0 .. n - 1] /\ g1[0 .. n] = f[n] + g1[0 .. n - 1]
          /\ g[0 .. n - 1] \in Int /\ f[n] \in Int
      BY <1>2, <2>4, <2>6 DEF Ints
    <2>10. QED
      BY <2>4, <2>8, <2>9
  <1>4. QED
    BY <1>3
=============================================================================
