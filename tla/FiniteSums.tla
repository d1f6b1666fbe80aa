----------------------------- MODULE FiniteSums -----------------------------
(* Sums over finite sets: what the proofs of Fulfilment and InventoryLedger  *)
(* need to know about MapThenSumSet, for sets of any size.                   *)
EXTENDS Integers, FiniteSetsExt, FiniteSetTheorems, WellFoundedInduction, TLAPS

\* Every set of numbers that is not empty has a least one.
LEMMA LeastNumber ==
    ASSUME NEW T, T \subseteq Nat, T # {}
    PROVE  \E x \in T : \A y \in T : x <= y
<1>1. PICK x \in T : \A y \in T : ~(<<y, x>> \in OpToRel(<, Nat))
  BY NatLessThanWellFounded, WFMin
<1>2. \A y \in T : ~(y < x)
  BY <1>1 DEF OpToRel
<1> QED
  BY <1>2

\* The element a sum takes first, and the partial sums: h[s] is the sum of f
\* over s, for the subsets s of S.
First(s) == CHOOSE x \in s : TRUE
Sums(f, S, h) ==
    h = [s \in SUBSET S |-> IF s = {} THEN 0 ELSE f[First(s)] + h[s \ {First(s)}]]
SumOf(f, S) == (CHOOSE h : Sums(f, S, h))[S]

LEMMA FirstIn == ASSUME NEW s, s # {} PROVE First(s) \in s
  BY DEF First

\* Partial sums exist.
LEMMA SumsExist ==
    ASSUME NEW S, IsFiniteSet(S), NEW f, \A x \in S : f[x] \in Int
    PROVE  \E h \in [SUBSET S -> Int] : Sums(f, S, h)
<1> DEFINE Rec(h, s) == IF s = {} THEN 0 ELSE f[First(s)] + h[s \ {First(s)}]
           Upto(n, h) == \A s \in SUBSET S : Cardinality(s) <= n => h[s] = Rec(h, s)
           Bad == {n \in Nat : ~\E h \in [SUBSET S -> Int] : Upto(n, h)}
<1>0. \A s \in SUBSET S : /\ IsFiniteSet(s) /\ Cardinality(s) \in Nat
                          /\ Cardinality(s) <= Cardinality(S)
                          /\ Cardinality(s) = 0 <=> s = {}
  BY FS_Subset, FS_EmptySet, FS_CardinalityType
<1>1. \A s \in SUBSET S : s # {} => /\ First(s) \in S /\ s \ {First(s)} \in SUBSET S
                                    /\ Cardinality(s \ {First(s)}) = Cardinality(s) - 1
  BY <1>0, FirstIn, FS_RemoveElement
<1>2. 0 \notin Bad
  <2> DEFINE h == [s \in SUBSET S |-> 0]
  <2>1. \A s \in SUBSET S : Cardinality(s) <= 0 => s = {}
    BY <1>0
  <2>2. h \in [SUBSET S -> Int] /\ Upto(0, h)
    BY <2>1
  <2> QED
    BY <2>2
<1>3. ASSUME NEW n \in Nat, n \notin Bad PROVE n + 1 \notin Bad
  <2>1. PICK h \in [SUBSET S -> Int] : Upto(n, h)
    BY <1>3
  <2> DEFINE g == [s \in SUBSET S |-> IF Cardinality(s) <= n THEN h[s] ELSE Rec(h, s)]
  <2>2. ASSUME NEW s \in SUBSET S PROVE Rec(h, s) \in Int
    <3>1. CASE s # {}
      <4>1. First(s) \in S /\ s \ {First(s)} \in SUBSET S
        BY <1>1, <3>1
      <4>2. f[First(s)] \in Int /\ h[s \ {First(s)}] \in Int
        BY <4>1
      <4> QED
        BY <3>1, <4>2
    <3> QED
      BY <3>1
  <2>3. g \in [SUBSET S -> Int]
    BY <2>2
  <2>4. ASSUME NEW s \in SUBSET S, Cardinality(s) <= n + 1 PROVE g[s] = Rec(g, s)
    <3>1. g[s] = Rec(h, s)
      BY <2>1
    <3>2. CASE s = {}
      BY <3>1, <3>2
    <3>3. CASE s # {}
      <4>1. /\ s \ {First(s)} \in SUBSET S
            /\ Cardinality(s \ {First(s)}) <= n
        BY <1>0, <1>1, <2>4, <3>3
      <4>2. g[s \ {First(s)}] = h[s \ {First(s)}]
        BY <4>1
      <4> HIDE DEF g
      <4> QED
        BY <3>1, <3>3, <4>2
    <3> QED
      BY <3>2, <3>3
  <2> HIDE DEF g
  <2>5. Upto(n + 1, g)
    BY <2>4
  <2> QED
    BY <2>3, <2>5
<1>4. Bad = {}
  <2>1. SUFFICES ASSUME Bad # {} PROVE FALSE
    OBVIOUS
  <2>2. PICK n \in Bad : \A m \in Bad : n <= m
    <3>1. Bad \subseteq Nat
      OBVIOUS
    <3> HIDE DEF Bad
    <3> QED
      BY <2>1, <3>1, LeastNumber
  <2>3. n \in Nat /\ n # 0
    BY <1>2, <2>2
  <2>4. n - 1 \in Nat /\ n - 1 \in Bad
    <3>1. n - 1 \in Nat /\ (n - 1) + 1 = n
      BY <2>3
    <3> HIDE DEF Bad
    <3> QED
      BY <1>3, <2>2, <3>1
  <2> HIDE DEF Bad
  <2> QED
    BY <2>2, <2>3, <2>4
<1>5. PICK h \in [SUBSET S -> Int] : Upto(Cardinality(S), h)
  BY <1>0, <1>4
<1>6. Sums(f, S, h)
  BY <1>0, <1>5 DEF Sums
<1> QED
  BY <1>6


\* Partial sums depend on the summands alone, not on the set they are part of.
LEMMA SumsAgree ==
    ASSUME NEW S, IsFiniteSet(S), NEW T \in SUBSET S, NEW f, NEW g,
           \A x \in T : f[x] = g[x], NEW h, Sums(f, S, h), NEW k, Sums(g, T, k)
    PROVE  \A s \in SUBSET T : h[s] = k[s]
<1> DEFINE Bad == {n \in Nat : \E s \in SUBSET T : Cardinality(s) = n /\ h[s] # k[s]}
<1>0. \A s \in SUBSET T : IsFiniteSet(s) /\ Cardinality(s) \in Nat
  BY FS_Subset, FS_CardinalityType
<1>1. SUFFICES ASSUME Bad # {} PROVE FALSE
  BY <1>0
<1>2. PICK n \in Bad : \A m \in Bad : n <= m
  <2>1. Bad \subseteq Nat
    OBVIOUS
  <2> HIDE DEF Bad
  <2> QED
    BY <1>1, <2>1, LeastNumber
<1>3. PICK s \in SUBSET T : Cardinality(s) = n /\ h[s] # k[s]
  BY <1>2
<1>4. /\ h[s] = IF s = {} THEN 0 ELSE f[First(s)] + h[s \ {First(s)}]
      /\ k[s] = IF s = {} THEN 0 ELSE g[First(s)] + k[s \ {First(s)}]
  <2>1. s \in SUBSET S
    OBVIOUS
  <2> QED
    BY <2>1 DEF Sums
<1>5. s # {} /\ First(s) \in s
  BY <1>3, <1>4, FirstIn
<1>6. Cardinality(s \ {First(s)}) = n - 1 /\ s \ {First(s)} \in SUBSET T
  BY <1>0, <1>3, <1>5, FS_RemoveElement
<1>7. n - 1 \notin Bad
  BY <1>2
<1>8. h[s \ {First(s)}] = k[s \ {First(s)}]
  BY <1>0, <1>6, <1>7
<1> QED
  BY <1>3, <1>4, <1>5, <1>8

\* SumOf is the partial sum over the whole set.
LEMMA SumOfIs ==
    ASSUME NEW S, IsFiniteSet(S), NEW f, \A x \in S : f[x] \in Int
    PROVE  \E h \in [SUBSET S -> Int] : Sums(f, S, h) /\ SumOf(f, S) = h[S]
<1>1. PICK h \in [SUBSET S -> Int] : Sums(f, S, h)
  BY SumsExist
<1>2. Sums(f, S, CHOOSE k : Sums(f, S, k))
  BY <1>1
<1>3. (CHOOSE k : Sums(f, S, k))[S] = h[S]
  <2>1. S \in SUBSET S
    OBVIOUS
  <2> QED
    BY <1>1, <1>2, <2>1, SumsAgree
<1> QED
  BY <1>1, <1>3 DEF SumOf

\* Any partial sums end in the same sum.
LEMMA SumsEnd ==
    ASSUME NEW S, IsFiniteSet(S), NEW f, \A x \in S : f[x] \in Int, NEW h, Sums(f, S, h)
    PROVE  h[S] = SumOf(f, S)
<1>1. PICK k : Sums(f, S, k) /\ SumOf(f, S) = k[S]
  BY SumOfIs
<1>2. S \in SUBSET S
  OBVIOUS
<1> QED
  BY <1>1, <1>2, SumsAgree

LEMMA SumType ==
    ASSUME NEW S, IsFiniteSet(S), NEW f, \A x \in S : f[x] \in Int
    PROVE  SumOf(f, S) \in Int
<1>1. PICK h \in [SUBSET S -> Int] : SumOf(f, S) = h[S]
  BY SumOfIs
<1>2. S \in SUBSET S
  OBVIOUS
<1> QED
  BY <1>1, <1>2

LEMMA SumEmpty == ASSUME NEW f PROVE SumOf(f, {}) = 0
<1>1. IsFiniteSet({})
  BY FS_EmptySet
<1>2. PICK h : Sums(f, {}, h) /\ SumOf(f, {}) = h[{}]
  BY <1>1, SumOfIs
<1> QED
  BY <1>2 DEF Sums

\* A sum depends on its summands alone.
LEMMA SumAgree ==
    ASSUME NEW S, IsFiniteSet(S), NEW f, NEW g, \A x \in S : f[x] \in Int /\ f[x] = g[x]
    PROVE  SumOf(f, S) = SumOf(g, S)
<1>1. PICK h : Sums(f, S, h) /\ SumOf(f, S) = h[S]
  BY SumOfIs
<1>2. PICK k : Sums(g, S, k) /\ SumOf(g, S) = k[S]
  BY SumOfIs
<1>3. S \in SUBSET S
  OBVIOUS
<1> QED
  BY <1>1, <1>2, <1>3, SumsAgree

\* The sum takes its first element and goes on with the rest.
LEMMA SumFirst ==
    ASSUME NEW S, IsFiniteSet(S), S # {}, NEW f, \A x \in S : f[x] \in Int
    PROVE  SumOf(f, S) = f[First(S)] + SumOf(f, S \ {First(S)})
<1> DEFINE T == S \ {First(S)}
<1>1. PICK h : Sums(f, S, h) /\ SumOf(f, S) = h[S]
  BY SumOfIs
<1>2. IsFiniteSet(T) /\ T \in SUBSET S /\ T \in SUBSET T
  BY FS_RemoveElement
<1>3. PICK k : Sums(f, T, k) /\ SumOf(f, T) = k[T]
  BY <1>2, SumOfIs
<1>4. h[T] = k[T]
  BY <1>1, <1>2, <1>3, SumsAgree
<1>5. S \in SUBSET S
  OBVIOUS
<1> HIDE DEF T
<1>6. h[S] = f[First(S)] + h[S \ {First(S)}]
  BY <1>1, <1>5 DEF Sums
<1> QED
  BY <1>1, <1>3, <1>4, <1>6 DEF T

\* The order of the summands does not matter: any element can be taken out.
LEMMA SumRemove ==
    ASSUME NEW S, IsFiniteSet(S), NEW f, \A x \in S : f[x] \in Int, NEW a \in S
    PROVE  SumOf(f, S) = f[a] + SumOf(f, S \ {a})
<1> DEFINE Good(T) == \A x \in T : SumOf(f, T) = f[x] + SumOf(f, T \ {x})
           Bad == {n \in Nat : \E T \in SUBSET S : Cardinality(T) = n /\ ~Good(T)}
<1>0. \A T \in SUBSET S : IsFiniteSet(T) /\ Cardinality(T) \in Nat
  BY FS_Subset, FS_CardinalityType
<1>1. SUFFICES ASSUME Bad # {} PROVE FALSE
  <2>1. S \in SUBSET S
    OBVIOUS
  <2> QED
    BY <1>0, <2>1
<1>2. PICK n \in Bad : \A m \in Bad : n <= m
  <2>1. Bad \subseteq Nat
    OBVIOUS
  <2> HIDE DEF Bad
  <2> QED
    BY <1>1, <2>1, LeastNumber
<1>3. PICK T \in SUBSET S : Cardinality(T) = n /\ ~Good(T)
  BY <1>2
<1>4. PICK x \in T : SumOf(f, T) # f[x] + SumOf(f, T \ {x})
  BY <1>3
<1> DEFINE c == First(T)
<1>5. c \in T /\ SumOf(f, T) = f[c] + SumOf(f, T \ {c})
  BY <1>0, <1>4, FirstIn, SumFirst
<1>6. x # c
  BY <1>4, <1>5
<1> HIDE DEF c
<1>7. ASSUME NEW y \in T PROVE Good(T \ {y}) /\ \A z \in S : SumOf(f, T \ {y, z}) \in Int
  <2>1. /\ T \ {y} \in SUBSET S
        /\ Cardinality(T \ {y}) = n - 1
    BY <1>0, <1>3, FS_RemoveElement
  <2>2. n - 1 \notin Bad
    BY <1>2
  <2>3. \A z \in S : T \ {y, z} \in SUBSET S
    OBVIOUS
  <2> QED
    BY <1>0, <2>1, <2>2, <2>3, SumType
<1>8. SumOf(f, T \ {c}) = f[x] + SumOf(f, T \ {c, x})
  <2>1. x \in T \ {c} /\ (T \ {c}) \ {x} = T \ {c, x}
    BY <1>6
  <2> QED
    BY <1>5, <1>7, <2>1
<1>9. SumOf(f, T \ {x}) = f[c] + SumOf(f, T \ {c, x})
  <2>1. c \in T \ {x} /\ (T \ {x}) \ {c} = T \ {c, x}
    BY <1>5, <1>6
  <2> QED
    BY <1>7, <2>1
<1>10. SumOf(f, T \ {c, x}) \in Int /\ f[c] \in Int /\ f[x] \in Int
  BY <1>5, <1>7
<1> QED
  BY <1>4, <1>5, <1>8, <1>9, <1>10

\* One summand changes.
LEMMA SumUpdate ==
    ASSUME NEW S, IsFiniteSet(S), NEW f, NEW g, NEW a \in S,
           \A x \in S : f[x] \in Int /\ g[x] \in Int,
           \A x \in S \ {a} : g[x] = f[x]
    PROVE  SumOf(g, S) = SumOf(f, S) - f[a] + g[a]
<1>1. SumOf(f, S) = f[a] + SumOf(f, S \ {a}) /\ SumOf(g, S) = g[a] + SumOf(g, S \ {a})
  BY SumRemove
<1>2. IsFiniteSet(S \ {a}) /\ \A x \in S \ {a} : f[x] \in Int /\ g[x] \in Int
  BY FS_RemoveElement
<1>3. SumOf(f, S \ {a}) = SumOf(g, S \ {a}) /\ SumOf(f, S \ {a}) \in Int
  BY <1>2, SumAgree, SumType
<1> QED
  BY <1>1, <1>3

\* Nothing negative is added up.
LEMMA SumNat ==
    ASSUME NEW S, IsFiniteSet(S), NEW f, \A x \in S : f[x] \in Nat
    PROVE  SumOf(f, S) \in Nat
<1> DEFINE Bad == {n \in Nat : \E T \in SUBSET S : Cardinality(T) = n /\ SumOf(f, T) \notin Nat}
<1>0. \A T \in SUBSET S : IsFiniteSet(T) /\ Cardinality(T) \in Nat
  BY FS_Subset, FS_CardinalityType
<1>1. SUFFICES ASSUME Bad # {} PROVE FALSE
  <2>1. S \in SUBSET S
    OBVIOUS
  <2> QED
    BY <1>0, <2>1
<1>2. PICK n \in Bad : \A m \in Bad : n <= m
  <2>1. Bad \subseteq Nat
    OBVIOUS
  <2> HIDE DEF Bad
  <2> QED
    BY <1>1, <2>1, LeastNumber
<1>3. PICK T \in SUBSET S : Cardinality(T) = n /\ SumOf(f, T) \notin Nat
  BY <1>2
<1>4. PICK a : a \in T
  BY <1>3, SumEmpty
<1>5. SumOf(f, T) = f[a] + SumOf(f, T \ {a})
  BY <1>0, <1>4, SumRemove
<1>6. T \ {a} \in SUBSET S /\ Cardinality(T \ {a}) = n - 1
  BY <1>0, <1>3, <1>4, FS_RemoveElement
<1>7. n - 1 \notin Bad
  BY <1>2
<1>8. SumOf(f, T \ {a}) \in Nat
  BY <1>0, <1>6, <1>7
<1> QED
  BY <1>3, <1>4, <1>5, <1>8

\* Nothing but zeros.
LEMMA SumZero ==
    ASSUME NEW S, IsFiniteSet(S), NEW f, \A x \in S : f[x] = 0
    PROVE  SumOf(f, S) = 0
<1> DEFINE h == [s \in SUBSET S |-> 0]
<1>1. \A s \in SUBSET S : s # {} => /\ First(s) \in S /\ s \ {First(s)} \in SUBSET S
  BY FirstIn
<1>2. \A s \in SUBSET S : h[s] = IF s = {} THEN 0 ELSE f[First(s)] + h[s \ {First(s)}]
  BY <1>1
<1>3. Sums(f, S, h)
  BY <1>2 DEF Sums
<1>4. h[S] = 0
  OBVIOUS
<1> QED
  BY <1>3, <1>4, SumsEnd

=============================================================================
