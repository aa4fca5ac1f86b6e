----------------------------- MODULE FiniteSums -----------------------------
(***************************************************************************)
(* Lemmas about sums over finite sets, which MapThenSumSet computes by     *)
(* recursion.  The induction they need goes by a smallest counterexample:  *)
(* of the subsets that lack a fact, one with the fewest elements has it    *)
(* once an element is taken out.                                           *)
(***************************************************************************)
EXTENDS Integers, FiniteSetTheorems, WellFoundedInduction, TLAPS

-----------------------------------------------------------------------------
(* Induction.                                                              *)

\* Of naturals there is a least.
LEMMA LeastNat ==
  ASSUME NEW T \in SUBSET Nat, T # {}
  PROVE  \E m \in T : \A k \in T : m <= k
<1> DEFINE R == OpToRel(<, Nat)
<1>1. IsWellFoundedOn(R, Nat)
  BY NatLessThanWellFounded
<1>2. \A k, m \in Nat : k < m => <<k, m>> \in R
  BY DEF OpToRel
<1> HIDE DEF R
<1>3. PICK m \in T : \A k \in T : <<k, m>> \notin R
  BY <1>1, WFMin
<1>4. m \in Nat /\ \A k \in T : k \in Nat /\ ~(k < m)
  BY <1>2, <1>3
<1>5. QED
  BY <1>4

\* The element a fold takes out of a set.
Some(s) == CHOOSE x \in s : TRUE

\* Induction on a finite set: P holds the subsets of which a fact is true.
LEMMA SubsetInduction ==
  ASSUME NEW S, IsFiniteSet(S), NEW P, {} \in P,
         \A A \in SUBSET S : A # {} /\ A \ {Some(A)} \in P => A \in P
  PROVE  \A A \in SUBSET S : A \in P
<1> DEFINE Bad == {A \in SUBSET S : A \notin P}
           Sizes == {Cardinality(A) : A \in Bad}
<1>1. SUFFICES ASSUME Bad # {} PROVE FALSE
  OBVIOUS
<1>2. \A A \in Bad : IsFiniteSet(A) /\ Cardinality(A) \in Nat
  BY FS_Subset, FS_CardinalityType
<1>3. PICK m \in Sizes : \A k \in Sizes : m <= k
  <2>1. Sizes \in SUBSET Nat /\ Sizes # {}
    BY <1>1, <1>2
  <2> HIDE DEF Sizes
  <2>2. QED
    BY <2>1, LeastNat
<1>4. PICK A \in Bad : Cardinality(A) = m
  BY <1>3
<1> DEFINE x == Some(A)
<1>5. A # {} /\ x \in A
  <2>1. A # {}
    BY <1>4
  <2>2. QED
    BY <2>1 DEF Some
<1>6. Cardinality(A \ {x}) = Cardinality(A) - 1
  BY <1>2, <1>4, <1>5, FS_RemoveElement
<1>7. A \ {x} \in Bad
  BY <1>4, <1>5
<1>8. Cardinality(A \ {x}) \in Sizes
  BY <1>7
<1>9. m <= Cardinality(A) - 1 /\ Cardinality(A) = m /\ m \in Nat
  BY <1>2, <1>3, <1>4, <1>6, <1>8
<1>10. QED
  BY <1>9

-----------------------------------------------------------------------------
(* A sum of naturals is the size of a set that has f[x] units of each x.   *)

\* f[x] pairs for every x of S.
Units(f, S) == {u \in S \X Nat : u[2] \in 1..f[u[1]]}

\* The units of one element, of one element more, and of none.
LEMMA UnitsOfOne ==
  ASSUME NEW f, NEW x, f[x] \in Nat
  PROVE  IsFiniteSet(Units(f, {x})) /\ Cardinality(Units(f, {x})) = f[x]
<1>1. f[x] \in Nat
  OBVIOUS
<1>2. IsFiniteSet(1..f[x]) /\ Cardinality(1..f[x]) = f[x]
  <2>1. f[x] \in Int /\ 1 \in Int /\ f[x] - 1 + 1 = f[x] /\ (1 > f[x] => f[x] = 0)
    BY <1>1
  <2>2. Cardinality(1..f[x]) = IF 1 > f[x] THEN 0 ELSE f[x] - 1 + 1
    BY <2>1, FS_Interval
  <2>3. QED
    BY <2>1, <2>2, FS_Interval
<1>3. IsFiniteSet({x}) /\ Cardinality({x}) = 1
  BY FS_Singleton
<1>4. Units(f, {x}) = {x} \X (1..f[x])
  BY <1>1 DEF Units
<1>5. /\ IsFiniteSet({x} \X (1..f[x]))
      /\ Cardinality({x} \X (1..f[x])) = Cardinality({x}) * Cardinality(1..f[x])
  BY <1>2, <1>3, FS_Product
<1>6. 1 * f[x] = f[x]
  BY <1>1
<1>7. QED
  BY <1>2, <1>3, <1>4, <1>5, <1>6

LEMMA UnitsOfMore ==
  ASSUME NEW S, NEW f, \A i \in S : f[i] \in Nat, NEW A \in SUBSET S, NEW x \in A,
         IsFiniteSet(Units(f, A \ {x}))
  PROVE  /\ IsFiniteSet(Units(f, A))
         /\ Cardinality(Units(f, A)) = f[x] + Cardinality(Units(f, A \ {x}))
<1> DEFINE U == Units(f, A \ {x})
           V == Units(f, {x})
<1>1. IsFiniteSet(V) /\ Cardinality(V) = f[x] /\ f[x] \in Nat
  BY UnitsOfOne
<1>2. Units(f, A) = U \cup V /\ U \cap V = {}
  BY DEF Units
<1>3. IsFiniteSet(U) /\ Cardinality(U) \in Nat
  BY FS_CardinalityType
<1> HIDE DEF U, V
<1>4. /\ IsFiniteSet(U \cup V)
      /\ Cardinality(U \cup V) = Cardinality(U) + Cardinality(V) - Cardinality(U \cap V)
  BY <1>1, <1>3, FS_Union
<1>5. Cardinality(U \cap V) = 0
  BY <1>2, FS_EmptySet
<1>6. QED
  BY <1>1, <1>2, <1>3, <1>4, <1>5 DEF U

LEMMA UnitsOfNone ==
  ASSUME NEW f
  PROVE  IsFiniteSet(Units(f, {})) /\ Cardinality(Units(f, {})) = 0
<1>1. Units(f, {}) = {}
  BY DEF Units
<1>2. QED
  BY <1>1, FS_EmptySet

\* Finitely many elements have finitely many units.
LEMMA UnitsFinite ==
  ASSUME NEW S, IsFiniteSet(S), NEW f, \A i \in S : f[i] \in Nat, NEW A \in SUBSET S
  PROVE  IsFiniteSet(Units(f, A)) /\ Cardinality(Units(f, A)) \in Nat
<1> DEFINE P == {B \in SUBSET S : IsFiniteSet(Units(f, B))}
<1>1. {} \in P
  BY UnitsOfNone
<1>2. \A B \in SUBSET S : B # {} /\ B \ {Some(B)} \in P => B \in P
  BY UnitsOfMore DEF Some
<1> HIDE DEF P
<1>3. A \in P
  BY <1>1, <1>2, SubsetInduction
<1>4. QED
  BY <1>3, FS_CardinalityType DEF P

\* What f adds up to over S.
Amount(f, S) == Cardinality(Units(f, S))

\* What a sum is: nothing for no element, and one element more adds its own.
LEMMA AmountLaws ==
  ASSUME NEW S, IsFiniteSet(S), NEW f, \A i \in S : f[i] \in Nat, NEW A \in SUBSET S
  PROVE  /\ Amount(f, A) \in Nat
         /\ A = {} => Amount(f, A) = 0
         /\ \A x \in A : Amount(f, A) = f[x] + Amount(f, A \ {x})
<1>1. A = {} => Amount(f, A) = 0
  BY UnitsOfNone DEF Amount
<1>2. ASSUME NEW x \in A PROVE Amount(f, A) = f[x] + Amount(f, A \ {x})
  <2>1. IsFiniteSet(Units(f, A \ {x}))
    BY UnitsFinite
  <2>2. QED
    BY <2>1, UnitsOfMore DEF Amount
<1>3. QED
  BY <1>1, <1>2, UnitsFinite DEF Amount

\* A part is no more than the whole, and one element no more than a part it is of.
LEMMA AmountGrows ==
  ASSUME NEW S, IsFiniteSet(S), NEW f, \A i \in S : f[i] \in Nat, NEW A \in SUBSET S
  PROVE  Amount(f, A) <= Amount(f, S) /\ \A x \in A : f[x] <= Amount(f, A)
<1>1. Units(f, A) \subseteq Units(f, S)
  BY DEF Units
<1>2. IsFiniteSet(Units(f, S))
  BY UnitsFinite
<1>3. Cardinality(Units(f, A)) <= Cardinality(Units(f, S))
  BY <1>1, <1>2, FS_Subset
<1>4. ASSUME NEW x \in A PROVE f[x] <= Amount(f, A)
  <2>1. Amount(f, A) = f[x] + Amount(f, A \ {x})
    BY AmountLaws
  <2>2. Amount(f, A \ {x}) \in Nat /\ f[x] \in Nat
    BY AmountLaws
  <2>3. QED
    BY <2>1, <2>2
<1>5. QED
  BY <1>3, <1>4 DEF Amount

-----------------------------------------------------------------------------
(* A sum by MapThenSumSet folds over every subset of its set.              *)

\* h sums f over every subset of S.
Sums(h, f, S) ==
  h = [s \in SUBSET S |-> IF s = {} THEN 0 ELSE f[Some(s)] + h[s \ {Some(s)}]]

\* There is a sum over every subset, and it is the amount.
LEMMA SumsExist ==
  ASSUME NEW S, IsFiniteSet(S), NEW f, \A i \in S : f[i] \in Nat
  PROVE  \E h : Sums(h, f, S)
<1> DEFINE h == [s \in SUBSET S |-> Amount(f, s)]
<1>1. ASSUME NEW s \in SUBSET S
      PROVE  h[s] = IF s = {} THEN 0 ELSE f[Some(s)] + h[s \ {Some(s)}]
  <2>1. CASE s = {}
    BY <2>1, AmountLaws
  <2>2. CASE s # {}
    <3>1. Some(s) \in s /\ s \ {Some(s)} \in SUBSET S
      BY <2>2 DEF Some
    <3>2. Amount(f, s) = f[Some(s)] + Amount(f, s \ {Some(s)})
      BY <3>1, AmountLaws
    <3>3. QED
      BY <2>2, <3>1, <3>2
  <2>3. QED
    BY <2>1, <2>2
<1>2. Sums(h, f, S)
  <2>1. h = [s \in SUBSET S |-> h[s]]
    OBVIOUS
  <2> HIDE DEF h
  <2>2. QED
    BY <1>1, <2>1 DEF Sums
<1>3. QED
  BY <1>2

LEMMA SumsCount ==
  ASSUME NEW S, IsFiniteSet(S), NEW f, \A i \in S : f[i] \in Nat, NEW h, Sums(h, f, S)
  PROVE  h[S] = Amount(f, S)
<1> DEFINE P == {B \in SUBSET S : h[B] = Amount(f, B)}
<1>1. \A B \in SUBSET S : h[B] = IF B = {} THEN 0 ELSE f[Some(B)] + h[B \ {Some(B)}]
  BY DEF Sums
<1>2. {} \in P
  BY <1>1, AmountLaws
<1>3. ASSUME NEW B \in SUBSET S, B # {}, B \ {Some(B)} \in P PROVE B \in P
  <2>1. Some(B) \in B /\ B \ {Some(B)} \in SUBSET S
    BY <1>3 DEF Some
  <2>2. Amount(f, B) = f[Some(B)] + Amount(f, B \ {Some(B)})
    BY <2>1, AmountLaws
  <2>3. QED
    BY <1>1, <1>3, <2>2
<1> HIDE DEF P
<1>4. \A A \in SUBSET S : A \in P
  BY <1>2, <1>3, SubsetInduction
<1>5. QED
  BY <1>4 DEF P

\* The sum that MapThenSumSet is defined to choose is the amount.
LEMMA SumIsAmount ==
  ASSUME NEW S, IsFiniteSet(S), NEW f, \A i \in S : f[i] \in Nat
  PROVE  Amount(f, S) = (CHOOSE h : Sums(h, f, S))[S]
BY SumsExist, SumsCount

-----------------------------------------------------------------------------
(* Sums of parts.                                                          *)

\* A sum over two parts, over what counts, and of the same amounts.
LEMMA AmountOfUnion ==
  ASSUME NEW S, IsFiniteSet(S), NEW f, \A i \in S : f[i] \in Nat,
         NEW A \in SUBSET S, NEW B \in SUBSET S, A \cap B = {}
  PROVE  Amount(f, A \cup B) = Amount(f, A) + Amount(f, B)
<1> DEFINE U == Units(f, A)
           V == Units(f, B)
<1>1. Units(f, A \cup B) = U \cup V /\ U \cap V = {}
  BY DEF Units
<1>2. /\ IsFiniteSet(U) /\ Cardinality(U) \in Nat
      /\ IsFiniteSet(V) /\ Cardinality(V) \in Nat
  BY UnitsFinite
<1> HIDE DEF U, V
<1>3. Cardinality(U \cup V) = Cardinality(U) + Cardinality(V) - Cardinality(U \cap V)
  BY <1>2, FS_Union
<1>4. Cardinality(U \cap V) = 0
  BY <1>1, FS_EmptySet
<1>5. Cardinality(U \cup V) = Cardinality(U) + Cardinality(V)
  BY <1>2, <1>3, <1>4
<1>6. QED
  BY <1>1, <1>5 DEF Amount, U, V

LEMMA AmountOfSome ==
  ASSUME NEW S, NEW f, \A i \in S : f[i] \in Nat
  PROVE  Amount(f, {i \in S : f[i] > 0}) = Amount(f, S)
<1>1. Units(f, {i \in S : f[i] > 0}) = Units(f, S)
  <2>1. \A u \in S \X Nat : u[2] \in 1..f[u[1]] => f[u[1]] > 0
    OBVIOUS
  <2>2. QED
    BY <2>1 DEF Units
<1>2. QED
  BY <1>1 DEF Amount

LEMMA AmountOfSame ==
  ASSUME NEW S, NEW f, NEW g, \A i \in S : f[i] = g[i]
  PROVE  Amount(f, S) = Amount(g, S)
<1>1. Units(f, S) = Units(g, S)
  BY DEF Units
<1>2. QED
  BY <1>1 DEF Amount

\* The same amounts under other names add up to the same.
LEMMA AmountMoves ==
  ASSUME NEW T, IsFiniteSet(T), NEW g, \A t \in T : g[t] \in Nat,
         NEW S, NEW f, NEW b \in Bijection(T, S), \A t \in T : f[b[t]] = g[t]
  PROVE  Amount(f, S) = Amount(g, T)
<1> DEFINE m == [u \in Units(g, T) |-> <<b[u[1]], u[2]>>]
<1>1. /\ b \in [T -> S] /\ \A s \in S : \E t \in T : b[t] = s
      /\ \A t, u \in T : b[t] = b[u] => t = u
  BY DEF Bijection, Injection, Surjection, IsInjective
<1>2. m \in [Units(g, T) -> Units(f, S)]
  BY <1>1 DEF Units
<1>3. ASSUME NEW u \in Units(g, T), NEW v \in Units(g, T), m[u] = m[v] PROVE u = v
  <2>1. b[u[1]] = b[v[1]] /\ u[2] = v[2] /\ u \in T \X Nat /\ v \in T \X Nat
    BY <1>3 DEF Units
  <2>2. u[1] = v[1]
    BY <1>1, <2>1
  <2>3. QED
    BY <2>1, <2>2
<1>4. ASSUME NEW w \in Units(f, S) PROVE \E u \in Units(g, T) : m[u] = w
  <2>1. w \in S \X Nat /\ w[2] \in 1..f[w[1]]
    BY DEF Units
  <2>2. PICK t \in T : b[t] = w[1]
    BY <1>1, <2>1
  <2>3. <<t, w[2]>> \in Units(g, T)
    BY <2>1, <2>2 DEF Units
  <2>4. m[<<t, w[2]>>] = w
    BY <2>1, <2>2, <2>3
  <2>5. QED
    BY <2>3, <2>4
<1> HIDE DEF m
<1>5. m \in Bijection(Units(g, T), Units(f, S))
  BY <1>2, <1>3, <1>4 DEF Bijection, Injection, Surjection, IsInjective
<1>6. IsFiniteSet(Units(g, T))
  BY UnitsFinite
<1>7. ExistsBijection(Units(g, T), Units(f, S))
  BY <1>5 DEF ExistsBijection
<1>8. QED
  BY <1>6, <1>7, FS_Bijection DEF Amount

\* The elements whose class is in B.
OfClass(S, c, B) == {i \in S : c[i] \in B}

\* Each element is of one of the classes of K, and g sums f over each of them.
ClassSums(g, K, c, f, S) ==
  /\ \A i \in S : c[i] \in K
  /\ \A k \in K : g[k] = Amount(f, OfClass(S, c, {k}))

\* The sums of the classes add up to the whole.
LEMMA AmountOfClasses ==
  ASSUME NEW S, IsFiniteSet(S), NEW f, \A i \in S : f[i] \in Nat,
         NEW K, IsFiniteSet(K), NEW c, NEW g, ClassSums(g, K, c, f, S)
  PROVE  (\A k \in K : g[k] \in Nat) /\ Amount(g, K) = Amount(f, S)
<1> DEFINE P == {B \in SUBSET K : Amount(g, B) = Amount(f, OfClass(S, c, B))}
<1>1. \A B : OfClass(S, c, B) \in SUBSET S
  BY DEF OfClass
<1>2. ASSUME NEW k \in K PROVE g[k] \in Nat
  <2>1. OfClass(S, c, {k}) \in SUBSET S
    BY <1>1
  <2>2. QED
    BY <2>1, AmountLaws DEF ClassSums
<1>3. {} \in P
  <2>1. OfClass(S, c, {}) = {}
    BY DEF OfClass
  <2>2. Amount(g, {}) = 0 /\ Amount(f, {}) = 0
    BY UnitsOfNone DEF Amount
  <2>3. QED
    BY <2>1, <2>2
<1>4. ASSUME NEW B \in SUBSET K, B # {}, B \ {Some(B)} \in P PROVE B \in P
  <2> DEFINE x == Some(B)
             C == B \ {x}
  <2>1. x \in B /\ x \in K
    BY <1>4 DEF Some
  <2>2. Amount(g, B) = g[x] + Amount(g, C)
    BY <1>2, <2>1, AmountLaws
  <2>3. /\ OfClass(S, c, B) = OfClass(S, c, C) \cup OfClass(S, c, {x})
        /\ OfClass(S, c, C) \cap OfClass(S, c, {x}) = {}
    BY <2>1 DEF OfClass
  <2>4. Amount(g, C) = Amount(f, OfClass(S, c, C))
    BY <1>4
  <2> HIDE DEF x, C
  <2>5. Amount(f, OfClass(S, c, B)) = Amount(f, OfClass(S, c, C)) + Amount(f, OfClass(S, c, {x}))
    <3> DEFINE U == OfClass(S, c, C)
               V == OfClass(S, c, {x})
    <3>1. U \in SUBSET S /\ V \in SUBSET S /\ U \cap V = {} /\ OfClass(S, c, B) = U \cup V
      BY <1>1, <2>3
    <3> HIDE DEF U, V
    <3>2. Amount(f, U \cup V) = Amount(f, U) + Amount(f, V)
      BY <3>1, AmountOfUnion
    <3>3. QED
      BY <3>1, <3>2 DEF U, V
  <2>6. g[x] = Amount(f, OfClass(S, c, {x})) /\ g[x] \in Nat
    BY <1>2, <2>1 DEF ClassSums
  <2>7. Amount(f, OfClass(S, c, C)) \in Nat
    BY <1>1, AmountLaws
  <2>8. Amount(g, B) = Amount(f, OfClass(S, c, B))
    BY <2>2, <2>4, <2>5, <2>6, <2>7
  <2>9. QED
    BY <2>8
<1> HIDE DEF P
<1>5. K \in P
  BY <1>3, <1>4, SubsetInduction
<1>6. OfClass(S, c, K) = S
  BY DEF OfClass, ClassSums
<1>7. QED
  BY <1>2, <1>5, <1>6 DEF P

-----------------------------------------------------------------------------
(* Shares.                                                                 *)

\* A rounded quotient.
LEMMA Quotient ==
  ASSUME NEW a \in Nat, NEW b \in Nat, b > 0
  PROVE  a \div b \in Nat /\ b * (a \div b) <= a /\ a < b * (a \div b) + b
OBVIOUS

\* Parts of at most c times theirs add up to at most c times the whole.
LEMMA AmountScales ==
  ASSUME NEW S, IsFiniteSet(S), NEW f, \A i \in S : f[i] \in Nat,
         NEW g, \A i \in S : g[i] \in Nat, NEW c \in Nat, \A i \in S : g[i] <= c * f[i]
  PROVE  Amount(g, S) <= c * Amount(f, S)
<1> DEFINE P == {B \in SUBSET S : Amount(g, B) <= c * Amount(f, B)}
<1>1. {} \in P
  <2>1. Amount(g, {}) = 0 /\ Amount(f, {}) = 0
    BY AmountLaws
  <2>2. QED
    BY <2>1
<1>2. ASSUME NEW B \in SUBSET S, B # {}, B \ {Some(B)} \in P PROVE B \in P
  <2> DEFINE x == Some(B)
             C == B \ {Some(B)}
  <2>1. x \in B /\ C \in SUBSET S
    BY <1>2 DEF Some
  <2>2. Amount(f, B) = f[x] + Amount(f, C) /\ Amount(f, C) \in Nat /\ f[x] \in Nat
    BY <2>1, AmountLaws
  <2>2a. Amount(g, B) = g[x] + Amount(g, C) /\ Amount(g, C) \in Nat /\ g[x] \in Nat
    BY <2>1, AmountLaws
  <2>3. Amount(g, C) <= c * Amount(f, C) /\ g[x] <= c * f[x]
    BY <1>2, <2>1
  <2>4. c * (f[x] + Amount(f, C)) = c * f[x] + c * Amount(f, C)
    BY <2>2
  <2>5. QED
    BY <2>2, <2>2a, <2>3, <2>4
<1> HIDE DEF P
<1>3. \A B \in SUBSET S : B \in P
  BY <1>1, <1>2, SubsetInduction
<1>4. QED
  BY <1>3 DEF P

\* Percentages of the whole, each rounded down, reach a hundred but for one for each part.
LEMMA SharesAddUp ==
  ASSUME NEW S, IsFiniteSet(S), NEW f, \A i \in S : f[i] \in Nat, Amount(f, S) > 0,
         NEW p, \A i \in S : p[i] = (f[i] * 100) \div Amount(f, S)
  PROVE  Amount(p, S) \in Nat /\ Amount(p, S) \in 100 - Cardinality(S)..100
<1> DEFINE T == Amount(f, S)
           Low(B) == T * Amount(p, B) <= 100 * Amount(f, B)
           High(B) == 100 * Amount(f, B) <= T * Amount(p, B) + T * Cardinality(B)
           P == {B \in SUBSET S : Low(B) /\ High(B)}
<1>1. T \in Nat /\ T > 0
  BY AmountLaws
<1> HIDE DEF T
<1>2. ASSUME NEW x \in S
      PROVE  p[x] \in Nat /\ T * p[x] <= 100 * f[x] /\ 100 * f[x] <= T * p[x] + T
  <2>1. f[x] \in Nat /\ f[x] * 100 \in Nat /\ p[x] = (f[x] * 100) \div T
    BY DEF T
  <2>2. p[x] \in Nat /\ T * p[x] <= f[x] * 100 /\ f[x] * 100 < T * p[x] + T
    BY <1>1, <2>1, Quotient
  <2>3. T * p[x] \in Nat
    BY <1>1, <2>2
  <2>4. QED
    BY <1>1, <2>1, <2>2, <2>3
<1>3. {} \in P
  <2>1. Amount(f, {}) = 0 /\ Amount(p, {}) = 0 /\ Cardinality({}) = 0
    BY <1>2, AmountLaws, FS_EmptySet
  <2>2. T * 0 = 0
    BY <1>1
  <2>3. QED
    BY <2>1, <2>2
<1>4. ASSUME NEW B \in SUBSET S, B # {}, B \ {Some(B)} \in P PROVE B \in P
  <2> DEFINE x == Some(B)
             C == B \ {Some(B)}
  <2>1. x \in B /\ C \in SUBSET S
    BY <1>4 DEF Some
  <2>2. Amount(f, B) = f[x] + Amount(f, C) /\ Amount(f, C) \in Nat /\ f[x] \in Nat
    BY <2>1, AmountLaws
  <2>3. Amount(p, B) = p[x] + Amount(p, C) /\ Amount(p, C) \in Nat /\ p[x] \in Nat
    BY <1>2, <2>1, AmountLaws
  <2>4. IsFiniteSet(B)
    BY FS_Subset
  <2>5. Cardinality(C) = Cardinality(B) - 1 /\ Cardinality(B) \in Nat /\ Cardinality(C) \in Nat
    BY <2>1, <2>4, FS_RemoveElement, FS_Subset, FS_CardinalityType
  <2>6. /\ T * Amount(p, C) <= 100 * Amount(f, C)
        /\ 100 * Amount(f, C) <= T * Amount(p, C) + T * Cardinality(C)
    BY <1>4
  <2>7. T * p[x] <= 100 * f[x] /\ 100 * f[x] <= T * p[x] + T
    BY <1>2, <2>1
  <2> DEFINE a == Amount(p, C)
             c == Cardinality(C)
  <2>8. T * (p[x] + a) = T * p[x] + T * a /\ T * (c + 1) = T * c + T
    BY <1>1, <2>3, <2>5
  <2>9. T * a \in Nat /\ T * c \in Nat /\ T * p[x] \in Nat
    BY <1>1, <2>3, <2>5
  <2> HIDE DEF x, C
  <2>10. Amount(p, B) = p[x] + a /\ Cardinality(B) = c + 1
    BY <2>3, <2>5
  <2>11. Low(B)
    <3>1. T * Amount(p, B) = T * p[x] + T * a
      BY <2>8, <2>10
    <3>2. QED
      BY <1>1, <2>2, <2>6, <2>7, <2>9, <3>1
  <2>12. High(B)
    <3>1. T * Amount(p, B) = T * p[x] + T * a /\ T * Cardinality(B) = T * c + T
      BY <2>8, <2>10
    <3>2. QED
      BY <1>1, <2>2, <2>6, <2>7, <2>9, <3>1
  <2>13. QED
    BY <2>11, <2>12
<1> HIDE DEF P
<1>5. \A B \in SUBSET S : B \in P
  BY <1>3, <1>4, SubsetInduction
<1>6. Low(S) /\ High(S)
  BY <1>5 DEF P
<1>7. Amount(p, S) \in Nat /\ Cardinality(S) \in Nat
  BY <1>2, AmountLaws, FS_CardinalityType
<1>8. Amount(p, S) <= 100
  <2>1. T * Amount(p, S) <= T * 100
    BY <1>1, <1>6, <1>7 DEF T
  <2>2. QED
    BY <1>1, <1>7, <2>1
<1>9. 100 - Cardinality(S) <= Amount(p, S)
  <2>1. T * 100 <= T * (Amount(p, S) + Cardinality(S))
    BY <1>1, <1>6, <1>7 DEF T
  <2>2. QED
    BY <1>1, <1>7, <2>1
<1>10. QED
  BY <1>7, <1>8, <1>9

\* Of finitely many one has the most.
LEMMA MostExists ==
  ASSUME NEW S, IsFiniteSet(S), S # {}, NEW f, \A i \in S : f[i] \in Nat
  PROVE  \E i \in S : \A j \in S : f[j] <= f[i]
<1> DEFINE P == {B \in SUBSET S : B # {} => \E i \in B : \A j \in B : f[j] <= f[i]}
<1>1. {} \in P
  OBVIOUS
<1>2. ASSUME NEW B \in SUBSET S, B # {}, B \ {Some(B)} \in P PROVE B \in P
  <2> DEFINE x == Some(B)
             C == B \ {Some(B)}
  <2>1. x \in B /\ B = C \cup {x} /\ \A j \in B : f[j] \in Nat
    BY <1>2 DEF Some
  <2>2. CASE C = {}
    BY <2>1, <2>2
  <2>3. ASSUME NEW i \in C, \A j \in C : f[j] <= f[i] PROVE B \in P
    <3>1. CASE f[x] <= f[i]
      BY <2>1, <2>3, <3>1
    <3>2. CASE ~(f[x] <= f[i])
      BY <2>1, <2>3, <3>2
    <3>3. QED
      BY <3>1, <3>2
  <2>4. QED
    BY <1>2, <2>2, <2>3
<1> HIDE DEF P
<1>3. \A B \in SUBSET S : B \in P
  BY <1>1, <1>2, SubsetInduction
<1>4. QED
  BY <1>3 DEF P
=============================================================================
