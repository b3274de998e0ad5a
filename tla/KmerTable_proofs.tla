-------------------------- MODULE KmerTable_proofs ---------------------------
(***************************************************************************)
(* Theorems about the k-mer counter, for every capacity, group size, home  *)
(* function, set of k-mers and genome that fits the table.                 *)
(***************************************************************************)
EXTENDS KmerTable, FiniteSets, FiniteSetTheorems, WellFoundedInduction, TLAPS

-----------------------------------------------------------------------------
(* Facts about numbers and finite sets of them that the proofs cite.       *)

\* Every non-empty set of naturals has a least element.
LEMMA LeastNatural ==
  ASSUME NEW S \in SUBSET Nat, S # {}
  PROVE  \E m \in S : \A n \in S : m <= n
<1>1. \E m \in S : \A n \in S : ~(<<n, m>> \in OpToRel(<, Nat))
  BY NatLessThanWellFounded, WFMin
<1>2. PICK m \in S : \A n \in S : ~(<<n, m>> \in OpToRel(<, Nat))
  BY <1>1
<1>3. \A n \in S : ~(n < m)
  BY <1>2 DEF OpToRel
<1> QED BY <1>3

\* There are n numbers below n.
LEMMA NumbersBelow ==
  ASSUME NEW n \in Nat
  PROVE  IsFiniteSet(0 .. n - 1) /\ Cardinality(0 .. n - 1) = n
<1>1. CASE n = 0
  <2>1. 0 .. n - 1 = {}
    BY <1>1
  <2> QED BY <1>1, <2>1, FS_EmptySet
<1>2. CASE n > 0
  <2>1. 0 \in Int /\ n - 1 \in Int /\ ~(0 > n - 1) /\ (n - 1) - 0 + 1 = n
    BY <1>2
  <2> QED BY <2>1, FS_Interval
<1> QED BY <1>1, <1>2

\* A number with a larger quotient is larger, whatever the remainders.
LEMMA QuotientOrders ==
  ASSUME NEW n \in Nat \ {0}, NEW p \in Nat, NEW q \in Nat,
         NEW a \in 0 .. n - 1, NEW b \in 0 .. n - 1, p < q
  PROVE  p * n + a < q * n + b
<1>1. PICK e \in Nat : q = p + 1 + e
  <2>1. q - p - 1 \in Nat /\ q = p + 1 + (q - p - 1)
    OBVIOUS
  <2> QED BY <2>1
<1>2. q * n = p * n + n + e * n
  BY <1>1
<1>3. e * n >= 0 /\ p * n \in Nat /\ q * n \in Nat
  OBVIOUS
<1> QED BY <1>2, <1>3

\* Every natural has a quotient and a remainder.
LEMMA DivisionExists ==
  ASSUME NEW n \in Nat \ {0}, NEW x \in Nat
  PROVE  /\ x \div n \in Nat
         /\ x % n \in 0 .. n - 1
         /\ x = (x \div n) * n + (x % n)
OBVIOUS

\* Division is monotone.
LEMMA DivisionMonotone ==
  ASSUME NEW n \in Nat \ {0}, NEW x \in Nat, NEW y \in Nat, x <= y
  PROVE  x \div n <= y \div n
<1> DEFINE p == y \div n
           q == x \div n
           a == y % n
           b == x % n
<1>1. /\ p \in Nat /\ q \in Nat
      /\ a \in 0 .. n - 1 /\ b \in 0 .. n - 1
      /\ y = p * n + a /\ x = q * n + b
  BY DivisionExists
<1> HIDE DEF p, q, a, b
<1>2. ~(p < q)
  BY <1>1, QuotientOrders
<1>3. q <= p
  BY <1>1, <1>2
<1> QED BY <1>3 DEF p, q

-----------------------------------------------------------------------------
(* Sums over a finite set, as SumFunction computes them: element by element, *)
(* each time the one CHOOSE names.                                           *)

\* The element a sum over s takes next.
Chosen(s) == CHOOSE x \in s : TRUE

\* Induction over the subsets of a finite set, one such element at a time: a smallest
\* subset outside P cannot be.
LEMMA SubsetInduction ==
  ASSUME NEW D, IsFiniteSet(D), NEW P, {} \in P,
         \A s \in SUBSET D : s # {} /\ s \ {Chosen(s)} \in P => s \in P
  PROVE  \A s \in SUBSET D : s \in P
<1> SUFFICES ASSUME NEW bad \in SUBSET D, bad \notin P
             PROVE  FALSE
  OBVIOUS
<1> DEFINE Sizes == {Cardinality(s) : s \in (SUBSET D) \ P}
<1>1. \A s \in SUBSET D : IsFiniteSet(s) /\ Cardinality(s) \in Nat
  BY FS_Subset, FS_CardinalityType
<1>2. PICK m \in Sizes : \A n \in Sizes : m <= n
  <2>1. Sizes \in SUBSET Nat /\ Sizes # {}
    BY <1>1
  <2> QED BY <2>1, LeastNatural
<1>3. PICK s \in (SUBSET D) \ P : \A u \in (SUBSET D) \ P : Cardinality(s) <= Cardinality(u)
  BY <1>2
<1>4. s # {} /\ Chosen(s) \in s
  BY <1>3 DEF Chosen
<1>5. Cardinality(s \ {Chosen(s)}) = Cardinality(s) - 1
  BY <1>1, <1>4, FS_RemoveElement
<1>6. s \ {Chosen(s)} \in P
  <2>1. s \ {Chosen(s)} \in SUBSET D
    OBVIOUS
  <2>2. Cardinality(s) \in Nat
    BY <1>1
  <2> QED BY <1>3, <1>5, <2>1, <2>2
<1> QED BY <1>3, <1>4, <1>6

\* h gives the sum of f over each subset of D.
IsSumOf(h, f, D) ==
  h = [s \in SUBSET D |-> IF s = {} THEN 0 ELSE f[Chosen(s)] + h[s \ {Chosen(s)}]]

\* There is such a function: one for the subsets of up to n elements gives one for
\* those of n + 1.
LEMMA SumsExist ==
  ASSUME NEW D, IsFiniteSet(D), NEW f \in [D -> Nat]
  PROVE  \E h : IsSumOf(h, f, D)
<1> DEFINE Upto(n) == {s \in SUBSET D : Cardinality(s) <= n}
           Good(n, h) == h = [s \in Upto(n) |-> IF s = {} THEN 0
                                ELSE f[Chosen(s)] + h[s \ {Chosen(s)}]]
           Bad == {n \in Nat : ~ \E h : Good(n, h)}
<1>1. \A s \in SUBSET D : IsFiniteSet(s) /\ Cardinality(s) \in Nat
  BY FS_Subset, FS_CardinalityType
<1>2. Bad = {}
  <2> SUFFICES ASSUME Bad # {} PROVE FALSE
    OBVIOUS
  <2>1. PICK m \in Bad : \A n \in Bad : m <= n
    <3>1. Bad \in SUBSET Nat
      OBVIOUS
    <3> HIDE DEF Bad
    <3> QED BY <3>1, LeastNatural
  <2>2. m # 0
    <3>1. \A s \in Upto(0) : s = {}
      BY <1>1, FS_EmptySet
    <3>2. Good(0, [s \in Upto(0) |-> 0])
      BY <3>1
    <3> QED BY <3>2
  <2>3. m - 1 \in Nat /\ m - 1 \notin Bad
    <3>1. m \in Nat
      OBVIOUS
    <3> HIDE DEF Bad
    <3> QED BY <2>1, <2>2, <3>1
  <2>4. PICK h : Good(m - 1, h)
    BY <2>3
  <2> DEFINE h2 == [s \in Upto(m) |-> IF s = {} THEN 0
                                ELSE f[Chosen(s)] + h[s \ {Chosen(s)}]]
  <2>5. ASSUME NEW s \in Upto(m), s # {}
        PROVE  h2[s \ {Chosen(s)}] = h[s \ {Chosen(s)}]
    <3> DEFINE u == s \ {Chosen(s)}
    <3>1. Chosen(s) \in s
      BY <2>5 DEF Chosen
    <3>2. Cardinality(u) = Cardinality(s) - 1
      BY <1>1, <3>1, FS_RemoveElement
    <3>3. u \in Upto(m - 1) /\ u \in Upto(m)
      <4>1. u \in SUBSET D /\ Cardinality(u) \in Nat /\ Cardinality(s) \in Nat
        BY <1>1
      <4> HIDE DEF u
      <4> QED BY <3>2, <4>1
    <3> HIDE DEF u
    <3>4. h2[u] = IF u = {} THEN 0 ELSE f[Chosen(u)] + h[u \ {Chosen(u)}]
      BY <3>3
    <3>5. h[u] = IF u = {} THEN 0 ELSE f[Chosen(u)] + h[u \ {Chosen(u)}]
      <4> HIDE DEF Upto
      <4> QED BY <2>4, <3>3
    <3> QED BY <3>4, <3>5 DEF u
  <2>6. Good(m, h2)
    <3>1. h2 = [s \in Upto(m) |-> IF s = {} THEN 0
                                ELSE f[Chosen(s)] + h2[s \ {Chosen(s)}]]
      BY ONLY <2>5
    <3> QED BY <3>1
  <2> QED BY <2>1, <2>6
<1>3. PICK h : Good(Cardinality(D), h)
  BY <1>1, <1>2
<1>4. Upto(Cardinality(D)) = SUBSET D
  BY <1>1, FS_Subset
<1> QED BY <1>3, <1>4 DEF IsSumOf

\* SumFunction is the value of such a function on the whole domain.
LEMMA PartialSums ==
  ASSUME NEW D, IsFiniteSet(D), NEW f \in [D -> Nat]
  PROVE  \E h \in [SUBSET D -> Nat] :
           /\ h[{}] = 0
           /\ \A s \in SUBSET D :
                s # {} => /\ Chosen(s) \in s
                          /\ h[s] = f[Chosen(s)] + h[s \ {Chosen(s)}]
           /\ SumFunction(f) = h[D]
<1>1. PICK h : IsSumOf(h, f, D) /\ SumFunction(f) = h[D]
  <2>1. DOMAIN f = D
    OBVIOUS
  <2>2. PICK h0 : IsSumOf(h0, f, DOMAIN f)
    BY <2>1, SumsExist
  <2>3. \E h : IsSumOf(h, f, DOMAIN f) /\ SumFunction(f) = h[DOMAIN f]
    BY <2>2 DEF SumFunction, SumFunctionOnSet, FoldFunctionOnSet, MapThenFoldSet,
                IsSumOf, Chosen
  <2> QED BY <2>1, <2>3
<1>2. \A s \in SUBSET D : s # {} => Chosen(s) \in s
  BY DEF Chosen
<1>3. /\ DOMAIN h = SUBSET D
      /\ h[{}] = 0
      /\ \A s \in SUBSET D : s # {} => h[s] = f[Chosen(s)] + h[s \ {Chosen(s)}]
  BY <1>1 DEF IsSumOf
<1>4. \A s \in SUBSET D : h[s] \in Nat
  <2> DEFINE P == {s \in SUBSET D : h[s] \in Nat}
  <2>1. {} \in P
    BY <1>3
  <2>2. \A s \in SUBSET D : s # {} /\ s \ {Chosen(s)} \in P => s \in P
    BY <1>2, <1>3
  <2>3. \A s \in SUBSET D : s \in P
    <3> HIDE DEF P
    <3> QED BY <2>1, <2>2, SubsetInduction
  <2> QED BY <2>3
<1>5. h = [s \in SUBSET D |-> h[s]]
  BY <1>1 DEF IsSumOf
<1> QED BY <1>1, <1>2, <1>3, <1>4, <1>5

\* A sum of naturals is a natural, and no term is greater.
LEMMA SumBoundsTerms ==
  ASSUME NEW D, IsFiniteSet(D), NEW f \in [D -> Nat]
  PROVE  /\ SumFunction(f) \in Nat
         /\ \A x \in D : f[x] <= SumFunction(f)
<1>1. PICK h \in [SUBSET D -> Nat] :
        /\ h[{}] = 0
        /\ \A s \in SUBSET D :
             s # {} => /\ Chosen(s) \in s
                       /\ h[s] = f[Chosen(s)] + h[s \ {Chosen(s)}]
        /\ SumFunction(f) = h[D]
  BY PartialSums
<1> DEFINE P == {s \in SUBSET D : \A x \in s : f[x] <= h[s]}
<1>2. {} \in P
  OBVIOUS
<1>3. ASSUME NEW s \in SUBSET D, s # {}, s \ {Chosen(s)} \in P
      PROVE  s \in P
  <2>1. /\ Chosen(s) \in s
        /\ h[s] = f[Chosen(s)] + h[s \ {Chosen(s)}]
    BY <1>1, <1>3
  <2>2. f[Chosen(s)] \in Nat /\ h[s \ {Chosen(s)}] \in Nat
    BY <2>1
  <2>3. ASSUME NEW x \in s
        PROVE  f[x] <= h[s]
    <3>1. f[x] \in Nat
      OBVIOUS
    <3>2. CASE x = Chosen(s)
      BY <2>1, <2>2, <3>2
    <3>3. CASE x # Chosen(s)
      <4>1. f[x] <= h[s \ {Chosen(s)}]
        BY <1>3, <3>3
      <4> QED BY <2>1, <2>2, <3>1, <4>1
    <3> QED BY <3>2, <3>3
  <2> QED BY <2>3
<1>4. \A s \in SUBSET D : s \in P
  <2> HIDE DEF P
  <2> QED BY <1>2, <1>3, SubsetInduction
<1> QED BY <1>1, <1>4

\* The sum of zeros.
LEMMA SumOfZeros ==
  ASSUME NEW D, IsFiniteSet(D), NEW f \in [D -> Nat], \A x \in D : f[x] = 0
  PROVE  SumFunction(f) = 0
<1>1. PICK h \in [SUBSET D -> Nat] :
        /\ h[{}] = 0
        /\ \A s \in SUBSET D :
             s # {} => /\ Chosen(s) \in s
                       /\ h[s] = f[Chosen(s)] + h[s \ {Chosen(s)}]
        /\ SumFunction(f) = h[D]
  BY PartialSums
<1> DEFINE P == {s \in SUBSET D : h[s] = 0}
<1>2. {} \in P
  BY <1>1
<1>3. \A s \in SUBSET D : s # {} /\ s \ {Chosen(s)} \in P => s \in P
  BY <1>1
<1>4. \A s \in SUBSET D : s \in P
  <2> HIDE DEF P
  <2> QED BY <1>2, <1>3, SubsetInduction
<1> QED BY <1>1, <1>4

\* The sum of sums.
LEMMA SumOfSums ==
  ASSUME NEW D, IsFiniteSet(D), NEW f \in [D -> Nat], NEW d \in [D -> Nat]
  PROVE  SumFunction([x \in D |-> f[x] + d[x]]) = SumFunction(f) + SumFunction(d)
<1> DEFINE e == [x \in D |-> f[x] + d[x]]
<1>1. PICK hf \in [SUBSET D -> Nat] :
        /\ hf[{}] = 0
        /\ \A s \in SUBSET D :
             s # {} => /\ Chosen(s) \in s
                       /\ hf[s] = f[Chosen(s)] + hf[s \ {Chosen(s)}]
        /\ SumFunction(f) = hf[D]
  BY PartialSums
<1>2. PICK hd \in [SUBSET D -> Nat] :
        /\ hd[{}] = 0
        /\ \A s \in SUBSET D :
             s # {} => /\ Chosen(s) \in s
                       /\ hd[s] = d[Chosen(s)] + hd[s \ {Chosen(s)}]
        /\ SumFunction(d) = hd[D]
  BY PartialSums
<1>3. e \in [D -> Nat] /\ \A x \in D : e[x] = f[x] + d[x]
  OBVIOUS
<1> HIDE DEF e
<1>4. PICK he \in [SUBSET D -> Nat] :
        /\ he[{}] = 0
        /\ \A s \in SUBSET D :
             s # {} => /\ Chosen(s) \in s
                       /\ he[s] = e[Chosen(s)] + he[s \ {Chosen(s)}]
        /\ SumFunction(e) = he[D]
  BY <1>3, PartialSums
<1> DEFINE P == {s \in SUBSET D : he[s] = hf[s] + hd[s]}
<1>5. {} \in P
  BY <1>1, <1>2, <1>4
<1>6. ASSUME NEW s \in SUBSET D, s # {}, s \ {Chosen(s)} \in P
      PROVE  s \in P
  <2>1. /\ Chosen(s) \in D
        /\ hf[s] = f[Chosen(s)] + hf[s \ {Chosen(s)}]
        /\ hd[s] = d[Chosen(s)] + hd[s \ {Chosen(s)}]
        /\ he[s] = e[Chosen(s)] + he[s \ {Chosen(s)}]
    BY <1>1, <1>2, <1>4, <1>6
  <2>2. /\ f[Chosen(s)] \in Nat /\ d[Chosen(s)] \in Nat
        /\ hf[s \ {Chosen(s)}] \in Nat /\ hd[s \ {Chosen(s)}] \in Nat
    BY <2>1
  <2> QED BY <1>3, <1>6, <2>1, <2>2
<1>7. \A s \in SUBSET D : s \in P
  <2> HIDE DEF P
  <2> QED BY <1>5, <1>6, SubsetInduction
<1> QED BY <1>1, <1>2, <1>4, <1>7 DEF e

\* The elements of G that b takes to x.
Having(G, b, x) == {g \in G : b[g] = x}

\* Counting a finite set by the values of a function on it counts every element.
LEMMA SumOfCounts ==
  ASSUME NEW D, NEW G, NEW f \in [D -> Nat], NEW b \in [G -> D],
         IsFiniteSet(D), IsFiniteSet(G), \A x \in D : f[x] = Cardinality(Having(G, b, x))
  PROVE  SumFunction(f) = Cardinality(G)
<1> DEFINE In(s) == {g \in G : b[g] \in s}
<1>1. \A s : IsFiniteSet(In(s)) /\ Cardinality(In(s)) \in Nat
  BY FS_Subset, FS_CardinalityType
<1>2. ASSUME NEW x \in D
      PROVE  f[x] = Cardinality(In({x})) /\ f[x] \in Nat
  <2>1. Having(G, b, x) = In({x})
    BY DEF Having
  <2> QED BY <1>1, <2>1
<1>3. PICK h \in [SUBSET D -> Nat] :
        /\ h[{}] = 0
        /\ \A s \in SUBSET D :
             s # {} => /\ Chosen(s) \in s
                       /\ h[s] = f[Chosen(s)] + h[s \ {Chosen(s)}]
        /\ SumFunction(f) = h[D]
  BY PartialSums
<1> DEFINE P == {s \in SUBSET D : h[s] = Cardinality(In(s))}
<1>4. {} \in P
  <2>1. In({}) = {}
    OBVIOUS
  <2> QED BY <1>3, <2>1, FS_EmptySet
<1>5. ASSUME NEW s \in SUBSET D, s # {}, s \ {Chosen(s)} \in P
      PROVE  s \in P
  <2> DEFINE c == Chosen(s)
             u == s \ {c}
  <2>1. c \in s /\ h[s] = f[c] + h[u] /\ u \in SUBSET D /\ c \in D
    BY <1>3, <1>5
  <2>2. f[c] = Cardinality(In({c})) /\ h[u] = Cardinality(In(u))
    BY <1>2, <1>5, <2>1
  <2>3. In(s) = In({c}) \cup In(u) /\ In({c}) \cap In(u) = {}
    BY <2>1
  <2>4. Cardinality(In(s)) = Cardinality(In({c})) + Cardinality(In(u))
    <3> HIDE DEF In, c, u
    <3>1. Cardinality(In(s)) =
            Cardinality(In({c})) + Cardinality(In(u)) - Cardinality(In({c}) \cap In(u))
      BY <1>1, <2>3, FS_Union
    <3>2. Cardinality(In({c})) \in Nat /\ Cardinality(In(u)) \in Nat
      BY <1>1
    <3>3. Cardinality(In({c}) \cap In(u)) = 0
      BY <2>3, FS_EmptySet
    <3> QED BY <3>1, <3>2, <3>3
  <2> QED BY <2>1, <2>2, <2>4
<1>6. \A s \in SUBSET D : s \in P
  <2> HIDE DEF P
  <2> QED BY <1>4, <1>5, SubsetInduction
<1>7. In(D) = G
  OBVIOUS
<1> QED BY <1>2, <1>3, <1>6, <1>7

\* One more in one place is one more in all.
LEMMA SumPlusOne ==
  ASSUME NEW D, IsFiniteSet(D), NEW f \in [D -> Nat], NEW x \in D
  PROVE  SumFunction([f EXCEPT ![x] = f[x] + 1]) = SumFunction(f) + 1
<1> DEFINE b == [g \in {x} |-> g]
           d == [y \in D |-> IF y = x THEN 1 ELSE 0]
<1>1. IsFiniteSet({x}) /\ Cardinality({x}) = 1 /\ Cardinality({}) = 0
  BY FS_Singleton, FS_EmptySet
<1>2. \A y \in D : d[y] = Cardinality(Having({x}, b, y))
  <2> SUFFICES ASSUME NEW y \in D
               PROVE  d[y] = Cardinality(Having({x}, b, y))
    OBVIOUS
  <2>1. Having({x}, b, y) = IF y = x THEN {x} ELSE {}
    BY DEF Having
  <2> QED BY <1>1, <2>1
<1>3. d \in [D -> Nat] /\ \A y \in D : d[y] = IF y = x THEN 1 ELSE 0
  OBVIOUS
<1>4. SumFunction(d) = 1
  <2>1. b \in [{x} -> D]
    OBVIOUS
  <2> HIDE DEF b, d
  <2> QED BY <1>1, <1>2, <1>3, <2>1, SumOfCounts, ZenonT(40)
<1> HIDE DEF d
<1>5. [f EXCEPT ![x] = f[x] + 1] = [y \in D |-> f[y] + d[y]]
  <2>1. \A y \in D : f[y] + d[y] = IF y = x THEN f[x] + 1 ELSE f[y]
    <3> SUFFICES ASSUME NEW y \in D
                 PROVE  f[y] + d[y] = IF y = x THEN f[x] + 1 ELSE f[y]
      OBVIOUS
    <3>1. f[y] \in Nat
      OBVIOUS
    <3> QED BY <1>3, <3>1
  <2> QED BY <2>1
<1> QED BY <1>3, <1>4, <1>5, SumOfSums

\* A sum of naturals is no less than the number of terms that are not zero.
LEMMA SumBoundsSupport ==
  ASSUME NEW D, IsFiniteSet(D), NEW f \in [D -> Nat], NEW S \in SUBSET D,
         \A x \in S : f[x] # 0
  PROVE  Cardinality(S) <= SumFunction(f)
<1>1. PICK h \in [SUBSET D -> Nat] :
        /\ h[{}] = 0
        /\ \A s \in SUBSET D :
             s # {} => /\ Chosen(s) \in s
                       /\ h[s] = f[Chosen(s)] + h[s \ {Chosen(s)}]
        /\ SumFunction(f) = h[D]
  BY PartialSums
<1> DEFINE P == {s \in SUBSET D : Cardinality(s \cap S) <= h[s]}
<1>2. {} \in P
  <2>1. {} \cap S = {}
    OBVIOUS
  <2> QED BY <1>1, <2>1, FS_EmptySet
<1>3. ASSUME NEW s \in SUBSET D, s # {}, s \ {Chosen(s)} \in P
      PROVE  s \in P
  <2> DEFINE c == Chosen(s)
             u == s \ {c}
  <2>1. c \in s /\ h[s] = f[c] + h[u] /\ u \in SUBSET D /\ c \in D
    BY <1>1, <1>3
  <2>2. /\ IsFiniteSet(s \cap S) /\ IsFiniteSet(u \cap S)
        /\ Cardinality(s \cap S) \in Nat /\ Cardinality(u \cap S) \in Nat
    BY FS_Subset, FS_CardinalityType
  <2>3. u \cap S = (s \cap S) \ {c}
    OBVIOUS
  <2>4. f[c] \in Nat /\ h[u] \in Nat /\ h[s] \in Nat
    BY <2>1
  <2>5. Cardinality(u \cap S) <= h[u]
    BY <1>3
  <2>6. Cardinality(u \cap S) = IF c \in S THEN Cardinality(s \cap S) - 1
                                          ELSE Cardinality(s \cap S)
    <3> HIDE DEF c, u
    <3> QED BY SMTT(30), <2>1, <2>2, <2>3, FS_RemoveElement
  <2>7. c \in S => f[c] >= 1
    BY <2>4
  <2>8. Cardinality(s \cap S) <= h[s]
    <3> HIDE DEF c, u, P
    <3> QED BY <2>1, <2>2, <2>4, <2>5, <2>6, <2>7
  <2> QED BY <2>8
<1>4. \A s \in SUBSET D : s \in P
  <2> HIDE DEF P
  <2> QED BY <1>2, <1>3, SubsetInduction
<1>5. D \cap S = S
  OBVIOUS
<1> QED BY <1>1, <1>4, <1>5

-----------------------------------------------------------------------------
(* The parts of the inductive invariant. *)

\* The words and registers, without the bounds on counts that SumsOK gives.
WordsOK ==
  /\ keyAt \in [Tables -> [Slots -> Keys \cup {Sentinel}]]
  /\ valAt \in [Tables -> [Slots -> Nat]]
  /\ oldKeyAt \in [Tables -> [Slots -> Keys \cup {Sentinel}]]
  /\ pc \in [Groups -> {"idle", "probe", "claim", "store"}]
  /\ op \in [Groups -> {Kmer(k) : k \in Keys \cup {Sentinel}}]
  /\ win \in [Groups -> 0 .. NumWindows]
  /\ emptyMask \in [Groups -> SUBSET Lanes]
  /\ addr \in [Groups -> Slots]
  /\ genome \in [Keys -> Nat]

\* A group that runs has a k-mer of the genome and looks at one of the windows.
\* Only the k-mers other than poly-A go for a free slot, and get the address of
\* their own.
GroupsOK ==
  \A g \in Groups :
    /\ pc[g] # "idle" => op[g].key \in Keys /\ genome[op[g].key] # 0
    /\ pc[g] \in {"probe", "claim"} => win[g] \in Windows
    /\ pc[g] = "claim" => /\ op[g].key # Sentinel
                          /\ emptyMask[g] \subseteq InsertLanes[win[g]]
    /\ pc[g] = "store" => keyAt[0][addr[g]] = op[g].key \/ op[g].key = Sentinel

\* A key in the table is one of the genome's.  A stale load can return that the
\* slot was free.
SlotsOK ==
  \A s \in Slots :
    /\ keyAt[0][s] # Sentinel => genome[keyAt[0][s]] # 0
    /\ oldKeyAt[0][s] \in {Sentinel, keyAt[0][s]}

\* A slot a group has given up on: taken, and not by the group's k-mer.  These are
\* the slots of the lanes that were still in the loop.
TakenByOther(g, s) == keyAt[0][s] \notin {Sentinel, op[g].key}

PassedTaken ==
  \A g \in Groups :
    /\ pc[g] \in {"probe", "claim"} =>
         \A w \in Windows : \A r \in InsertLanes[w] :
           w < win[g] => TakenByOther(g, SlotAt(Home[op[g].key], w, r))
    /\ pc[g] = "claim" =>
         \A r \in InsertLanes[win[g]] \ emptyMask[g] : TakenByOther(g, LaneSlot(g, r))

\* NoHole and OneSlotPerKey for the k-mers other than poly-A.
NoHoleInFront ==
  \A s \in Slots :
    keyAt[0][s] # Sentinel =>
      \E w \in Windows : \E r \in InsertLanes[w] :
        /\ s = SlotAt(Home[keyAt[0][s]], w, r)
        /\ \A v \in Windows : \A q \in InsertLanes[v] :
             Before(v, q, w, r) => keyAt[0][SlotAt(Home[keyAt[0][s]], v, q)] # Sentinel

SlotsDiffer ==
  \A s1, s2 \in Slots :
    keyAt[0][s1] = keyAt[0][s2] /\ keyAt[0][s1] # Sentinel => s1 = s2

ProtocolInv ==
  WordsOK /\ GroupsOK /\ SlotsOK /\ PassedTaken /\ NoHoleInFront /\ SlotsDiffer

\* The groups that are still to add one for k.
Pending(k) == Cardinality(StillToCount(k))

\* What a slot's count has beyond the occurrences of its k-mer, or of none while it
\* is free, is what poly-A k-mers have added: no more than there were, less those
\* still to come.
CountsOK ==
  /\ \A s \in Slots :
       IF keyAt[0][s] = Sentinel THEN valAt[0][s] + Pending(Sentinel) <= PolyA
       ELSE /\ genome[keyAt[0][s]] <= valAt[0][s] + Pending(keyAt[0][s])
            /\ valAt[0][s] + Pending(keyAt[0][s]) + Pending(Sentinel)
                 <= genome[keyAt[0][s]] + PolyA
  /\ \A k \in Keys \ {Sentinel} :
       (\A s \in Slots : keyAt[0][s] # k) => genome[k] = Pending(k)

SumsOK == KmersSoFar <= MaxKmers /\ EveryKmerAddsOne

KmerInv == ProtocolInv /\ CountsOK /\ SumsOK

-----------------------------------------------------------------------------
(* The probe sequence: the windows of a group cover the table. *)

\* The constants, but for the widths of windows and strides.
LEMMA KmerConstants ==
  /\ IsFiniteSet(Keys)
  /\ Tables = {0}
  /\ MaxKmers \in Nat /\ MaxKmers <= Capacity
BY KmerAssumption

LEMMA NumbersOfProbes ==
  /\ GroupSize \in Nat \ {0} /\ Capacity \in Nat \ {0} /\ Stride \in Nat \ {0}
  /\ NumWindows = IF Stride <= GroupSize THEN (Capacity \div Stride) + 1 ELSE Capacity
  /\ NumWindows \in Nat \ {0}
  /\ Windows = 0 .. NumWindows - 1 /\ Windows \subseteq Nat
  /\ Lanes = 0 .. GroupSize - 1 /\ Lanes \subseteq Nat /\ Slots \subseteq Nat
  /\ 0 \in Windows /\ 0 \in Slots /\ 0 \in Lanes
  /\ \A w \in Windows : InsertLanes[w] \subseteq Lanes
<1>1. GroupSize \in Nat \ {0} /\ Capacity \in Nat \ {0} /\ Stride \in Nat \ {0}
  BY ProbeAssumption
<1>2. NumWindows = IF Stride <= GroupSize THEN (Capacity \div Stride) + 1 ELSE Capacity
  BY DEF NumWindows
<1>3. NumWindows \in Nat \ {0}
  <2>1. Capacity \div Stride \in Nat
    BY <1>1, DivisionExists
  <2> QED BY <1>1, <1>2, <2>1
<1>4. Windows = 0 .. NumWindows - 1 /\ Windows \subseteq Nat
      /\ Lanes = 0 .. GroupSize - 1 /\ Lanes \subseteq Nat /\ Slots \subseteq Nat
      /\ 0 \in Windows /\ 0 \in Slots /\ 0 \in Lanes
  BY <1>1, <1>3 DEF Windows, Lanes, Slots
<1>5. \A w \in Windows : InsertLanes[w] \subseteq Lanes
  BY DEF InsertLanes, AllLanes, EarlyLanes
<1> QED BY <1>1, <1>2, <1>3, <1>4, <1>5

\* With windows that touch, or one that is as wide as the table, no lane is gone when
\* it is needed; with windows further apart lane 0 goes through all of them.
LEMMA LanesStay ==
  /\ Stride <= GroupSize => \A w \in Windows : InsertLanes[w] = Lanes
  /\ InsertLanes[0] = Lanes
  /\ \A w \in Windows : 0 \in InsertLanes[w]
<1>1. ASSUME NEW w \in Windows
      PROVE  0 \in EarlyLanes[w] /\ 0 \in AllLanes[w]
  <2>1. w + 0 < NumWindows
    BY NumbersOfProbes
  <2> QED BY <2>1, NumbersOfProbes DEF EarlyLanes, AllLanes
<1>2. EarlyLanes[0] = Lanes /\ \A w \in Windows : AllLanes[w] = Lanes
  BY NumbersOfProbes DEF EarlyLanes, AllLanes
<1>3. Stride <= GroupSize => ~(Stride > GroupSize)
  BY NumbersOfProbes
<1> QED BY <1>1, <1>2, <1>3, NumbersOfProbes DEF InsertLanes

\* Every lane of every window looks at a slot of the table.
LEMMA SlotAtIsSlot ==
  ASSUME NEW home \in Slots, NEW w \in Nat, NEW r \in Lanes
  PROVE  SlotAt(home, w, r) \in Slots
<1>1. home + (w * Stride) + r \in Nat
  BY NumbersOfProbes
<1> QED BY <1>1, NumbersOfProbes DEF SlotAt, Slots

\* The slot o places behind the home slot.
AtOffset(home, o) == (home + o) % Capacity

LEMMA SlotHasOffset ==
  ASSUME NEW home \in Slots, NEW s \in Slots
  PROVE  \E o \in 0 .. Capacity - 1 : AtOffset(home, o) = s
<1> DEFINE C == Capacity
<1>1. C \in Nat \ {0} /\ home \in 0 .. C - 1 /\ s \in 0 .. C - 1
  BY NumbersOfProbes DEF Slots
<1>2. CASE home <= s
  <2>1. s - home \in 0 .. C - 1 /\ home + (s - home) = s /\ s % C = s
    BY <1>1, <1>2
  <2> QED BY <2>1 DEF AtOffset
<1>3. CASE s < home
  <2>1. s - home + C \in 0 .. C - 1 /\ home + (s - home + C) = s + C
    BY <1>1, <1>3
  <2>2. (s + C) % C = s
    BY <1>1
  <2> QED BY <2>1, <2>2 DEF AtOffset
<1> QED BY <1>1, <1>2, <1>3

\* Windows that touch or overlap cover the table.
LEMMA NarrowWindowsCover ==
  ASSUME Stride <= GroupSize, NEW home \in Slots, NEW s \in Slots
  PROVE  \E w \in Windows : \E r \in InsertLanes[w] : SlotAt(home, w, r) = s
<1>1. /\ Stride \in Nat \ {0} /\ GroupSize \in Nat \ {0} /\ Capacity \in Nat \ {0}
      /\ home \in Nat
  BY NumbersOfProbes
<1>2. PICK o \in 0 .. Capacity - 1 : AtOffset(home, o) = s
  BY SlotHasOffset
<1>3. o \in Nat /\ o <= Capacity
  BY <1>1
<1>4. PICK w \in Nat, r \in 0 .. Stride - 1 :
        w = o \div Stride /\ o = (w * Stride) + r
  BY ZenonT(40), <1>1, <1>3, DivisionExists
<1>5. w \in Windows
  <2>1. w <= Capacity \div Stride
    BY <1>1, <1>3, <1>4, DivisionMonotone
  <2>2. Capacity \div Stride \in Nat
    BY <1>1, DivisionExists
  <2> QED BY <2>1, <2>2, NumbersOfProbes
<1>6. r \in InsertLanes[w]
  <2>1. r \in Lanes
    BY <1>1, NumbersOfProbes
  <2> QED BY <1>5, <2>1, LanesStay
<1>7. SlotAt(home, w, r) = s
  <2>1. PICK m \in Nat : m = w * Stride
    BY <1>1
  <2>2. home + m + r = home + (m + r)
    BY <1>1
  <2> QED BY <1>2, <1>4, <2>1, <2>2 DEF AtOffset, SlotAt
<1> QED BY <1>5, <1>6, <1>7

\* A window as wide as the table covers it.
LEMMA FirstWindowCovers ==
  ASSUME Capacity <= GroupSize, NEW home \in Slots, NEW s \in Slots
  PROVE  \E w \in Windows : \E r \in InsertLanes[w] : SlotAt(home, w, r) = s
<1>1. PICK o \in 0 .. Capacity - 1 : AtOffset(home, o) = s
  BY SlotHasOffset
<1>2. o \in InsertLanes[0] /\ 0 \in Windows
  BY LanesStay, NumbersOfProbes
<1>3. home + (0 * Stride) + o = home + o
  BY NumbersOfProbes
<1>4. SlotAt(home, 0, o) = s
  BY <1>1, <1>3 DEF AtOffset, SlotAt
<1> QED BY <1>2, <1>4

-----------------------------------------------------------------------------
(* Windows further apart: lane 0 alone meets every slot, as the stride and the *)
(* capacity have no common divisor.                                            *)

Divides(n, x) == \E q \in Nat : x = n * q

LEMMA SameRemainder ==
  ASSUME NEW n \in Nat \ {0}, NEW x \in Nat, NEW y \in Nat, x <= y, x % n = y % n
  PROVE  Divides(n, y - x)
<1>1. PICK p \in Nat, r \in Nat : p = x \div n /\ r = x % n /\ x = p * n + r
  <2>1. x \div n \in Nat /\ x % n \in 0 .. n - 1 /\ x = (x \div n) * n + (x % n)
    BY DivisionExists
  <2> QED BY <2>1
<1>2. PICK q \in Nat : q = y \div n /\ y = q * n + r
  <2>1. y \div n \in Nat /\ y = (y \div n) * n + (y % n)
    BY DivisionExists
  <2> QED BY <1>1, <2>1
<1>3. p <= q
  BY <1>1, <1>2, DivisionMonotone
<1>4. PICK e \in Nat : q = p + e
  <2>1. q - p \in Nat /\ q = p + (q - p)
    BY <1>3
  <2> QED BY <2>1
<1>5. q * n = p * n + n * e
  BY <1>4
<1>6. PICK i \in Nat, j \in Nat : i = p * n /\ j = n * e
  OBVIOUS
<1>7. y - x = n * e
  BY <1>1, <1>2, <1>5, <1>6
<1> QED BY <1>7 DEF Divides

\* The factors t that make t * m a multiple of n.
Factors(n, m) == {t \in Nat \ {0} : Divides(n, t * m)}

\* The least factor divides every factor: a remainder would be a smaller one.
LEMMA LeastFactorDivides ==
  ASSUME NEW n \in Nat \ {0}, NEW m \in Nat, NEW a \in Factors(n, m),
         \A t \in Factors(n, m) : a <= t, NEW b \in Factors(n, m)
  PROVE  b % a = 0
<1>1. a \in Nat \ {0} /\ b \in Nat \ {0}
  BY DEF Factors
<1>2. PICK q \in Nat, r \in 0 .. a - 1 : r = b % a /\ b = q * a + r
  BY ZenonT(40), <1>1, DivisionExists
<1>3. PICK x \in Nat : a * m = n * x
  BY DEF Factors, Divides
<1>4. PICK y \in Nat : b * m = n * y
  BY DEF Factors, Divides
<1>5. b * m = q * (a * m) + r * m
  BY <1>1, <1>2
<1>6. n * y = n * (q * x) + r * m
  <2>1. q * (n * x) = n * (q * x)
    OBVIOUS
  <2> QED BY <1>3, <1>4, <1>5, <2>1
<1>7. PICK z \in Nat : z = q * x
  OBVIOUS
<1>8. PICK d \in Nat : d = r * m
  BY <1>1
<1>9. n * y = n * z + d
  BY <1>6, <1>7, <1>8
<1>10. z <= y
  <2> SUFFICES ASSUME y < z PROVE FALSE
    OBVIOUS
  <2>1. PICK e \in Nat : z = y + 1 + e
    <3>1. z - y - 1 \in Nat /\ z = y + 1 + (z - y - 1)
      OBVIOUS
    <3> QED BY <3>1
  <2>2. n * z = n * y + n + n * e
    BY <2>1
  <2>3. n * y \in Nat /\ n * e \in Nat
    OBVIOUS
  <2> QED BY <1>9, <2>2, <2>3
<1>11. PICK e \in Nat : y = z + e
  <2>1. y - z \in Nat /\ y = z + (y - z)
    BY <1>10
  <2> QED BY <2>1
<1>12. d = n * e
  <2>1. n * y = n * z + n * e
    BY <1>11
  <2>2. n * z \in Nat /\ n * e \in Nat
    OBVIOUS
  <2> QED BY <1>9, <2>1, <2>2
<1>13. r # 0 => r \in Factors(n, m)
  BY <1>1, <1>8, <1>12 DEF Factors, Divides
<1>14. ~(a <= r)
  BY <1>1
<1> QED BY <1>2, <1>13, <1>14

\* What divides a product and has no divisor in common with one factor divides the other.
LEMMA CoprimeDivides ==
  ASSUME NEW n \in Nat \ {0}, NEW u \in Nat \ {0}, NEW m \in Nat,
         \A d \in 2 .. u : u % d # 0 \/ n % d # 0,
         Divides(n, u * m)
  PROVE  Divides(n, m)
<1>1. u \in Factors(n, m) /\ n \in Factors(n, m)
  BY DEF Factors, Divides
<1>2. PICK a \in Factors(n, m) : \A t \in Factors(n, m) : a <= t
  <2>1. Factors(n, m) \in SUBSET Nat /\ Factors(n, m) # {}
    BY <1>1 DEF Factors
  <2> QED BY <2>1, LeastNatural
<1>3. u % a = 0 /\ n % a = 0
  BY <1>1, <1>2, LeastFactorDivides
<1>4. a \in Nat \ {0} /\ a <= u
  BY <1>1, <1>2 DEF Factors
<1>5. a = 1
  BY <1>3, <1>4
<1>6. 1 * m = m
  OBVIOUS
<1> QED BY <1>2, <1>5, <1>6 DEF Factors

\* A multiple of n below n is zero.
LEMMA SmallMultiple ==
  ASSUME NEW n \in Nat \ {0}, NEW x \in Nat, x < n, Divides(n, x)
  PROVE  x = 0
<1>1. PICK q \in Nat : x = n * q
  BY DEF Divides
<1>2. CASE q = 0
  BY <1>1, <1>2
<1>3. CASE q > 0
  <2>1. PICK e \in Nat : q = 1 + e
    <3>1. q - 1 \in Nat /\ q = 1 + (q - 1)
      BY <1>3
    <3> QED BY <3>1
  <2>2. n * q = n + n * e /\ n * e \in Nat
    BY <2>1
  <2>3. PICK i \in Nat : i = n * e
    BY <2>2
  <2> QED BY <1>1, <2>2, <2>3
<1> QED BY <1>2, <1>3

\* Lane 0 looks at another slot in each window.
LEMMA WindowsDiffer ==
  ASSUME Stride > GroupSize, \A d \in 2 .. Stride : Stride % d # 0 \/ Capacity % d # 0,
         NEW home \in Slots, NEW v \in Windows, NEW w \in Windows, v < w
  PROVE  SlotAt(home, v, 0) # SlotAt(home, w, 0)
<1> SUFFICES ASSUME SlotAt(home, v, 0) = SlotAt(home, w, 0) PROVE FALSE
  OBVIOUS
<1>1. /\ home \in Nat /\ v \in Nat /\ w \in Nat /\ w < Capacity
      /\ Capacity \in Nat \ {0} /\ Stride \in Nat \ {0}
  BY NumbersOfProbes
<1>2. PICK d \in Nat \ {0} : w = v + d /\ d < Capacity
  <2>1. w - v \in Nat \ {0} /\ w = v + (w - v) /\ w - v < Capacity
    BY <1>1
  <2> QED BY <2>1
<1>3. PICK x \in Nat, y \in Nat : x = v * Stride /\ y = Stride * d
  BY <1>1
<1>4. w * Stride = x + y
  BY <1>1, <1>2, <1>3
<1>5. SlotAt(home, v, 0) = (home + x) % Capacity
  <2>1. home + (v * Stride) + 0 = home + x
    BY <1>1, <1>3
  <2> QED BY <2>1, Zenon DEF SlotAt
<1>6. SlotAt(home, w, 0) = (home + x + y) % Capacity
  <2>1. home + (w * Stride) + 0 = home + x + y
    BY <1>1, <1>3, <1>4
  <2> QED BY <2>1, Zenon DEF SlotAt
<1>7. Divides(Capacity, y)
  <2>1. /\ home + x \in Nat /\ home + x + y \in Nat /\ home + x <= home + x + y
        /\ (home + x + y) - (home + x) = y
    BY <1>1
  <2>2. (home + x) % Capacity = (home + x + y) % Capacity
    BY <1>5, <1>6
  <2>3. Divides(Capacity, (home + x + y) - (home + x))
    BY <1>1, <2>1, <2>2, SameRemainder
  <2> QED BY <2>1, <2>3
<1>8. Divides(Capacity, d)
  BY <1>1, <1>3, <1>7, CoprimeDivides
<1> QED BY <1>1, <1>2, <1>8, SmallMultiple

\* There are as many windows as slots, so lane 0 looks at every slot.
LEMMA WideWindowsCover ==
  ASSUME Stride > GroupSize, \A d \in 2 .. Stride : Stride % d # 0 \/ Capacity % d # 0,
         NEW home \in Slots, NEW s \in Slots
  PROVE  \E w \in Windows : \E r \in InsertLanes[w] : SlotAt(home, w, r) = s
<1> DEFINE f == [w \in Windows |-> SlotAt(home, w, 0)]
           Seen == {f[w] : w \in Windows}
<1>1. Windows = 0 .. Capacity - 1 /\ Slots = 0 .. Capacity - 1 /\ Capacity \in Nat \ {0}
  <2>1. ~(Stride <= GroupSize)
    BY NumbersOfProbes
  <2> QED BY <2>1, NumbersOfProbes DEF Slots
<1>2. f \in [Windows -> Seen] /\ \A x \in Seen : \E w \in Windows : f[w] = x
  OBVIOUS
<1>3. \A v, w \in Windows : f[v] = f[w] => v = w
  <2> SUFFICES ASSUME NEW v \in Windows, NEW w \in Windows, f[v] = f[w]
               PROVE  v = w
    OBVIOUS
  <2>1. ~(v < w) /\ ~(w < v)
    BY WindowsDiffer
  <2> QED BY <2>1, NumbersOfProbes
<1>4. Seen \subseteq Slots
  <2>1. \A w \in Windows : SlotAt(home, w, 0) \in Slots
    BY NumbersOfProbes, SlotAtIsSlot
  <2> QED BY <2>1
<1>5. /\ IsFiniteSet(Windows) /\ Cardinality(Windows) = Capacity
      /\ IsFiniteSet(Slots) /\ Cardinality(Slots) = Capacity
  BY <1>1, NumbersBelow
<1>6. IsFiniteSet(Seen) /\ Cardinality(Seen) = Capacity
  <2>1. f \in Injection(Windows, Seen) /\ f \in Surjection(Windows, Seen)
    <3> HIDE DEF f, Seen
    <3> QED BY <1>2, <1>3 DEF Injection, Surjection, IsInjective
  <2> HIDE DEF f, Seen
  <2> QED BY <1>5, <2>1, FS_Surjection
<1>7. Seen = Slots
  <2> HIDE DEF f, Seen
  <2> QED BY <1>4, <1>5, <1>6, FS_Subset
<1>8. PICK w \in Windows : SlotAt(home, w, 0) = s
  BY <1>7
<1> QED BY <1>8, LanesStay

\* Every slot is looked at in some window, by a lane that is still there.
LEMMA WindowsCoverTable ==
  ASSUME NEW home \in Slots, NEW s \in Slots
  PROVE  \E w \in Windows : \E r \in InsertLanes[w] : SlotAt(home, w, r) = s
<1>1. CASE Stride <= GroupSize
  BY <1>1, NarrowWindowsCover
<1>2. CASE Capacity <= GroupSize
  BY <1>2, FirstWindowCovers
<1>3. CASE Stride > GroupSize /\ \A d \in 2 .. Stride : Stride % d # 0 \/ Capacity % d # 0
  BY <1>3, WideWindowsCover
<1> QED BY <1>1, <1>2, <1>3, NumbersOfProbes, KmerAssumption

-----------------------------------------------------------------------------
(* The steps of the insertion protocol. *)

\* What a group that runs works on.
LEMMA Operands ==
  ASSUME WordsOK, GroupsOK, NEW g \in Groups, pc[g] # "idle"
  PROVE  /\ op[g].key \in Keys
         /\ Home[op[g].key] \in Slots
         /\ GroupTable(g) = 0
         /\ \A r \in Lanes : LaneSlot(g, r) \in Slots
<1>1. op[g].key \in Keys
  BY DEF GroupsOK
<1>2. Home[op[g].key] \in Slots /\ GroupTable(g) = 0
  BY <1>1, InsertAssumption, KmerConstants DEF GroupTable
<1>3. win[g] \in Nat
  BY NumbersOfProbes DEF WordsOK
<1> QED BY <1>1, <1>2, <1>3, SlotAtIsSlot DEF LaneSlot

\* The words of the one table.
LEMMA OneTable ==
  ASSUME WordsOK
  PROVE  /\ 0 \in Tables
         /\ \A s \in Slots : /\ keyAt[0][s] \in Keys \cup {Sentinel}
                             /\ valAt[0][s] \in Nat
                             /\ oldKeyAt[0][s] \in Keys \cup {Sentinel}
BY KmerConstants DEF WordsOK

\* A group finds its k-mer, or a free slot, before it runs out of windows: a table
\* without either would hold more k-mers than the genome has.
LEMMA NobodyGivesUp ==
  ASSUME ProtocolInv, KmersSoFar <= MaxKmers, NEW g \in Groups,
         pc[g] \in {"probe", "claim"},
         \A r \in InsertLanes[win[g]] : TakenByOther(g, LaneSlot(g, r))
  PROVE  win[g] + 1 \in Windows
<1> USE DEF ProtocolInv
<1> SUFFICES ASSUME win[g] + 1 \notin Windows PROVE FALSE
  OBVIOUS
<1> DEFINE k == op[g].key
           f == [s \in Slots |-> keyAt[0][s]]
           Held == {f[s] : s \in Slots}
<1>1. k \in Keys /\ genome[k] # 0 /\ Home[k] \in Slots
  BY Operands DEF GroupsOK
<1>2. \A s \in Slots : keyAt[0][s] \notin {Sentinel, k}
  <2> SUFFICES ASSUME NEW s \in Slots PROVE TakenByOther(g, s)
    BY DEF TakenByOther
  <2>1. PICK w \in Windows : \E r \in InsertLanes[w] : SlotAt(Home[k], w, r) = s
    BY <1>1, WindowsCoverTable
  <2>2. win[g] \in Windows
    BY DEF GroupsOK
  <2>3. w < win[g] \/ w = win[g]
    BY <2>2, NumbersOfProbes
  <2>4. CASE w < win[g]
    BY <2>1, <2>4 DEF PassedTaken
  <2>5. CASE w = win[g]
    BY <2>1, <2>5 DEF LaneSlot
  <2> QED BY <2>3, <2>4, <2>5
<1>3. /\ f \in Injection(Slots, Held)
      /\ f \in Surjection(Slots, Held)
  <2>1. f \in [Slots -> Held] /\ DOMAIN f = Slots /\ \A x \in Held : \E s \in Slots : f[s] = x
    OBVIOUS
  <2>2. \A a, b \in Slots : f[a] = f[b] => a = b
    BY <1>2 DEF SlotsDiffer
  <2> HIDE DEF f, Held
  <2> QED BY <2>1, <2>2 DEF Injection, Surjection, IsInjective
<1>4. IsFiniteSet(Slots) /\ Cardinality(Slots) = Capacity
  BY NumbersOfProbes, NumbersBelow DEF Slots
<1>5. IsFiniteSet(Held) /\ Cardinality(Held) = Capacity
  <2> HIDE DEF f, Held
  <2> QED BY <1>3, <1>4, FS_Surjection
<1>6. k \notin Held /\ \A x \in Held : x \in Keys /\ genome[x] # 0
  <2>1. \A s \in Slots : keyAt[0][s] \in Keys /\ genome[keyAt[0][s]] # 0
    BY <1>2, OneTable DEF SlotsOK
  <2> QED BY <1>2, <2>1
<1>7. Cardinality(Held \cup {k}) = Capacity + 1
  <2> HIDE DEF Held, k
  <2> QED BY <1>5, <1>6, FS_AddElement
<1>8. Cardinality(Held \cup {k}) <= KmersSoFar
  <2>1. /\ IsFiniteSet(Keys) /\ genome \in [Keys -> Nat]
        /\ Held \cup {k} \in SUBSET Keys
        /\ \A x \in Held \cup {k} : genome[x] # 0
    BY <1>1, <1>6, KmerConstants DEF WordsOK
  <2> HIDE DEF Held, k
  <2> QED BY <2>1, SumBoundsSupport DEF KmersSoFar
<1>9. KmersSoFar \in Nat
  BY KmerConstants, SumBoundsTerms DEF KmersSoFar, WordsOK
<1> QED BY <1>7, <1>8, <1>9, KmerConstants, NumbersOfProbes

\* The moves of a group between two writes.  It has an address: that of its k-mer
\* or, for poly-A, of a slot that was free.
GetsAddress(g, s) ==
  /\ op[g].key = Sentinel \/ keyAt[0][s] = op[g].key
  /\ pc' = [pc EXCEPT ![g] = "store"]
  /\ addr' = [addr EXCEPT ![g] = s]
  /\ UNCHANGED <<keyAt, valAt, oldKeyAt, op, win, emptyMask, genome>>

\* It has lanes left to try in its window.
TriesLanes(g, mask) ==
  /\ op[g].key # Sentinel
  /\ mask \subseteq InsertLanes[win[g]]
  /\ \A r \in InsertLanes[win[g]] \ mask : TakenByOther(g, LaneSlot(g, r))
  /\ pc' = [pc EXCEPT ![g] = "claim"]
  /\ emptyMask' = [emptyMask EXCEPT ![g] = mask]
  /\ UNCHANGED <<keyAt, valAt, oldKeyAt, op, win, addr, genome>>

\* It is through with the window.
MovesOn(g, mask) ==
  /\ \A r \in InsertLanes[win[g]] : TakenByOther(g, LaneSlot(g, r))
  /\ win[g] + 1 \in Windows
  /\ win' = [win EXCEPT ![g] = win[g] + 1]
  /\ pc' = [pc EXCEPT ![g] = "probe"]
  /\ emptyMask' = [emptyMask EXCEPT ![g] = mask]
  /\ UNCHANGED <<keyAt, valAt, oldKeyAt, op, addr, genome>>

\* Its CAS succeeds.
PutsKey(g, r) ==
  /\ r \in emptyMask[g]
  /\ \A q \in emptyMask[g] : r <= q
  /\ keyAt[0][LaneSlot(g, r)] = Sentinel
  /\ keyAt' = [keyAt EXCEPT ![0][LaneSlot(g, r)] = op[g].key]
  /\ addr' = [addr EXCEPT ![g] = LaneSlot(g, r)]
  /\ pc' = [pc EXCEPT ![g] = "store"]
  /\ UNCHANGED <<valAt, oldKeyAt, op, win, emptyMask, genome>>

\* What the ballot concludes from its loads holds of the table now: a stale load
\* can only show a slot free that has been taken.
LEMMA BallotMoves ==
  ASSUME ProtocolInv, KmersSoFar <= MaxKmers, NEW g \in Groups, InsertBallot(g)
  PROVE  /\ pc[g] = "probe"
         /\ \/ \E s \in Slots : GetsAddress(g, s)
            \/ \E mask \in SUBSET Lanes : TriesLanes(g, mask) \/ MovesOn(g, mask)
<1> USE DEF ProtocolInv
<1> DEFINE k == op[g].key
<1>1. pc[g] = "probe" /\ UNCHANGED <<keyAt, valAt, oldKeyAt, op, genome>>
  BY DEF InsertBallot, Ballot
<1>2. k \in Keys /\ GroupTable(g) = 0 /\ \A r \in Lanes : LaneSlot(g, r) \in Slots
  BY <1>1, Operands
<1> DEFINE L == InsertLanes[win[g]]
<1>3. win[g] \in Windows /\ L \in SUBSET Lanes
  BY <1>1, NumbersOfProbes DEF GroupsOK
<1>4. PICK seen \in [L -> KeyWords] :
        /\ \A r \in L :
             seen[r] \in {keyAt[0][LaneSlot(g, r)], oldKeyAt[0][LaneSlot(g, r)]}
        /\ \/ \E r \in L : /\ seen[r] = k
                               /\ addr' = [addr EXCEPT ![g] = LaneSlot(g, r)]
                               /\ GoTo(g, "store")
                               /\ UNCHANGED <<win, emptyMask>>
           \/ /\ \A r \in L : seen[r] # k
              /\ emptyMask' = [emptyMask EXCEPT ![g] =
                                 {r \in L : seen[r] = Sentinel}]
              /\ IF \E r \in L : seen[r] = Sentinel
                   THEN GoTo(g, "claim") /\ UNCHANGED win
                   ELSE NextWindow(g, "idle")
              /\ UNCHANGED addr
  BY <1>2, <1>3 DEF InsertBallot, Ballot
<1>5. \A r \in L :
        /\ LaneSlot(g, r) \in Slots
        /\ seen[r] = k => k = Sentinel \/ keyAt[0][LaneSlot(g, r)] = k
        /\ seen[r] \notin {Sentinel, k} => TakenByOther(g, LaneSlot(g, r))
  BY <1>2, <1>3, <1>4 DEF SlotsOK, TakenByOther
<1>6. CASE \E r \in L : /\ seen[r] = k
                            /\ addr' = [addr EXCEPT ![g] = LaneSlot(g, r)]
                            /\ GoTo(g, "store")
                            /\ UNCHANGED <<win, emptyMask>>
  <2>1. PICK r \in L : /\ seen[r] = k
                       /\ addr' = [addr EXCEPT ![g] = LaneSlot(g, r)]
                       /\ GoTo(g, "store")
                       /\ UNCHANGED <<win, emptyMask>>
    BY <1>6
  <2>2. LaneSlot(g, r) \in Slots /\ GetsAddress(g, LaneSlot(g, r))
    BY <1>1, <1>5, <2>1 DEF GetsAddress, GoTo
  <2> QED BY <1>1, <2>2
<1>7. CASE /\ \A r \in L : seen[r] # k
           /\ emptyMask' = [emptyMask EXCEPT ![g] = {r \in L : seen[r] = Sentinel}]
           /\ IF \E r \in L : seen[r] = Sentinel
                THEN GoTo(g, "claim") /\ UNCHANGED win
                ELSE NextWindow(g, "idle")
           /\ UNCHANGED addr
  <2> DEFINE mask == {r \in L : seen[r] = Sentinel}
  <2>1. \A r \in L \ mask : TakenByOther(g, LaneSlot(g, r))
    BY <1>5, <1>7
  <2>2. CASE \E r \in L : seen[r] = Sentinel
    <3>1. k # Sentinel
      BY <1>7, <2>2
    <3>2. mask \in SUBSET Lanes /\ mask \subseteq L
      BY <1>3
    <3>3. TriesLanes(g, mask)
      BY <1>1, <1>7, <2>1, <2>2, <3>1, <3>2 DEF TriesLanes, GoTo
    <3> QED BY <1>1, <3>2, <3>3
  <2>3. CASE ~ \E r \in L : seen[r] = Sentinel
    <3>1. \A r \in L : TakenByOther(g, LaneSlot(g, r))
      BY <2>1, <2>3
    <3>2. win[g] + 1 \in Windows
      BY <1>1, <3>1, NobodyGivesUp
    <3>3. mask \in SUBSET Lanes
      BY <1>3
    <3>4. MovesOn(g, mask)
      BY <1>1, <1>7, <2>3, <3>1, <3>2 DEF MovesOn, NextWindow, GoTo
    <3> QED BY <1>1, <3>3, <3>4
  <2> QED BY <2>2, <2>3
<1> QED BY <1>1, <1>4, <1>6, <1>7

\* What the leader's CAS leads to.
LEMMA ClaimMoves ==
  ASSUME ProtocolInv, KmersSoFar <= MaxKmers, NEW g \in Groups, InsertClaim(g)
  PROVE  /\ pc[g] = "claim"
         /\ \/ \E s \in Slots : GetsAddress(g, s)
            \/ \E mask \in SUBSET Lanes : TriesLanes(g, mask) \/ MovesOn(g, mask)
            \/ \E r \in Lanes : PutsKey(g, r)
<1> USE DEF ProtocolInv
<1> DEFINE k == op[g].key
<1>1. pc[g] = "claim" /\ UNCHANGED <<valAt, oldKeyAt, op, genome>>
  BY DEF InsertClaim, Claim
<1>2. /\ k \in Keys /\ GroupTable(g) = 0 /\ \A r \in Lanes : LaneSlot(g, r) \in Slots
      /\ k # Sentinel
      /\ emptyMask[g] \in SUBSET Lanes /\ emptyMask[g] \subseteq InsertLanes[win[g]]
  BY <1>1, Operands DEF GroupsOK, WordsOK
<1>3. PICK r \in emptyMask[g] :
        /\ \A q \in emptyMask[g] : r <= q
        /\ \/ /\ keyAt[0][LaneSlot(g, r)] = Sentinel
              /\ keyAt' = [keyAt EXCEPT ![0][LaneSlot(g, r)] = k]
              /\ addr' = [addr EXCEPT ![g] = LaneSlot(g, r)]
              /\ GoTo(g, "store")
              /\ UNCHANGED <<win, emptyMask>>
           \/ /\ keyAt[0][LaneSlot(g, r)] = k
              /\ addr' = [addr EXCEPT ![g] = LaneSlot(g, r)]
              /\ GoTo(g, "store")
              /\ UNCHANGED <<keyAt, win, emptyMask>>
           \/ /\ keyAt[0][LaneSlot(g, r)] \notin {Sentinel, k}
              /\ emptyMask' = [emptyMask EXCEPT ![g] = emptyMask[g] \ {r}]
              /\ IF emptyMask[g] = {r} THEN NextWindow(g, "idle")
                                       ELSE UNCHANGED <<win, pc>>
              /\ UNCHANGED <<keyAt, addr>>
  BY <1>2 DEF InsertClaim, Claim, Leader, Duplicate
<1>4. r \in Lanes
  BY <1>2
<1>5. CASE /\ keyAt[0][LaneSlot(g, r)] = Sentinel
           /\ keyAt' = [keyAt EXCEPT ![0][LaneSlot(g, r)] = k]
           /\ addr' = [addr EXCEPT ![g] = LaneSlot(g, r)]
           /\ GoTo(g, "store")
           /\ UNCHANGED <<win, emptyMask>>
  BY <1>1, <1>3, <1>4, <1>5 DEF PutsKey, GoTo
<1>6. CASE /\ keyAt[0][LaneSlot(g, r)] = k
           /\ addr' = [addr EXCEPT ![g] = LaneSlot(g, r)]
           /\ GoTo(g, "store")
           /\ UNCHANGED <<keyAt, win, emptyMask>>
  BY <1>1, <1>2, <1>4, <1>6 DEF GetsAddress, GoTo
<1>7. CASE /\ keyAt[0][LaneSlot(g, r)] \notin {Sentinel, k}
           /\ emptyMask' = [emptyMask EXCEPT ![g] = emptyMask[g] \ {r}]
           /\ IF emptyMask[g] = {r} THEN NextWindow(g, "idle")
                                    ELSE UNCHANGED <<win, pc>>
           /\ UNCHANGED <<keyAt, addr>>
  <2> DEFINE mask == emptyMask[g] \ {r}
  <2>1. \A q \in InsertLanes[win[g]] \ mask : TakenByOther(g, LaneSlot(g, q))
    BY <1>1, <1>7 DEF PassedTaken, TakenByOther
  <2>2. mask \in SUBSET Lanes
    BY <1>2
  <2>3. CASE emptyMask[g] = {r}
    <3>1. \A q \in InsertLanes[win[g]] : TakenByOther(g, LaneSlot(g, q))
      BY <2>1, <2>3
    <3>2. win[g] + 1 \in Windows
      BY <1>1, <3>1, NobodyGivesUp
    <3>3. MovesOn(g, mask)
      BY <1>1, <1>7, <2>3, <3>1, <3>2 DEF MovesOn, NextWindow, GoTo
    <3> QED BY <1>1, <2>2, <3>3
  <2>4. CASE emptyMask[g] # {r}
    <3>1. pc' = [pc EXCEPT ![g] = "claim"]
      BY <1>1, <1>7, <2>4 DEF WordsOK
    <3>2. TriesLanes(g, mask)
      BY <1>1, <1>2, <1>7, <2>1, <2>4, <3>1 DEF TriesLanes
    <3> QED BY <1>1, <2>2, <3>2
  <2> QED BY <2>3, <2>4
<1> QED BY <1>1, <1>3, <1>5, <1>6, <1>7

\* A move without a write preserves the protocol's invariant.
LEMMA MovePreserves ==
  ASSUME ProtocolInv, NEW g \in Groups,
         \/ \E s \in Slots : pc[g] # "idle" /\ GetsAddress(g, s)
         \/ \E mask \in SUBSET Lanes :
              \/ pc[g] \in {"probe", "claim"} /\ TriesLanes(g, mask)
              \/ pc[g] \in {"probe", "claim"} /\ MovesOn(g, mask)
  PROVE  /\ ProtocolInv'
         /\ UNCHANGED <<keyAt, valAt, op, genome>>
         /\ \A h \in Groups : pc'[h] = "idle" <=> pc[h] = "idle"
<1> USE DEF ProtocolInv
<1>1. /\ UNCHANGED <<keyAt, valAt, oldKeyAt, op, genome>>
      /\ pc[g] # "idle" /\ pc'[g] # "idle"
      /\ pc' = [pc EXCEPT ![g] = pc'[g]]
      /\ \A h \in Groups : pc'[h] = "idle" <=> pc[h] = "idle"
  BY DEF GetsAddress, TriesLanes, MovesOn, WordsOK
<1>2. SlotsOK' /\ NoHoleInFront' /\ SlotsDiffer'
  BY <1>1 DEF SlotsOK, NoHoleInFront, SlotsDiffer
<1>3. /\ op[g].key \in Keys /\ genome[op[g].key] # 0
      /\ pc[g] \in {"probe", "claim"} => win[g] \in Windows
  BY <1>1 DEF GroupsOK
<1>4. CASE \E s \in Slots : GetsAddress(g, s)
  <2>1. PICK s \in Slots : GetsAddress(g, s)
    BY <1>4
  <2>2. WordsOK'
    BY <1>1, <2>1 DEF WordsOK, GetsAddress
  <2>3. GroupsOK'
    BY <1>1, <1>3, <2>1 DEF GroupsOK, GetsAddress, WordsOK
  <2>4. PassedTaken'
    BY <1>1, <2>1 DEF PassedTaken, TakenByOther, GetsAddress, WordsOK, LaneSlot
  <2> QED BY <1>1, <1>2, <2>2, <2>3, <2>4
<1>5. CASE \E mask \in SUBSET Lanes :
             pc[g] \in {"probe", "claim"} /\ TriesLanes(g, mask)
  <2>1. PICK mask \in SUBSET Lanes :
          pc[g] \in {"probe", "claim"} /\ TriesLanes(g, mask)
    BY <1>5
  <2>2. WordsOK'
    BY <1>1, <2>1 DEF WordsOK, TriesLanes
  <2>3. GroupsOK'
    BY SMTT(30), <1>1, <1>3, <2>1 DEF GroupsOK, TriesLanes, WordsOK
  <2>4. PassedTaken'
    BY <1>1, <2>1 DEF PassedTaken, TakenByOther, TriesLanes, WordsOK, LaneSlot
  <2> QED BY <1>1, <1>2, <2>2, <2>3, <2>4
<1>6. CASE \E mask \in SUBSET Lanes :
             pc[g] \in {"probe", "claim"} /\ MovesOn(g, mask)
  <2>1. PICK mask \in SUBSET Lanes :
          pc[g] \in {"probe", "claim"} /\ MovesOn(g, mask)
    BY <1>6
  <2>2. win[g] + 1 \in 0 .. NumWindows
    BY <1>3, <2>1, NumbersOfProbes
  <2>3. WordsOK'
    BY <1>1, <2>1, <2>2 DEF WordsOK, MovesOn
  <2>4. GroupsOK'
    BY <1>1, <1>3, <2>1 DEF GroupsOK, MovesOn, WordsOK
  <2>5. \A w \in Windows : \A r \in InsertLanes[w] :
          w < win[g] + 1 => TakenByOther(g, SlotAt(Home[op[g].key], w, r))
    <3> SUFFICES ASSUME NEW w \in Windows, NEW r \in InsertLanes[w], w < win[g] + 1
                 PROVE  TakenByOther(g, SlotAt(Home[op[g].key], w, r))
      OBVIOUS
    <3>1. w < win[g] \/ w = win[g]
      BY <1>3, <2>1, NumbersOfProbes
    <3>2. CASE w < win[g]
      BY <2>1, <3>2 DEF PassedTaken
    <3>3. CASE w = win[g]
      BY SMTT(30), <2>1, <3>3 DEF MovesOn, LaneSlot
    <3> QED BY <3>1, <3>2, <3>3
  <2>6. PassedTaken'
    BY <1>1, <2>1, <2>5 DEF PassedTaken, TakenByOther, MovesOn, WordsOK, LaneSlot
  <2> QED BY <1>1, <1>2, <2>3, <2>4, <2>6
<1> QED BY <1>4, <1>5, <1>6

\* A successful CAS: the key goes to the slot that every other place for it comes
\* after, and no other slot has it.
LEMMA PutPreserves ==
  ASSUME ProtocolInv, NEW g \in Groups, pc[g] = "claim", NEW r \in Lanes, PutsKey(g, r)
  PROVE  /\ ProtocolInv'
         /\ LaneSlot(g, r) \in Slots
         /\ op[g].key \in Keys \ {Sentinel}
         /\ \A s \in Slots : keyAt[0][s] # op[g].key
         /\ \A s \in Slots :
              keyAt'[0][s] = IF s = LaneSlot(g, r) THEN op[g].key ELSE keyAt[0][s]
<1> USE DEF ProtocolInv
<1> DEFINE k == op[g].key
           home == Home[k]
           w == win[g]
           new == LaneSlot(g, r)
<1>1. /\ k \in Keys /\ k # Sentinel /\ genome[k] # 0 /\ home \in Slots /\ new \in Slots
      /\ \A q \in Lanes : LaneSlot(g, q) \in Slots
      /\ w \in Windows /\ r \in InsertLanes[w]
  BY Operands DEF GroupsOK, PutsKey
<1>2. /\ keyAt[0][new] = Sentinel
      /\ UNCHANGED <<valAt, oldKeyAt, op, win, emptyMask, genome>>
      /\ addr' = [addr EXCEPT ![g] = new]
      /\ pc' = [pc EXCEPT ![g] = "store"]
  BY DEF PutsKey
<1>3. \A s \in Slots : keyAt'[0][s] = IF s = new THEN k ELSE keyAt[0][s]
  BY <1>1, OneTable DEF WordsOK, PutsKey
<1>4. \A v \in Windows : \A q \in InsertLanes[v] :
        Before(v, q, w, r) => TakenByOther(g, SlotAt(home, v, q))
  <2> SUFFICES ASSUME NEW v \in Windows, NEW q \in InsertLanes[v], Before(v, q, w, r)
               PROVE  TakenByOther(g, SlotAt(home, v, q))
    OBVIOUS
  <2>1. CASE v < w
    BY <2>1 DEF PassedTaken
  <2>2. CASE v = w /\ q < r
    <3>1. q \notin emptyMask[g]
      BY <2>2, NumbersOfProbes DEF PutsKey
    <3> QED BY <2>2, <3>1 DEF PassedTaken, LaneSlot
  <2> QED BY <2>1, <2>2 DEF Before
<1>5. \A s \in Slots : keyAt[0][s] # k
  <2> SUFFICES ASSUME NEW s \in Slots, keyAt[0][s] = k
               PROVE  FALSE
    OBVIOUS
  <2> DEFINE Here(v, q) ==
        /\ s = SlotAt(home, v, q)
        /\ \A x \in Windows : \A y \in InsertLanes[x] :
             Before(x, y, v, q) => keyAt[0][SlotAt(home, x, y)] # Sentinel
  <2>5. PICK v \in Windows : \E q \in InsertLanes[v] : Here(v, q)
    BY <1>1 DEF NoHoleInFront
  <2>6. PICK q \in InsertLanes[v] : Here(v, q)
    BY <2>5
  <2>1. /\ q \in InsertLanes[v] /\ q \in Lanes
        /\ s = SlotAt(home, v, q)
        /\ \A x \in Windows : \A y \in InsertLanes[x] :
             Before(x, y, v, q) => keyAt[0][SlotAt(home, x, y)] # Sentinel
    BY <2>6, NumbersOfProbes
  <2>2. ~Before(v, q, w, r)
    BY <1>4, <2>1 DEF TakenByOther
  <2>3. ~Before(w, r, v, q)
    BY <1>1, <1>2, <2>1 DEF LaneSlot
  <2>4. v = w /\ q = r
    BY <1>1, <2>2, <2>3, NumbersOfProbes DEF Before
  <2> QED BY <1>1, <1>2, <2>1, <2>4 DEF LaneSlot
<1>6. \A s \in Slots : keyAt[0][s] # Sentinel => keyAt'[0][s] = keyAt[0][s]
  BY <1>2, <1>3
<1>7. WordsOK'
  <2>1. keyAt' \in [Tables -> [Slots -> Keys \cup {Sentinel}]]
    BY <1>1 DEF WordsOK, PutsKey
  <2> QED BY <1>1, <1>2, <2>1 DEF WordsOK
<1>8. GroupsOK'
  <2> SUFFICES ASSUME NEW h \in Groups
               PROVE  /\ pc'[h] # "idle" => op[h].key \in Keys /\ genome[op[h].key] # 0
                      /\ pc'[h] \in {"probe", "claim"} => win[h] \in Windows
                      /\ pc'[h] = "claim" => op[h].key # Sentinel
                      /\ pc'[h] = "store" => \/ keyAt'[0][addr'[h]] = op[h].key
                                             \/ op[h].key = Sentinel
    BY <1>2 DEF GroupsOK
  <2>1. CASE h = g
    BY <1>1, <1>2, <1>3, <2>1 DEF WordsOK
  <2>2. CASE h # g
    <3>1. pc'[h] = pc[h] /\ addr'[h] = addr[h] /\ addr[h] \in Slots
      BY <1>2, <2>2 DEF WordsOK
    <3> QED BY <1>6, <3>1 DEF GroupsOK
  <2> QED BY <2>1, <2>2
<1>9. SlotsOK'
  BY <1>1, <1>2, <1>3 DEF SlotsOK
<1>10. PassedTaken'
  <2> SUFFICES ASSUME NEW h \in Groups, pc'[h] \in {"probe", "claim"}
               PROVE  /\ \A v \in Windows : \A q \in InsertLanes[v] :
                           v < win[h] => TakenByOther(h, SlotAt(Home[op[h].key], v, q))'
                      /\ pc'[h] = "claim" =>
                           \A q \in InsertLanes[win[h]] \ emptyMask[h] :
                             TakenByOther(h, LaneSlot(h, q))'
    BY <1>2 DEF PassedTaken, LaneSlot, TakenByOther
  <2>1. pc[h] = pc'[h]
    BY <1>2 DEF WordsOK
  <2>2. /\ \A v \in Windows : \A q \in InsertLanes[v] : SlotAt(Home[op[h].key], v, q) \in Slots
        /\ \A q \in InsertLanes[win[h]] : LaneSlot(h, q) \in Slots
    <3>1. /\ Home[op[h].key] \in Slots /\ \A q \in Lanes : LaneSlot(h, q) \in Slots
          /\ win[h] \in Windows
      BY <2>1, Operands DEF GroupsOK
    <3> QED BY <3>1, SlotAtIsSlot, NumbersOfProbes
  <2>3. \A s \in Slots : TakenByOther(h, s) => TakenByOther(h, s)'
    BY <1>2, <1>6 DEF TakenByOther
  <2>4. \A v \in Windows : \A q \in InsertLanes[v] :
          v < win[h] => TakenByOther(h, SlotAt(Home[op[h].key], v, q))
    BY <2>1 DEF PassedTaken
  <2>5. pc[h] = "claim" =>
          \A q \in InsertLanes[win[h]] \ emptyMask[h] : TakenByOther(h, LaneSlot(h, q))
    BY DEF PassedTaken
  <2>6. \A v \in Windows : \A q \in InsertLanes[v] :
          v < win[h] => TakenByOther(h, SlotAt(Home[op[h].key], v, q))'
    BY <1>2, <1>6, <2>2, <2>4 DEF TakenByOther
  <2>7. pc'[h] = "claim" =>
          \A q \in InsertLanes[win[h]] \ emptyMask[h] : TakenByOther(h, LaneSlot(h, q))'
    BY <1>2, <1>6, <2>1, <2>2, <2>5 DEF TakenByOther, LaneSlot
  <2> QED BY <2>6, <2>7
<1>11. NoHoleInFront'
  <2> SUFFICES ASSUME NEW s \in Slots, keyAt'[0][s] # Sentinel
               PROVE  \E v \in Windows : \E q \in InsertLanes[v] :
                        /\ s = SlotAt(Home[keyAt'[0][s]], v, q)
                        /\ \A x \in Windows : \A y \in InsertLanes[x] :
                             Before(x, y, v, q) =>
                               keyAt'[0][SlotAt(Home[keyAt'[0][s]], x, y)] # Sentinel
    BY DEF NoHoleInFront
  <2>1. Home[keyAt'[0][s]] \in Slots
    BY <1>1, <1>3, OneTable, InsertAssumption
  <2>2. \A x \in Windows : \A y \in InsertLanes[x] : SlotAt(Home[keyAt'[0][s]], x, y) \in Slots
    BY <2>1, SlotAtIsSlot, NumbersOfProbes
  <2>3. CASE s = new
    <3>1. keyAt'[0][s] = k /\ s = SlotAt(home, w, r)
      BY <1>1, <1>3, <2>3 DEF LaneSlot
    <3>2. \A x \in Windows : \A y \in InsertLanes[x] :
            Before(x, y, w, r) => keyAt'[0][SlotAt(home, x, y)] # Sentinel
      BY <1>4, <1>6, <2>2, <3>1 DEF TakenByOther
    <3>3. \A x \in Windows : \A y \in InsertLanes[x] :
            Before(x, y, w, r) => keyAt'[0][SlotAt(Home[keyAt'[0][s]], x, y)] # Sentinel
      BY <3>1, <3>2
    <3> QED BY <1>1, <3>1, <3>3
  <2>4. CASE s # new
    <3>1. keyAt'[0][s] = keyAt[0][s]
      BY <1>3, <2>4
    <3> DEFINE Here(v, q) ==
          /\ s = SlotAt(Home[keyAt[0][s]], v, q)
          /\ \A x \in Windows : \A y \in InsertLanes[x] :
               Before(x, y, v, q) => keyAt[0][SlotAt(Home[keyAt[0][s]], x, y)] # Sentinel
    <3>5. PICK v \in Windows : \E q \in InsertLanes[v] : Here(v, q)
      BY <3>1 DEF NoHoleInFront
    <3>2. PICK q \in InsertLanes[v] : Here(v, q)
      BY <3>5
    <3>3. \A x \in Windows : \A y \in InsertLanes[x] :
            Before(x, y, v, q) => keyAt'[0][SlotAt(Home[keyAt'[0][s]], x, y)] # Sentinel
      BY <1>6, <2>2, <3>1, <3>2
    <3> QED BY <3>1, <3>2, <3>3
  <2> QED BY <2>3, <2>4
<1>12. SlotsDiffer'
  BY <1>3, <1>5 DEF SlotsDiffer
<1> QED BY <1>1, <1>3, <1>5, <1>7, <1>8, <1>9, <1>10, <1>11, <1>12

\* Adding to a count does not disturb the protocol.
LEMMA AddPreserves ==
  ASSUME ProtocolInv, NEW g \in Groups, AddOne(g)
  PROVE  /\ ProtocolInv'
         /\ pc[g] = "store"
         /\ pc' = [pc EXCEPT ![g] = "idle"]
         /\ addr[g] \in Slots
         /\ UNCHANGED <<keyAt, op, genome>>
         /\ \A s \in Slots :
              valAt'[0][s] = IF s = addr[g] THEN valAt[0][s] + 1 ELSE valAt[0][s]
         /\ valAt'[0] = [valAt[0] EXCEPT ![addr[g]] = valAt[0][addr[g]] + 1]
<1> USE DEF ProtocolInv
<1>1. /\ pc[g] = "store"
      /\ pc' = [pc EXCEPT ![g] = "idle"]
      /\ valAt' = [valAt EXCEPT ![0][addr[g]] = valAt[0][addr[g]] + 1]
      /\ UNCHANGED <<keyAt, oldKeyAt, op, win, emptyMask, addr, genome>>
  BY DEF AddOne, GoTo
<1>2. addr[g] \in Slots /\ 0 \in Tables
  BY OneTable DEF WordsOK
<1>3. \A s \in Slots :
        valAt'[0][s] = IF s = addr[g] THEN valAt[0][s] + 1 ELSE valAt[0][s]
  BY <1>1, <1>2 DEF WordsOK
<1>4. valAt'[0] = [valAt[0] EXCEPT ![addr[g]] = valAt[0][addr[g]] + 1]
  BY <1>1, <1>2 DEF WordsOK
<1>5. WordsOK'
  <2>1. valAt[0][addr[g]] + 1 \in Nat
    BY <1>2, OneTable
  <2>2. valAt' \in [Tables -> [Slots -> Nat]]
    BY <1>1, <1>2, <2>1 DEF WordsOK
  <2> QED BY <1>1, <2>2 DEF WordsOK
<1>6. GroupsOK' /\ SlotsOK' /\ NoHoleInFront' /\ SlotsDiffer'
  BY <1>1 DEF GroupsOK, SlotsOK, NoHoleInFront, SlotsDiffer, WordsOK
<1>7. PassedTaken'
  BY <1>1 DEF PassedTaken, TakenByOther, LaneSlot, WordsOK
<1> QED BY <1>1, <1>2, <1>3, <1>4, <1>5, <1>6, <1>7

\* The host launches a batch when all groups are through.
LEMMA LaunchMoves ==
  ASSUME ProtocolInv, Launch
  PROVE  \E n \in Groups : \E batch \in [1 .. n -> Keys] :
           /\ Quiet
           /\ KmersSoFar + n <= MaxKmers
           /\ 1 .. n \subseteq Groups
           /\ \A g \in Groups : /\ pc'[g] = IF g \in 1 .. n THEN "probe" ELSE "idle"
                                /\ g \in 1 .. n => op'[g].key = batch[g]
           /\ genome' = [k \in Keys |-> genome[k] +
                                          Cardinality({g \in 1 .. n : batch[g] = k})]
           /\ UNCHANGED <<keyAt, valAt>>
           /\ ProtocolInv'
<1> USE DEF ProtocolInv
<1>1. /\ Quiet
      /\ win' = [g \in Groups |-> 0]
      /\ oldKeyAt' = keyAt
      /\ UNCHANGED <<keyAt, valAt, emptyMask, addr>>
  BY DEF Launch
<1>2. PICK n \in Groups :
        /\ KmersSoFar + n <= MaxKmers
        /\ \E batch \in [1 .. n -> Keys] :
             /\ op' = [g \in Groups |-> IF g <= n THEN Kmer(batch[g]) ELSE op[g]]
             /\ pc' = [g \in Groups |-> IF g <= n THEN "probe" ELSE "idle"]
             /\ genome' = [k \in Keys |-> genome[k] +
                                            Cardinality({g \in 1 .. n : batch[g] = k})]
  BY DEF Launch
<1>3. PICK batch \in [1 .. n -> Keys] :
        /\ op' = [g \in Groups |-> IF g <= n THEN Kmer(batch[g]) ELSE op[g]]
        /\ pc' = [g \in Groups |-> IF g <= n THEN "probe" ELSE "idle"]
        /\ genome' = [k \in Keys |-> genome[k] +
                                       Cardinality({g \in 1 .. n : batch[g] = k})]
  BY <1>2
<1>4. /\ n \in Nat
      /\ 1 .. n \subseteq Groups
      /\ \A g \in Groups : g <= n <=> g \in 1 .. n
  BY InsertAssumption DEF Groups
<1>5. \A g \in Groups :
        /\ pc'[g] = IF g \in 1 .. n THEN "probe" ELSE "idle"
        /\ g \in 1 .. n => op'[g] = Kmer(batch[g]) /\ op'[g].key = batch[g]
                           /\ batch[g] \in Keys
        /\ g \notin 1 .. n => op'[g] = op[g]
  BY <1>3, <1>4 DEF Kmer
<1>6. \A S \in SUBSET (1 .. n) : IsFiniteSet(S) /\ Cardinality(S) \in Nat
  <2>1. IsFiniteSet(1 .. n)
    BY <1>4, FS_Interval
  <2> QED BY <2>1, FS_Subset, FS_CardinalityType
<1>7. /\ genome' \in [Keys -> Nat]
      /\ \A k \in Keys : genome[k] # 0 => genome'[k] # 0
      /\ \A g \in 1 .. n : genome'[batch[g]] # 0
  <2>1. \A k \in Keys :
          /\ genome[k] \in Nat
          /\ Cardinality({g \in 1 .. n : batch[g] = k}) \in Nat
          /\ genome'[k] = genome[k] + Cardinality({g \in 1 .. n : batch[g] = k})
    BY <1>3, <1>6 DEF WordsOK
  <2>2. \A h \in 1 .. n : Cardinality({g \in 1 .. n : batch[g] = batch[h]}) # 0
    <3> SUFFICES ASSUME NEW h \in 1 .. n
                 PROVE  Cardinality({g \in 1 .. n : batch[g] = batch[h]}) # 0
      OBVIOUS
    <3>1. h \in {g \in 1 .. n : batch[g] = batch[h]}
      OBVIOUS
    <3> QED BY <1>6, <3>1, FS_EmptySet
  <2>3. \A k \in Keys : genome'[k] \in Nat /\ (genome[k] # 0 => genome'[k] # 0)
    <3> SUFFICES ASSUME NEW k \in Keys
                 PROVE  genome'[k] \in Nat /\ (genome[k] # 0 => genome'[k] # 0)
      OBVIOUS
    <3> DEFINE c == Cardinality({g \in 1 .. n : batch[g] = k})
    <3>1. genome[k] \in Nat /\ c \in Nat /\ genome'[k] = genome[k] + c
      BY <2>1
    <3> HIDE DEF c
    <3> QED BY <3>1
  <2>4. \A g \in 1 .. n : genome'[batch[g]] # 0
    <3> SUFFICES ASSUME NEW g \in 1 .. n
                 PROVE  genome'[batch[g]] # 0
      OBVIOUS
    <3> DEFINE c == Cardinality({h \in 1 .. n : batch[h] = batch[g]})
    <3>1. batch[g] \in Keys
      OBVIOUS
    <3>2. genome[batch[g]] \in Nat /\ c \in Nat /\ genome'[batch[g]] = genome[batch[g]] + c
      BY <2>1, <3>1
    <3>3. c # 0
      BY <2>2
    <3> HIDE DEF c
    <3> QED BY <3>2, <3>3
  <2> QED BY <1>3, <2>3, <2>4
<1>8. WordsOK'
  <2>1. op' \in [Groups -> {Kmer(k) : k \in Keys \cup {Sentinel}}]
    <3>1. \A g \in Groups : op'[g] \in {Kmer(k) : k \in Keys \cup {Sentinel}}
      BY <1>5 DEF WordsOK
    <3> QED BY <1>3, <3>1
  <2>2. pc' \in [Groups -> {"idle", "probe", "claim", "store"}]
    BY <1>3
  <2>3. win' \in [Groups -> 0 .. NumWindows]
    BY <1>1, NumbersOfProbes
  <2> QED BY <1>1, <1>7, <2>1, <2>2, <2>3 DEF WordsOK
<1>9. GroupsOK'
  BY <1>1, <1>5, <1>7, NumbersOfProbes DEF GroupsOK
<1>10. SlotsOK'
  <2>1. \A s \in Slots : keyAt[0][s] # Sentinel => keyAt[0][s] \in Keys
    BY OneTable
  <2> QED BY <1>1, <1>7, <2>1 DEF SlotsOK
<1>11. PassedTaken'
  <2>1. \A g \in Groups : pc'[g] # "claim" /\ win'[g] = 0
    BY <1>1, <1>5
  <2>2. \A w \in Windows : ~(w < 0)
    BY NumbersOfProbes
  <2> QED BY <2>1, <2>2 DEF PassedTaken
<1>12. NoHoleInFront' /\ SlotsDiffer'
  BY <1>1 DEF NoHoleInFront, SlotsDiffer
<1> QED BY <1>1, <1>2, <1>3, <1>4, <1>5, <1>8, <1>9, <1>10, <1>11, <1>12

-----------------------------------------------------------------------------
(* The counts. *)

\* The groups of a kernel are finitely many.
LEMMA GroupsAreFinite ==
  \A S \in SUBSET Groups : IsFiniteSet(S) /\ Cardinality(S) \in Nat
<1>1. IsFiniteSet(Groups)
  BY InsertAssumption, FS_Interval DEF Groups
<1> QED BY <1>1, FS_Subset, FS_CardinalityType

\* The slots are finitely many, and so their counts have a sum.
LEMMA CountsAreSummable ==
  ASSUME WordsOK
  PROVE  /\ IsFiniteSet(Slots) /\ valAt[0] \in [Slots -> Nat]
         /\ IsFiniteSet(Keys) /\ genome \in [Keys -> Nat]
<1>1. IsFiniteSet(Slots)
  BY NumbersOfProbes, NumbersBelow DEF Slots
<1> QED BY <1>1, KmerConstants DEF WordsOK

\* A step that neither writes nor ends a group leaves the counts right.
LEMMA CountsUnchanged ==
  ASSUME CountsOK, SumsOK, UNCHANGED <<keyAt, valAt, op, genome>>,
         \A h \in Groups : pc'[h] = "idle" <=> pc[h] = "idle"
  PROVE  CountsOK' /\ SumsOK'
<1>1. /\ \A k : StillToCount(k)' = StillToCount(k)
      /\ {g \in Groups : pc'[g] # "idle"} = {g \in Groups : pc[g] # "idle"}
  BY DEF StillToCount
<1>2. CountsOK'
  BY <1>1 DEF CountsOK, Pending, PolyA
<1>3. SumsOK'
  BY <1>1 DEF SumsOK, EveryKmerAddsOne, KmersSoFar
<1> QED BY <1>2, <1>3

\* A k-mer gets its slot: what was on it is what poly-A k-mers have added, and none
\* of the k-mer's own occurrences has been counted.
LEMMA PutCounts ==
  ASSUME KmerInv, NEW g \in Groups, pc[g] = "claim", NEW r \in Lanes, PutsKey(g, r)
  PROVE  CountsOK' /\ SumsOK'
<1> DEFINE k == op[g].key
           new == LaneSlot(g, r)
<1>1. /\ new \in Slots /\ k \in Keys \ {Sentinel}
      /\ \A s \in Slots : keyAt[0][s] # k
      /\ \A s \in Slots : keyAt'[0][s] = IF s = new THEN k ELSE keyAt[0][s]
  BY PutPreserves DEF KmerInv
<1>2. /\ UNCHANGED <<valAt, op, genome>>
      /\ pc' = [pc EXCEPT ![g] = "store"]
      /\ keyAt[0][new] = Sentinel
  BY DEF PutsKey
<1>3. \A h \in Groups : pc'[h] = "idle" <=> pc[h] = "idle"
  BY <1>2 DEF KmerInv, ProtocolInv, WordsOK
<1>4. /\ \A j : StillToCount(j)' = StillToCount(j)
      /\ {h \in Groups : pc'[h] # "idle"} = {h \in Groups : pc[h] # "idle"}
  BY <1>2, <1>3 DEF StillToCount
<1>5. \A j : Pending(j)' = Pending(j) /\ Pending(j) \in Nat
  BY <1>4, GroupsAreFinite DEF Pending, StillToCount
<1>6. PolyA' = PolyA
  BY <1>2 DEF PolyA
<1>7. SumsOK'
  BY <1>2, <1>4 DEF KmerInv, SumsOK, EveryKmerAddsOne, KmersSoFar
<1>8. genome[k] = Pending(k)
  BY <1>1 DEF KmerInv, CountsOK
<1>9. valAt[0][new] \in Nat /\ PolyA \in Nat /\ valAt[0][new] + Pending(Sentinel) <= PolyA
  <2>1. PolyA \in Nat
    BY DEF PolyA, KmerInv, ProtocolInv, WordsOK
  <2> QED BY <1>1, <1>2, <2>1, OneTable DEF KmerInv, ProtocolInv, CountsOK
<1>10. CountsOK'
  <2>1. \A s \in Slots :
          IF keyAt'[0][s] = Sentinel THEN valAt[0][s] + Pending(Sentinel) <= PolyA
          ELSE /\ genome[keyAt'[0][s]] <= valAt[0][s] + Pending(keyAt'[0][s])
               /\ valAt[0][s] + Pending(keyAt'[0][s]) + Pending(Sentinel)
                    <= genome[keyAt'[0][s]] + PolyA
    <3> SUFFICES ASSUME NEW s \in Slots
                 PROVE  IF keyAt'[0][s] = Sentinel
                          THEN valAt[0][s] + Pending(Sentinel) <= PolyA
                          ELSE /\ genome[keyAt'[0][s]] <= valAt[0][s] + Pending(keyAt'[0][s])
                               /\ valAt[0][s] + Pending(keyAt'[0][s]) + Pending(Sentinel)
                                    <= genome[keyAt'[0][s]] + PolyA
      OBVIOUS
    <3>1. CASE s = new
      <4>1. keyAt'[0][s] = k /\ k # Sentinel
        BY <1>1, <3>1
      <4>2. /\ genome[k] <= valAt[0][new] + Pending(k)
            /\ valAt[0][new] + Pending(k) + Pending(Sentinel) <= genome[k] + PolyA
        BY <1>5, <1>8, <1>9
      <4> QED BY <3>1, <4>1, <4>2
    <3>2. CASE s # new
      <4>1. keyAt'[0][s] = keyAt[0][s]
        BY <1>1, <3>2
      <4> QED BY <4>1 DEF KmerInv, CountsOK
    <3> QED BY <3>1, <3>2
  <2>2. \A j \in Keys \ {Sentinel} :
          (\A s \in Slots : keyAt'[0][s] # j) => genome[j] = Pending(j)
    <3>1. ASSUME NEW j \in Keys \ {Sentinel}, \A s \in Slots : keyAt'[0][s] # j
          PROVE  \A s \in Slots : keyAt[0][s] # j
      BY <1>1, <1>2, <3>1
    <3> QED BY <3>1 DEF KmerInv, CountsOK
  <2>3. \A j : Pending(j)' = Pending(j)
    BY <1>5
  <2> QED BY <1>2, <1>6, <2>1, <2>2, <2>3 DEF CountsOK
<1> QED BY <1>7, <1>10

\* The atomicAdd: an occurrence of a k-mer that is no longer to come is in the count
\* of its slot; a poly-A k-mer is in the count of some slot.
LEMMA AddCounts ==
  ASSUME KmerInv, NEW g \in Groups, AddOne(g)
  PROVE  CountsOK' /\ SumsOK'
<1> DEFINE k == op[g].key
           a == addr[g]
<1>1. /\ pc[g] = "store"
      /\ pc' = [pc EXCEPT ![g] = "idle"]
      /\ a \in Slots
      /\ UNCHANGED <<keyAt, op, genome>>
      /\ \A s \in Slots : valAt'[0][s] = IF s = a THEN valAt[0][s] + 1 ELSE valAt[0][s]
      /\ valAt'[0] = [valAt[0] EXCEPT ![a] = valAt[0][a] + 1]
  BY AddPreserves DEF KmerInv
<1>2. k \in Keys
  BY <1>1 DEF KmerInv, ProtocolInv, GroupsOK
<1>3. \A h \in Groups : pc'[h] # "idle" <=> pc[h] # "idle" /\ h # g
  BY <1>1 DEF KmerInv, ProtocolInv, WordsOK
<1>4. /\ \A j : StillToCount(j)' = IF j = k THEN StillToCount(k) \ {g} ELSE StillToCount(j)
      /\ g \in StillToCount(k)
      /\ {h \in Groups : pc'[h] # "idle"} = {h \in Groups : pc[h] # "idle"} \ {g}
      /\ g \in {h \in Groups : pc[h] # "idle"}
  BY <1>1, <1>3 DEF StillToCount
<1>5. /\ \A j : Pending(j) \in Nat
      /\ \A j : Pending(j)' = IF j = k THEN Pending(j) - 1 ELSE Pending(j)
      /\ Pending(k) - 1 \in Nat
  <2>1. \A j : StillToCount(j) \in SUBSET Groups
    BY DEF StillToCount
  <2>2. /\ Cardinality(StillToCount(k) \ {g}) = Cardinality(StillToCount(k)) - 1
        /\ Cardinality(StillToCount(k) \ {g}) \in Nat
    BY <1>4, <2>1, GroupsAreFinite, FS_RemoveElement
  <2>3. \A j : /\ Pending(j) = Cardinality(StillToCount(j))
               /\ Pending(j)' = Cardinality(StillToCount(j)')
    BY DEF Pending
  <2>4. \A j : Pending(j) \in Nat
    BY <2>1, <2>3, GroupsAreFinite
  <2>5. \A j : Pending(j)' = IF j = k THEN Pending(j) - 1 ELSE Pending(j)
    BY <1>4, <2>2, <2>3
  <2> QED BY <2>2, <2>3, <2>4, <2>5
<1>6. PolyA' = PolyA /\ PolyA \in Nat
  BY <1>1 DEF PolyA, KmerInv, ProtocolInv, WordsOK
<1>7. \A s \in Slots : valAt[0][s] \in Nat
  BY OneTable DEF KmerInv, ProtocolInv
<1>8. \A j \in Keys : genome[j] \in Nat
  BY DEF KmerInv, ProtocolInv, WordsOK
<1>9. \A s \in Slots :
        IF keyAt[0][s] = Sentinel THEN valAt'[0][s] + Pending(Sentinel)' <= PolyA
        ELSE /\ genome[keyAt[0][s]] <= valAt'[0][s] + Pending(keyAt[0][s])'
             /\ valAt'[0][s] + Pending(keyAt[0][s])' + Pending(Sentinel)'
                  <= genome[keyAt[0][s]] + PolyA
  <2> SUFFICES ASSUME NEW s \in Slots
               PROVE  IF keyAt[0][s] = Sentinel
                        THEN valAt'[0][s] + Pending(Sentinel)' <= PolyA
                        ELSE /\ genome[keyAt[0][s]] <= valAt'[0][s] + Pending(keyAt[0][s])'
                             /\ valAt'[0][s] + Pending(keyAt[0][s])' + Pending(Sentinel)'
                                  <= genome[keyAt[0][s]] + PolyA
    OBVIOUS
  <2>1. IF keyAt[0][s] = Sentinel THEN valAt[0][s] + Pending(Sentinel) <= PolyA
        ELSE /\ genome[keyAt[0][s]] <= valAt[0][s] + Pending(keyAt[0][s])
             /\ valAt[0][s] + Pending(keyAt[0][s]) + Pending(Sentinel)
                  <= genome[keyAt[0][s]] + PolyA
    BY DEF KmerInv, CountsOK
  <2>2. keyAt[0][s] # Sentinel => keyAt[0][s] \in Keys
    BY OneTable DEF KmerInv, ProtocolInv
  <2> DEFINE j == keyAt[0][s]
             v == valAt[0][s]
             p == Pending(j)
             z == Pending(Sentinel)
  <2>3. v \in Nat /\ p \in Nat /\ z \in Nat /\ PolyA \in Nat
        /\ (j # Sentinel => genome[j] \in Nat)
    BY <1>5, <1>6, <1>7, <1>8, <2>2
  <2>4. CASE k # Sentinel
    <3>1. keyAt[0][a] = k
      BY <1>1, <2>4 DEF KmerInv, ProtocolInv, GroupsOK
    <3>2. z = Pending(Sentinel)'
      BY <1>5, <2>4
    <3>3. CASE s = a
      <4>1. j = k /\ valAt'[0][s] = v + 1 /\ Pending(j)' = p - 1
        BY <1>1, <1>5, <3>1, <3>3
      <4> HIDE DEF j, v, p, z
      <4>2. v + 1 + (p - 1) = v + p
        BY <2>3
      <4> QED BY <2>1, <2>3, <2>4, <3>2, <4>1, <4>2 DEF j, v, p, z
    <3>4. CASE s # a
      <4>1. j # k
        BY <1>1, <2>4, <3>1, <3>4 DEF KmerInv, ProtocolInv, SlotsDiffer
      <4>2. valAt'[0][s] = v /\ Pending(j)' = p
        BY <1>1, <1>5, <3>4, <4>1
      <4> QED BY <2>1, <3>2, <4>2
    <3> QED BY <3>3, <3>4
  <2>5. CASE k = Sentinel
    <3>1. Pending(Sentinel)' = z - 1 /\ z - 1 \in Nat
      BY <1>5, <2>5
    <3>2. j # Sentinel => Pending(j)' = p
      BY <1>1, <1>5, <2>5
    <3>3. valAt'[0][s] = v \/ valAt'[0][s] = v + 1
      BY <1>1
    <3>4. j = Sentinel => v + z <= PolyA
      BY <2>1
    <3>5. j # Sentinel => genome[j] <= v + p /\ v + p + z <= genome[j] + PolyA
      BY <2>1
    <3> HIDE DEF j, v, p, z
    <3>6. j = Sentinel => valAt'[0][s] + Pending(Sentinel)' <= PolyA
      BY <2>3, <3>1, <3>3, <3>4
    <3>7. j # Sentinel => /\ genome[j] <= valAt'[0][s] + Pending(j)'
                          /\ valAt'[0][s] + Pending(j)' + Pending(Sentinel)'
                               <= genome[j] + PolyA
      <4> SUFFICES ASSUME j # Sentinel
                   PROVE  /\ genome[j] <= valAt'[0][s] + p
                          /\ valAt'[0][s] + p + (z - 1) <= genome[j] + PolyA
        BY <3>1, <3>2
      <4>1. genome[j] \in Nat /\ genome[j] <= v + p /\ v + p + z <= genome[j] + PolyA
        BY <2>3, <3>5
      <4> QED BY <2>3, <3>1, <3>3, <4>1
    <3> QED BY <3>6, <3>7 DEF j
  <2> QED BY <2>4, <2>5
<1>10. ASSUME NEW j \in Keys \ {Sentinel}, \A s \in Slots : keyAt[0][s] # j
       PROVE  genome[j] = Pending(j)'
  <2>1. j # k
    BY <1>1, <1>10 DEF KmerInv, ProtocolInv, GroupsOK
  <2> QED BY <1>5, <1>10, <2>1 DEF KmerInv, CountsOK
<1>11. CountsOK'
  BY <1>1, <1>6, <1>9, <1>10 DEF CountsOK
<1>12. SumsOK'
  <2> DEFINE busy == {h \in Groups : pc[h] # "idle"}
  <2>1. SumFunction(valAt'[0]) = SumFunction(valAt[0]) + 1 /\ SumFunction(valAt[0]) \in Nat
    BY <1>1, CountsAreSummable, SumPlusOne, SumBoundsTerms DEF KmerInv, ProtocolInv
  <2>2. Cardinality(busy \ {g}) = Cardinality(busy) - 1 /\ Cardinality(busy) \in Nat
    <3>1. busy \in SUBSET Groups /\ g \in busy
      BY <1>4
    <3> HIDE DEF busy
    <3> QED BY <3>1, GroupsAreFinite, FS_RemoveElement
  <2>3. KmersSoFar' = KmersSoFar
    BY <1>1 DEF KmersSoFar
  <2>4. KmersSoFar <= MaxKmers /\ SumFunction(valAt[0]) + Cardinality(busy) = KmersSoFar
    BY DEF KmerInv, SumsOK, EveryKmerAddsOne
  <2>5. {h \in Groups : pc'[h] # "idle"} = busy \ {g}
    BY <1>4
  <2> HIDE DEF busy
  <2>6. SumFunction(valAt'[0]) + Cardinality(busy \ {g}) = KmersSoFar
    BY <2>1, <2>2, <2>4
  <2> QED BY <2>3, <2>4, <2>5, <2>6 DEF SumsOK, EveryKmerAddsOne
<1> QED BY <1>11, <1>12

\* A batch: its occurrences are all still to come.
LEMMA LaunchCounts ==
  ASSUME KmerInv, Launch
  PROVE  ProtocolInv' /\ CountsOK' /\ SumsOK'
<1>0. PICK n \in Groups :
         \E batch \in [1 .. n -> Keys] :
           /\ Quiet
           /\ KmersSoFar + n <= MaxKmers
           /\ 1 .. n \subseteq Groups
           /\ \A g \in Groups : /\ pc'[g] = IF g \in 1 .. n THEN "probe" ELSE "idle"
                                /\ g \in 1 .. n => op'[g].key = batch[g]
           /\ genome' = [k \in Keys |-> genome[k] +
                                          Cardinality({g \in 1 .. n : batch[g] = k})]
           /\ UNCHANGED <<keyAt, valAt>>
           /\ ProtocolInv'
  BY LaunchMoves DEF KmerInv
<1>1. PICK batch \in [1 .. n -> Keys] :
        /\ Quiet
        /\ KmersSoFar + n <= MaxKmers
        /\ 1 .. n \subseteq Groups
        /\ \A g \in Groups : /\ pc'[g] = IF g \in 1 .. n THEN "probe" ELSE "idle"
                             /\ g \in 1 .. n => op'[g].key = batch[g]
        /\ genome' = [k \in Keys |-> genome[k] +
                                       Cardinality({g \in 1 .. n : batch[g] = k})]
        /\ UNCHANGED <<keyAt, valAt>>
        /\ ProtocolInv'
  BY <1>0
<1> DEFINE new(k) == Cardinality({g \in 1 .. n : batch[g] = k})
           more == [k \in Keys |-> Cardinality({g \in 1 .. n : batch[g] = k})]
<1>2. n \in Nat /\ IsFiniteSet(1 .. n) /\ Cardinality(1 .. n) = n
  BY InsertAssumption, FS_Interval DEF Groups
<1>3. \A k : StillToCount(k) = {} /\ StillToCount(k)' = {g \in 1 .. n : batch[g] = k}
  BY <1>1 DEF StillToCount, Quiet
<1>4. \A k : Pending(k) = 0 /\ Pending(k)' = new(k) /\ new(k) \in Nat
  <2>1. \A k : {g \in 1 .. n : batch[g] = k} \in SUBSET Groups
    BY <1>1
  <2> QED BY <1>3, <2>1, FS_EmptySet, GroupsAreFinite DEF Pending
<1>5. /\ \A k \in Keys : genome[k] \in Nat /\ genome'[k] = genome[k] + new(k)
      /\ \A s \in Slots : valAt[0][s] \in Nat
      /\ \A s \in Slots : keyAt[0][s] # Sentinel => keyAt[0][s] \in Keys
      /\ PolyA \in Nat
      /\ PolyA' = PolyA + new(Sentinel)
  <2>1. \A k \in Keys : genome[k] \in Nat /\ genome'[k] = genome[k] + new(k)
    BY <1>1 DEF KmerInv, ProtocolInv, WordsOK
  <2>2. \A s \in Slots : /\ valAt[0][s] \in Nat
                         /\ keyAt[0][s] # Sentinel => keyAt[0][s] \in Keys
    BY OneTable DEF KmerInv, ProtocolInv
  <2>3. PolyA \in Nat /\ PolyA' = PolyA + new(Sentinel)
    <3>1. CASE Sentinel \in Keys
      BY <2>1, <3>1 DEF PolyA
    <3>2. CASE Sentinel \notin Keys
      <4>1. {g \in 1 .. n : batch[g] = Sentinel} = {}
        BY <3>2
      <4>2. new(Sentinel) = 0
        BY <4>1, FS_EmptySet
      <4>3. PolyA = 0 /\ PolyA' = 0
        BY <3>2 DEF PolyA
      <4> QED BY <4>2, <4>3
    <3> QED BY <3>1, <3>2
  <2> QED BY <2>1, <2>2, <2>3
<1>6. CountsOK'
  <2> HIDE DEF new
  <2>1. \A s \in Slots :
          IF keyAt[0][s] = Sentinel
            THEN valAt[0][s] + new(Sentinel) <= PolyA + new(Sentinel)
            ELSE /\ genome'[keyAt[0][s]] <= valAt[0][s] + new(keyAt[0][s])
                 /\ valAt[0][s] + new(keyAt[0][s]) + new(Sentinel)
                      <= genome'[keyAt[0][s]] + (PolyA + new(Sentinel))
    <3> SUFFICES ASSUME NEW s \in Slots
                 PROVE  IF keyAt[0][s] = Sentinel
                          THEN valAt[0][s] + new(Sentinel) <= PolyA + new(Sentinel)
                          ELSE /\ genome'[keyAt[0][s]] <= valAt[0][s] + new(keyAt[0][s])
                               /\ valAt[0][s] + new(keyAt[0][s]) + new(Sentinel)
                                    <= genome'[keyAt[0][s]] + (PolyA + new(Sentinel))
      OBVIOUS
    <3>1. IF keyAt[0][s] = Sentinel THEN valAt[0][s] + 0 <= PolyA
          ELSE /\ genome[keyAt[0][s]] <= valAt[0][s] + 0
               /\ valAt[0][s] + 0 + 0 <= genome[keyAt[0][s]] + PolyA
      BY <1>4 DEF KmerInv, CountsOK
    <3>2. CASE keyAt[0][s] = Sentinel
      BY <1>4, <1>5, <3>1, <3>2
    <3>3. CASE keyAt[0][s] # Sentinel
      <4> DEFINE k == keyAt[0][s]
      <4>1. /\ genome[k] \in Nat /\ genome'[k] = genome[k] + new(k)
            /\ valAt[0][s] \in Nat /\ new(k) \in Nat /\ new(Sentinel) \in Nat
            /\ PolyA \in Nat
        BY <1>4, <1>5, <3>3
      <4>2. genome[k] <= valAt[0][s] /\ valAt[0][s] <= genome[k] + PolyA
        BY <3>1, <3>3, <4>1
      <4> HIDE DEF k
      <4>3. /\ genome'[k] <= valAt[0][s] + new(k)
            /\ valAt[0][s] + new(k) + new(Sentinel)
                 <= genome'[k] + (PolyA + new(Sentinel))
        BY <4>1, <4>2
      <4> QED BY <3>3, <4>3 DEF k
    <3> QED BY <3>2, <3>3
  <2>2. ASSUME NEW j \in Keys \ {Sentinel}, \A s \in Slots : keyAt[0][s] # j
        PROVE  genome'[j] = new(j)
    <3>1. genome[j] = 0
      BY <1>4, <2>2 DEF KmerInv, CountsOK
    <3> QED BY <1>4, <1>5, <3>1
  <2> QED BY <1>1, <1>4, <1>5, <2>1, <2>2 DEF CountsOK
<1>7. SumsOK'
  <2>1. /\ IsFiniteSet(Keys) /\ genome \in [Keys -> Nat]
        /\ more \in [Keys -> Nat]
    BY <1>4, CountsAreSummable DEF KmerInv, ProtocolInv
  <2>2. SumFunction(more) = n
    <3>1. \A k \in Keys : more[k] = Cardinality(Having(1 .. n, batch, k))
      BY DEF Having
    <3> HIDE DEF more
    <3> QED BY <1>2, <2>1, <3>1, SumOfCounts
  <2>3. genome' = [k \in Keys |-> genome[k] + more[k]]
    BY <1>1
  <2> HIDE DEF more
  <2>4. KmersSoFar' = KmersSoFar + n
    BY <2>1, <2>2, <2>3, SumOfSums DEF KmersSoFar
  <2>5. {g \in Groups : pc'[g] # "idle"} = 1 .. n
    BY <1>1
  <2>6. {g \in Groups : pc[g] # "idle"} = {}
    BY <1>1 DEF Quiet
  <2>7. SumFunction(valAt[0]) = KmersSoFar
    <3>1. SumFunction(valAt[0]) + 0 = KmersSoFar
      BY <2>6, FS_EmptySet DEF KmerInv, SumsOK, EveryKmerAddsOne
    <3>2. SumFunction(valAt[0]) \in Nat
      BY CountsAreSummable, SumBoundsTerms DEF KmerInv, ProtocolInv
    <3> QED BY <3>1, <3>2
  <2> QED BY <1>1, <1>2, <2>4, <2>5, <2>7 DEF SumsOK, EveryKmerAddsOne
<1> QED BY <1>1, <1>6, <1>7

-----------------------------------------------------------------------------
(* The theorems. *)

\* An empty table and an empty genome.
LEMMA KmerInit == Init => KmerInv
<1> SUFFICES ASSUME Init PROVE KmerInv
  OBVIOUS
<1>1. /\ 0 \in Tables /\ 0 \in Slots
      /\ \A s \in Slots : /\ keyAt[0][s] = Sentinel /\ valAt[0][s] = 0
                          /\ oldKeyAt[0][s] = Sentinel
      /\ \A g \in Groups : pc[g] = "idle"
      /\ \A k \in Keys : genome[k] = 0
  BY NumbersOfProbes, KmerConstants DEF Init, Sentinel
<1>2. WordsOK
  BY NumbersOfProbes DEF Init, WordsOK, Sentinel
<1>3. GroupsOK /\ SlotsOK /\ PassedTaken /\ NoHoleInFront /\ SlotsDiffer
  BY <1>1 DEF GroupsOK, SlotsOK, PassedTaken, NoHoleInFront, SlotsDiffer
<1>4. \A k : Pending(k) = 0
  <2>1. \A k : StillToCount(k) = {}
    BY <1>1 DEF StillToCount
  <2> QED BY <2>1, FS_EmptySet DEF Pending
<1>5. CountsOK
  <2>1. PolyA \in Nat
    BY <1>1 DEF PolyA
  <2> QED BY <1>1, <1>4, <2>1 DEF CountsOK
<1>6. SumsOK
  <2>1. SumFunction(valAt[0]) = 0 /\ KmersSoFar = 0
    BY <1>1, <1>2, CountsAreSummable, SumOfZeros DEF KmersSoFar
  <2>2. {g \in Groups : pc[g] # "idle"} = {}
    BY <1>1
  <2> QED BY <2>1, <2>2, FS_EmptySet, KmerConstants DEF SumsOK, EveryKmerAddsOne
<1> QED BY <1>2, <1>3, <1>5, <1>6 DEF KmerInv, ProtocolInv

\* Every step of a group and of the host preserves the invariant.
LEMMA KmerPreserved == KmerInv /\ [Next]_vars => KmerInv'
<1> SUFFICES ASSUME KmerInv, [Next]_vars PROVE KmerInv'
  OBVIOUS
<1>1. CASE Launch
  BY <1>1, LaunchCounts DEF KmerInv
<1>2. ASSUME NEW g \in Groups, InsertBallot(g)
      PROVE  KmerInv'
  <2>1. /\ pc[g] = "probe"
        /\ \/ \E s \in Slots : GetsAddress(g, s)
           \/ \E mask \in SUBSET Lanes : TriesLanes(g, mask) \/ MovesOn(g, mask)
    BY <1>2, BallotMoves DEF KmerInv, SumsOK
  <2>2. ProtocolInv' /\ UNCHANGED <<keyAt, valAt, op, genome>>
        /\ \A h \in Groups : pc'[h] = "idle" <=> pc[h] = "idle"
    BY <2>1, MovePreserves DEF KmerInv
  <2> QED BY <2>2, CountsUnchanged DEF KmerInv
<1>3. ASSUME NEW g \in Groups, InsertClaim(g)
      PROVE  KmerInv'
  <2>1. /\ pc[g] = "claim"
        /\ \/ \E s \in Slots : GetsAddress(g, s)
           \/ \E mask \in SUBSET Lanes : TriesLanes(g, mask) \/ MovesOn(g, mask)
           \/ \E r \in Lanes : PutsKey(g, r)
    BY <1>3, ClaimMoves DEF KmerInv, SumsOK
  <2>2. CASE \E r \in Lanes : PutsKey(g, r)
    BY <2>1, <2>2, PutPreserves, PutCounts DEF KmerInv
  <2>3. CASE ~ \E r \in Lanes : PutsKey(g, r)
    <3>1. ProtocolInv' /\ UNCHANGED <<keyAt, valAt, op, genome>>
          /\ \A h \in Groups : pc'[h] = "idle" <=> pc[h] = "idle"
      BY <2>1, <2>3, MovePreserves DEF KmerInv
    <3> QED BY <3>1, CountsUnchanged DEF KmerInv
  <2> QED BY <2>2, <2>3
<1>4. ASSUME NEW g \in Groups, AddOne(g)
      PROVE  KmerInv'
  BY <1>4, AddPreserves, AddCounts DEF KmerInv
<1>5. CASE UNCHANGED vars
  <2>1. UNCHANGED <<keyAt, valAt, oldKeyAt, pc, op, win, emptyMask, addr, genome>>
    BY <1>5 DEF vars, insertVars
  <2>2. ProtocolInv'
    BY <2>1 DEF KmerInv, ProtocolInv, WordsOK, GroupsOK, SlotsOK, PassedTaken,
                TakenByOther, LaneSlot, NoHoleInFront, SlotsDiffer
  <2> QED BY <2>1, <2>2, CountsUnchanged DEF KmerInv
<1> QED BY <1>1, <1>2, <1>3, <1>4, <1>5 DEF Next, GroupStep, Finished

\* At every step of every batch the table is one the insertion protocol can have
\* made, and its counts are accounted for (kmer_insert on gpu_impl_UVM_CG_kmer.cuh).
THEOREM KmerInvariant == Spec => []KmerInv
BY KmerInit, KmerPreserved, PTL DEF Spec

\* Words, registers and counts stay in their domains; no count, poly-A or not, gets
\* beyond the k-mers of the genome (the atomicAdd of the insert kernel).
THEOREM TypeCorrect == Spec => []TypeOK
<1>1. KmerInv => TypeOK
  <2> SUFFICES ASSUME KmerInv PROVE TypeOK
    OBVIOUS
  <2>1. WordsOK /\ KmersSoFar <= MaxKmers /\ MaxKmers \in Nat
    BY KmerConstants DEF KmerInv, ProtocolInv, SumsOK
  <2>2. /\ KmersSoFar \in Nat
        /\ \A k \in Keys : genome[k] <= KmersSoFar
    BY <2>1, CountsAreSummable, SumBoundsTerms DEF KmersSoFar
  <2>3. /\ SumFunction(valAt[0]) \in Nat
        /\ \A s \in Slots : valAt[0][s] <= SumFunction(valAt[0])
    BY <2>1, CountsAreSummable, SumBoundsTerms
  <2>4. SumFunction(valAt[0]) <= KmersSoFar
    <3>1. Cardinality({g \in Groups : pc[g] # "idle"}) \in Nat
      BY GroupsAreFinite
    <3>2. SumFunction(valAt[0]) + Cardinality({g \in Groups : pc[g] # "idle"}) = KmersSoFar
      BY DEF KmerInv, SumsOK, EveryKmerAddsOne
    <3> QED BY <2>2, <2>3, <3>1, <3>2
  <2>5. genome \in [Keys -> 0 .. MaxKmers]
    BY <2>1, <2>2 DEF WordsOK
  <2>6. valAt \in [Tables -> [Slots -> 0 .. MaxKmers]]
    <3>1. \A s \in Slots : valAt[0][s] \in 0 .. MaxKmers
      BY <2>1, <2>2, <2>3, <2>4, OneTable
    <3>2. Tables = {0} /\ valAt \in [Tables -> [Slots -> Nat]]
      BY <2>1, KmerConstants DEF WordsOK
    <3> QED BY <3>1, <3>2
  <2>7. Keys \cup {Sentinel} \subseteq KeyWords
    BY DEF KeyWords
  <2> QED BY <2>1, <2>5, <2>6, <2>7 DEF TypeOK, WordsOK
<1> QED BY <1>1, KmerInvariant, PTL

\* The count of a k-mer is that of its occurrences, less those whose group is on its
\* way, and too high by no more than the poly-A k-mers, at all times and however the
\* groups race for the slots (the insert kernel, its ballots, CASes and atomicAdds).
THEOREM CountsAreRight == Spec => []CountsAreExact
<1>1. KmerInv => CountsAreExact
  <2> SUFFICES ASSUME KmerInv, NEW k \in Keys \ {Sentinel}
               PROVE  LET pending == Cardinality(StillToCount(k))
                      IN  IF SlotsOf(k) = {} THEN genome[k] = pending
                          ELSE \A s \in SlotsOf(k) :
                                 valAt[0][s] + pending \in genome[k] .. genome[k] + PolyA
    BY DEF CountsAreExact
  <2>1. CASE SlotsOf(k) = {}
    BY <2>1 DEF KmerInv, CountsOK, SlotsOf, Pending
  <2>2. ASSUME NEW s \in SlotsOf(k)
        PROVE  valAt[0][s] + Pending(k) \in genome[k] .. genome[k] + PolyA
    <3>1. s \in Slots /\ keyAt[0][s] = k
      BY <2>2 DEF SlotsOf
    <3>2. /\ genome[k] <= valAt[0][s] + Pending(k)
          /\ valAt[0][s] + Pending(k) + Pending(Sentinel) <= genome[k] + PolyA
      BY <3>1 DEF KmerInv, CountsOK
    <3>3. Pending(k) \in Nat /\ Pending(Sentinel) \in Nat
      BY GroupsAreFinite DEF Pending, StillToCount
    <3>4. genome[k] \in Nat /\ valAt[0][s] \in Nat /\ PolyA \in Nat
      BY <3>1, OneTable DEF KmerInv, ProtocolInv, WordsOK, PolyA
    <3> QED BY <3>2, <3>3, <3>4
  <2> QED BY <2>1, <2>2 DEF Pending
<1> QED BY <1>1, KmerInvariant, PTL

\* No k-mer is lost: all counts together, with the groups on their way, are the
\* k-mers of the batches so far.
THEOREM KmersAddUp == Spec => []EveryKmerAddsOne
<1>1. KmerInv => EveryKmerAddsOne
  BY DEF KmerInv, SumsOK
<1> QED BY <1>1, KmerInvariant, PTL
=============================================================================
