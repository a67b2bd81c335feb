----------------------------- MODULE Sums_proofs ----------------------------
(***************************************************************************)
(* What SumOf computes, for every function from a finite set to Nat.  Its  *)
(* recursion is well-founded on the number of elements; each induction is  *)
(* an argument about a smallest counterexample.                            *)
(***************************************************************************)
EXTENDS Sums, FiniteSetTheorems, WellFoundedInduction, TLAPS

LEMMA SmallestOf ==
    ASSUME NEW T \in SUBSET Nat, T # {}
    PROVE  \E n \in T : \A m \in T : n <= m
  <1>1. PICK n \in T : \A m \in T : ~(<<m, n>> \in OpToRel(<, Nat))
    BY NatLessThanWellFounded, WFMin, Zenon
  <1>2. \A m \in T : ~(m < n)
    BY <1>1 DEF OpToRel
  <1> QED BY <1>2

Pick(s) == CHOOSE x \in s : TRUE

LEMMA PickIn ==
    ASSUME NEW s, s # {}
    PROVE  Pick(s) \in s
  BY DEF Pick

\* h sums f over every subset of D, the picked element first.
Sums(h, f, D) ==
    h = [s \in SUBSET D |-> IF s = {} THEN 0 ELSE f[Pick(s)] + h[s \ {Pick(s)}]]

LEMMA SumOfIs ==
    ASSUME NEW f
    PROVE  SumOf(f) = (CHOOSE h : Sums(h, f, DOMAIN f))[DOMAIN f]
  BY DEF SumOf, MapThenFoldSet, Sums, Pick


\* What the induction on the number of elements needs of a finite set.
LEMMA Smaller ==
    ASSUME NEW D, IsFiniteSet(D), NEW s \in SUBSET D
    PROVE  /\ Cardinality(s) \in Nat /\ Cardinality(s) <= Cardinality(D)
           /\ Cardinality(D) \in Nat
           /\ Cardinality(s) = 0 <=> s = {}
           /\ \A x \in s : s \ {x} \in SUBSET D /\ Cardinality(s \ {x}) = Cardinality(s) - 1
  <1>1. IsFiniteSet(s) /\ Cardinality(s) <= Cardinality(D)
    BY FS_Subset
  <1>2. Cardinality(s) \in Nat /\ Cardinality(D) \in Nat /\ (Cardinality(s) = 0 <=> s = {})
    BY <1>1, FS_CardinalityType, FS_EmptySet
  <1>3. \A x \in s : Cardinality(s \ {x}) = Cardinality(s) - 1
    BY <1>1, FS_RemoveElement
  <1> QED BY <1>1, <1>2, <1>3

\* h sums f over the subsets of D with at most n elements.
SumsTo(h, f, D, n) ==
    \A s \in SUBSET D :
      Cardinality(s) <= n =>
        h[s] = IF s = {} THEN 0 ELSE f[Pick(s)] + h[s \ {Pick(s)}]

LEMMA SumsExist ==
    ASSUME NEW D, IsFiniteSet(D), NEW f \in [D -> Nat]
    PROVE  \E h \in [SUBSET D -> Nat] : Sums(h, f, D)
  <1> DEFINE Bad == {n \in Nat : ~ \E h \in [SUBSET D -> Nat] : SumsTo(h, f, D, n)}
  <1>1. Bad = {}
    <2> SUFFICES ASSUME Bad # {} PROVE FALSE
      OBVIOUS
    <2>1. PICK n \in Bad : \A m \in Bad : n <= m
      BY SmallestOf
    <2>2. n # 0
      <3> SUFFICES ASSUME n = 0 PROVE FALSE
        OBVIOUS
      <3> DEFINE h == [s \in SUBSET D |-> 0]
      <3>1. h \in [SUBSET D -> Nat]
        OBVIOUS
      <3>2. SumsTo(h, f, D, 0)
        <4>1. \A s \in SUBSET D : Cardinality(s) <= 0 => s = {}
          BY Smaller
        <4> QED BY <4>1 DEF SumsTo
      <3> HIDE DEF h
      <3> QED BY <3>1, <3>2
    <2>n. n \in Nat
      OBVIOUS
    <2> HIDE DEF Bad
    <2>3. n - 1 \in Nat /\ n \in Nat
      BY <2>2, <2>n
    <2>0. Cardinality({}) <= n - 1
      BY <2>3, FS_EmptySet
    <2>m. n - 1 \notin Bad
      BY <2>1, <2>3
    <2>4. PICK g \in [SUBSET D -> Nat] : SumsTo(g, f, D, n - 1)
      BY <2>3, <2>m DEF Bad
    <2> DEFINE h == [s \in SUBSET D |-> IF Cardinality(s) <= n - 1 THEN g[s]
                                        ELSE f[Pick(s)] + g[s \ {Pick(s)}]]
    <2>5. ASSUME NEW s \in SUBSET D
          PROVE  /\ Cardinality(s) \in Nat
                 /\ s # {} => /\ Pick(s) \in s /\ s \ {Pick(s)} \in SUBSET D
                              /\ Cardinality(s \ {Pick(s)}) = Cardinality(s) - 1
                 /\ s = {} => Cardinality(s) = 0
      BY Smaller, PickIn
    <2>6. h \in [SUBSET D -> Nat]
      <3>1. ASSUME NEW s \in SUBSET D, ~(Cardinality(s) <= n - 1)
            PROVE  f[Pick(s)] + g[s \ {Pick(s)}] \in Nat
        <4>1. s # {}
          BY <2>0, <3>1
        <4>2. Pick(s) \in D /\ s \ {Pick(s)} \in SUBSET D
          BY <2>5, <4>1
        <4>3. f[Pick(s)] \in Nat /\ g[s \ {Pick(s)}] \in Nat
          BY <4>2
        <4> QED BY <4>3
      <3> QED BY <3>1
    <2>7. SumsTo(h, f, D, n)
      <3> SUFFICES ASSUME NEW s \in SUBSET D, Cardinality(s) <= n
                   PROVE  h[s] = IF s = {} THEN 0 ELSE f[Pick(s)] + h[s \ {Pick(s)}]
        BY DEF SumsTo
      <3> DEFINE r == s \ {Pick(s)}
      <3>1. CASE s = {}
        <4>1. Cardinality(s) <= n - 1
          BY <2>0, <3>1
        <4>2. h[s] = g[s]
          BY <4>1
        <4>3. g[s] = 0
          BY <3>1, <4>1, <2>4 DEF SumsTo
        <4> QED BY <3>1, <4>2, <4>3
      <3>2. CASE s # {}
        <4>1. r \in SUBSET D /\ Cardinality(r) <= n - 1
          BY <2>3, <2>5, <3>2
        <4>2. h[r] = g[r]
          BY <4>1
        <4>3. CASE Cardinality(s) <= n - 1
          <5>1. h[s] = g[s]
            BY <4>3
          <5>2. g[s] = f[Pick(s)] + g[r]
            BY <2>4, <3>2, <4>3 DEF SumsTo
          <5> HIDE DEF h
          <5> QED BY <3>2, <4>2, <5>1, <5>2
        <4>4. CASE ~(Cardinality(s) <= n - 1)
          <5>1. h[s] = f[Pick(s)] + g[r]
            BY <4>4
          <5> HIDE DEF h
          <5> QED BY <3>2, <4>2, <5>1
        <4> QED BY <4>3, <4>4
      <3> QED BY <3>1, <3>2
    <2> HIDE DEF h
    <2> QED BY <2>3, <2>6, <2>7 DEF Bad
  <1>2. PICK h \in [SUBSET D -> Nat] : SumsTo(h, f, D, Cardinality(D))
    BY <1>1, FS_CardinalityType
  <1>3. \A s \in SUBSET D : Cardinality(s) <= Cardinality(D)
    BY Smaller
  <1>4. h = [s \in SUBSET D |-> h[s]]
    OBVIOUS
  <1>5. Sums(h, f, D)
    BY <1>2, <1>3, <1>4 DEF Sums, SumsTo
  <1> QED BY <1>5

\* The sum is determined by the terms: the same terms, the same sum.
LEMMA SumsAgree ==
    ASSUME NEW D, IsFiniteSet(D), NEW E, D \subseteq E, NEW f, NEW g,
           \A x \in D : f[x] = g[x], NEW h, Sums(h, f, D), NEW k, Sums(k, g, E)
    PROVE  \A s \in SUBSET D : h[s] = k[s]
  <1> DEFINE Bad == {Cardinality(s) : s \in {r \in SUBSET D : h[r] # k[r]}}
  <1>e. /\ \A s \in SUBSET D : h[s] = IF s = {} THEN 0 ELSE f[Pick(s)] + h[s \ {Pick(s)}]
        /\ \A s \in SUBSET D : k[s] = IF s = {} THEN 0 ELSE g[Pick(s)] + k[s \ {Pick(s)}]
    BY DEF Sums
  <1> SUFFICES ASSUME Bad # {} PROVE FALSE
    OBVIOUS
  <1>1. Bad \in SUBSET Nat
    BY Smaller
  <1>2. PICK n \in Bad : \A m \in Bad : n <= m
    BY <1>1, SmallestOf
  <1>3. PICK s \in SUBSET D : h[s] # k[s] /\ n = Cardinality(s)
    BY <1>2
  <1>4. s # {}
    BY <1>e, <1>3
  <1>5. Pick(s) \in s /\ s \ {Pick(s)} \in SUBSET D
    BY <1>4, PickIn
  <1>6. Cardinality(s \ {Pick(s)}) = n - 1 /\ n \in Nat
    BY <1>3, <1>5, Smaller
  <1>7. Cardinality(s \ {Pick(s)}) \notin Bad
    BY <1>2, <1>6
  <1>8. h[s \ {Pick(s)}] = k[s \ {Pick(s)}]
    BY <1>5, <1>7
  <1>9. f[Pick(s)] = g[Pick(s)]
    BY <1>5
  <1> HIDE DEF Bad
  <1> QED BY <1>e, <1>3, <1>4, <1>8, <1>9

\* Any element may be taken first.
AnyFirst(h, f, D) == \A s \in SUBSET D : \A x \in s : h[s] = f[x] + h[s \ {x}]

LEMMA SumsAny ==
    ASSUME NEW D, IsFiniteSet(D), NEW f \in [D -> Nat],
           NEW h \in [SUBSET D -> Nat], Sums(h, f, D)
    PROVE  AnyFirst(h, f, D)
  <1> DEFINE Bad == {Cardinality(s) : s \in {r \in SUBSET D :
                                               \E x \in r : h[r] # f[x] + h[r \ {x}]}}
  <1>e. \A s \in SUBSET D : s # {} => h[s] = f[Pick(s)] + h[s \ {Pick(s)}]
    BY DEF Sums
  <1> SUFFICES ASSUME Bad # {} PROVE FALSE
    BY DEF AnyFirst
  <1>1. Bad \in SUBSET Nat
    BY Smaller
  <1>2. PICK n \in Bad : \A m \in Bad : n <= m
    BY <1>1, SmallestOf
  <1>3. PICK s \in SUBSET D : /\ n = Cardinality(s)
                              /\ \E x \in s : h[s] # f[x] + h[s \ {x}]
    BY <1>2
  <1>4. PICK x \in s : h[s] # f[x] + h[s \ {x}]
    BY <1>3
  <1> DEFINE y == Pick(s)
             sx == s \ {x}
             sy == s \ {y}
             sxy == (s \ {x}) \ {y}
  <1>5. y \in s /\ y # x
    BY <1>e, <1>4, PickIn
  <1>6. /\ sx \in SUBSET D /\ sy \in SUBSET D /\ sxy \in SUBSET D
        /\ y \in sx /\ x \in sy /\ sy \ {x} = sxy /\ sx \ {y} = sxy
    BY <1>5
  <1>7. n \in Nat /\ Cardinality(sx) = n - 1 /\ Cardinality(sy) = n - 1
    BY <1>3, <1>4, <1>5, Smaller
  <1>8. Cardinality(sx) \notin Bad /\ Cardinality(sy) \notin Bad
    <2> HIDE DEF Bad, sx, sy
    <2> QED BY <1>2, <1>7
  <1>9. h[sy] = f[x] + h[sxy]
    <2>1. \A z \in sy : h[sy] = f[z] + h[sy \ {z}]
      BY <1>6, <1>8
    <2> QED BY <2>1, <1>6
  <1>10. h[sx] = f[y] + h[sxy]
    <2>1. \A z \in sx : h[sx] = f[z] + h[sx \ {z}]
      BY <1>6, <1>8
    <2> QED BY <2>1, <1>6
  <1>11. h[s] = f[y] + h[sy]
    BY <1>e, <1>5
  <1>12. /\ f[x] \in Nat /\ f[y] \in Nat /\ h[sxy] \in Nat /\ h[s] # f[x] + h[sx]
    BY <1>4, <1>5, <1>6
  <1> HIDE DEF Bad, y, sx, sy, sxy
  <1> QED BY <1>9, <1>10, <1>11, <1>12

LEMMA SumOfSums ==
    ASSUME NEW D, IsFiniteSet(D), NEW f \in [D -> Nat]
    PROVE  \E h \in [SUBSET D -> Nat] : Sums(h, f, D) /\ SumOf(f) = h[D]
  <1> DEFINE c == CHOOSE h : Sums(h, f, D)
  <1>1. PICK h \in [SUBSET D -> Nat] : Sums(h, f, D)
    BY SumsExist
  <1>2. Sums(c, f, D)
    BY <1>1
  <1>3. SumOf(f) = c[D]
    <2>1. DOMAIN f = D
      OBVIOUS
    <2> QED BY <2>1, SumOfIs
  <1> HIDE DEF c
  <1>4. c[D] = h[D]
    <2>1. \A x \in D : f[x] = f[x]
      OBVIOUS
    <2>2. \A s \in SUBSET D : c[s] = h[s]
      BY <1>1, <1>2, SumsAgree
    <2> QED BY <2>2
  <1> QED BY <1>1, <1>3, <1>4

LEMMA SumOfType ==
    ASSUME NEW D, IsFiniteSet(D), NEW f \in [D -> Nat]
    PROVE  SumOf(f) \in Nat
  <1>1. PICK h \in [SUBSET D -> Nat] : Sums(h, f, D) /\ SumOf(f) = h[D]
    BY SumOfSums
  <1> QED BY <1>1

LEMMA SumOfEmpty ==
    ASSUME NEW f \in [{} -> Nat]
    PROVE  SumOf(f) = 0
  <1>1. PICK h \in [SUBSET {} -> Nat] : Sums(h, f, {}) /\ SumOf(f) = h[{}]
    BY SumOfSums, FS_EmptySet
  <1> QED BY <1>1 DEF Sums

\* Any term may be taken out.
LEMMA SumOfTake ==
    ASSUME NEW D, IsFiniteSet(D), NEW f \in [D -> Nat], NEW x \in D
    PROVE  SumOf(f) = f[x] + SumOf([y \in D \ {x} |-> f[y]])
  <1> DEFINE R == D \ {x}
             r == [y \in R |-> f[y]]
  <1>1. IsFiniteSet(R) /\ R \subseteq D /\ r \in [R -> Nat] /\ (\A y \in R : r[y] = f[y])
    BY FS_RemoveElement
  <1>2. PICK h \in [SUBSET D -> Nat] : Sums(h, f, D) /\ SumOf(f) = h[D]
    BY SumOfSums
  <1>3. AnyFirst(h, f, D)
    BY <1>2, SumsAny
  <1>4. h[D] = f[x] + h[R]
    BY <1>3 DEF AnyFirst
  <1> HIDE DEF R, r
  <1>5. PICK k \in [SUBSET R -> Nat] : Sums(k, r, R) /\ SumOf(r) = k[R]
    BY <1>1, SumOfSums
  <1>6. \A s \in SUBSET R : k[s] = h[s]
    BY <1>1, <1>2, <1>5, SumsAgree
  <1>7. SumOf(f) = f[x] + SumOf(r)
    BY <1>2, <1>4, <1>5, <1>6
  <1> QED BY <1>7 DEF r, R

\* g has one term more than f, at x.
OneMore(f, g, D, x) ==
    /\ IsFiniteSet(D) /\ x \notin D
    /\ f \in [D -> Nat] /\ g \in [D \cup {x} -> Nat] /\ \A y \in D : g[y] = f[y]

LEMMA SumOfAdd ==
    ASSUME NEW f, NEW g, NEW D, NEW x, OneMore(f, g, D, x)
    PROVE  SumOf(g) = SumOf(f) + g[x]
  <1> USE DEF OneMore
  <1> DEFINE E == D \cup {x}
  <1>0. IsFiniteSet(E) /\ E \ {x} = D /\ x \in E
    BY FS_AddElement
  <1>1. SumOf(g) = g[x] + SumOf([y \in E \ {x} |-> g[y]])
    BY <1>0, SumOfTake
  <1>2. [y \in E \ {x} |-> g[y]] = f
    <2>1. [y \in D |-> g[y]] = f
      OBVIOUS
    <2> QED BY <1>0, <2>1
  <1>3. SumOf(f) \in Nat /\ g[x] \in Nat
    BY SumOfType
  <1> HIDE DEF E
  <1> QED BY <1>1, <1>2, <1>3

\* f and g differ at most in the term at x.
OneChanged(f, g, D, x) ==
    /\ IsFiniteSet(D) /\ x \in D
    /\ f \in [D -> Nat] /\ g \in [D -> Nat] /\ \A y \in D \ {x} : g[y] = f[y]

LEMMA SumOfChange ==
    ASSUME NEW f, NEW g, NEW D, NEW x, OneChanged(f, g, D, x)
    PROVE  SumOf(g) = SumOf(f) - f[x] + g[x] /\ f[x] <= SumOf(f)
  <1> USE DEF OneChanged
  <1> DEFINE R == D \ {x}
             r == [y \in R |-> f[y]]
  <1>1. IsFiniteSet(R) /\ x \notin R /\ R \cup {x} = D
    BY FS_RemoveElement
  <1>2. r \in [R -> Nat] /\ (\A y \in R : f[y] = r[y]) /\ (\A y \in R : g[y] = r[y])
    OBVIOUS
  <1>3. f \in [R \cup {x} -> Nat] /\ g \in [R \cup {x} -> Nat]
    BY <1>1
  <1> HIDE DEF R, r
  <1>4. SumOf(f) = SumOf(r) + f[x] /\ SumOf(g) = SumOf(r) + g[x]
    <2>1. OneMore(r, f, R, x) /\ OneMore(r, g, R, x)
      BY <1>1, <1>2, <1>3 DEF OneMore
    <2> QED BY <2>1, SumOfAdd
  <1>5. SumOf(r) \in Nat /\ f[x] \in Nat /\ g[x] \in Nat
    BY <1>1, <1>2, SumOfType
  <1> QED BY <1>4, <1>5

\* A sum of nothing but zeros.
LEMMA SumOfZeros ==
    ASSUME NEW D, IsFiniteSet(D)
    PROVE  SumOf([x \in D |-> 0]) = 0
  <1> DEFINE f == [x \in D |-> 0]
  <1>1. f \in [D -> Nat]
    OBVIOUS
  <1>2. PICK h \in [SUBSET D -> Nat] : Sums(h, f, D) /\ SumOf(f) = h[D]
    BY <1>1, SumOfSums
  <1> DEFINE k == [s \in SUBSET D |-> 0]
  <1>3. Sums(k, f, D)
    <2>1. \A s \in SUBSET D : s # {} => f[Pick(s)] = 0 /\ k[s \ {Pick(s)}] = 0
      BY PickIn
    <2> DEFINE e == [s \in SUBSET D |-> IF s = {} THEN 0 ELSE f[Pick(s)] + k[s \ {Pick(s)}]]
    <2>2. \A s \in SUBSET D : e[s] = 0
      <3> TAKE s \in SUBSET D
      <3>1. e[s] = IF s = {} THEN 0 ELSE f[Pick(s)] + k[s \ {Pick(s)}]
        OBVIOUS
      <3> HIDE DEF e, f, k
      <3> QED BY <2>1, <3>1
    <2>3. e = [s \in SUBSET D |-> 0]
      BY <2>2
    <2> QED BY <2>3 DEF Sums
  <1> HIDE DEF f, k
  <1>4. \A s \in SUBSET D : h[s] = k[s]
    BY <1>2, <1>3, SumsAgree
  <1> QED BY <1>2, <1>4 DEF k, f

\* Replacing one value of a function changes the sum by the difference.
LEMMA SumOfExcept ==
    ASSUME NEW D, IsFiniteSet(D), NEW f \in [D -> Nat], NEW x \in D, NEW n \in Nat
    PROVE  /\ SumOf([f EXCEPT ![x] = n]) = SumOf(f) - f[x] + n
           /\ f[x] <= SumOf(f)
  <1> DEFINE g == [f EXCEPT ![x] = n]
  <1>1. OneChanged(f, g, D, x) /\ g[x] = n
    BY DEF OneChanged
  <1> HIDE DEF g
  <1>2. SumOf(g) = SumOf(f) - f[x] + g[x] /\ f[x] <= SumOf(f)
    BY <1>1, SumOfChange
  <1>3. SumOf(g) = SumOf(f) - f[x] + n
    BY <1>1, <1>2
  <1> QED BY <1>2, <1>3 DEF g
=============================================================================
