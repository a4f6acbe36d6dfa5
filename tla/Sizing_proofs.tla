----------------------------- MODULE Sizing_proofs -----------------------------
(***************************************************************************)
(* Proofs about Sizing, for every entry, every grid and every width of     *)
(* size_t: the size a caller is told, the checks, the private buffers and  *)
(* the loops agree. The variables of an accepted entry are some rho, some  *)
(* sigma and some tau, in this order; the components of each group are     *)
(* counted once, and the binomials of the size, the table of the private   *)
(* fields and the documented number of components are shown to be the      *)
(* product of those counts.                                                *)
(***************************************************************************)
EXTENDS Sizing, SpinComponents_proofs, FiniteSetTheorems, TLAPS

(* The components of p equal variables of d components, GroupSize of them. *)
Ordered(d, p) ==
  {w \in [1..p -> 0..2] : /\ \A i \in 1..p : w[i] < d
                          /\ \A i \in 2..p : w[i-1] =< w[i]}
-----------------------------------------------------------------------------
(* The products of a binomial up to factor m, which is at most 2 here. *)
Products(n, m) ==
  CHOOSE f : f = [i \in 0..m |-> IF i = 0 THEN 1
                                 ELSE (f[i-1] * (n - m + i)) \div i]

(* The binomials of up to two factors ... *)
LEMMA ProductsOf ==
  ASSUME NEW n \in Nat
  PROVE  /\ Products(n, 0)[0] = 1
         /\ Products(n, 1)[1] = n
         /\ Products(n, 2)[2] = ((n - 1) * n) \div 2
<1>1. ASSUME NEW m \in 0..2
      PROVE  Products(n, m) = [i \in 0..m |-> IF i = 0 THEN 1
                                 ELSE (Products(n, m)[i-1] * (n - m + i)) \div i]
  <2>. DEFINE one == (1 * (n - m + 1)) \div 1
              two == (one * (n - m + 2)) \div 2
              g == [i \in 0..m |-> IF i = 0 THEN 1 ELSE IF i = 1 THEN one ELSE two]
  <2>1. g = [i \in 0..m |-> IF i = 0 THEN 1 ELSE (g[i-1] * (n - m + i)) \div i]
    <3>1. ASSUME NEW i \in 0..m
          PROVE  g[i] = IF i = 0 THEN 1 ELSE (g[i-1] * (n - m + i)) \div i
      <4>1. CASE i = 0
        BY <4>1
      <4>2. CASE i = 1
        <5>1. g[0] = 1 /\ g[1] = one
          BY <4>2
        <5>. HIDE DEF g
        <5>2. QED
          BY <4>2, <5>1
      <4>3. CASE i = 2
        <5>1. g[1] = one /\ g[2] = two
          BY <4>3
        <5>. HIDE DEF g, one
        <5>2. QED
          BY <4>3, <5>1
      <4>4. QED
        BY <4>1, <4>2, <4>3
    <3>2. DOMAIN g = 0..m /\ g = [i \in 0..m |-> g[i]]
      OBVIOUS
    <3>. HIDE DEF g
    <3>3. QED
      BY <3>1, <3>2
  <2>. HIDE DEF g
  <2>2. QED
    BY <2>1 DEF Products
<1>2. Products(n, 0)[0] = 1
  BY <1>1
<1>3. Products(n, 1)[1] = n
  <2>1. /\ Products(n, 1)[0] = 1
        /\ Products(n, 1)[1] = (Products(n, 1)[0] * (n - 1 + 1)) \div 1
    BY <1>1
  <2>2. QED
    BY <2>1
<1>4. Products(n, 2)[2] = ((n - 1) * n) \div 2
  <2>1. /\ Products(n, 2)[0] = 1
        /\ Products(n, 2)[1] = (Products(n, 2)[0] * (n - 2 + 1)) \div 1
        /\ Products(n, 2)[2] = (Products(n, 2)[1] * (n - 2 + 2)) \div 2
    BY <1>1
  <2>2. Products(n, 2)[1] = n - 1
    BY <2>1
  <2>3. QED
    BY <2>1, <2>2
<1>5. QED
  BY <1>2, <1>3, <1>4

(* ... which are those the groups of up to three variables need. *)
LEMMA BinomialIsGroupSize ==
  ASSUME NEW d \in 1..3, NEW p \in 1..3
  PROVE  Binomial(d + p - 1, p) = GroupSize(d, p)
<1>1. ASSUME NEW n \in Nat, NEW k \in Nat, k =< n
      PROVE  Binomial(n, k) = LET m == IF k > n - k THEN n - k ELSE k
                              IN  Products(n, m)[m]
  BY <1>1 DEF Binomial, Products
<1>2. CASE d = 1
  <2>1. Binomial(p, p) = Products(p, 0)[0]
    BY <1>1
  <2>2. QED
    BY <1>2, <2>1, ProductsOf DEF GroupSize
<1>3. CASE d = 2
  <2>1. Binomial(p + 1, p) = Products(p + 1, 1)[1]
    BY <1>1
  <2>2. QED
    BY <1>3, <2>1, ProductsOf DEF GroupSize
<1>4. CASE d = 3 /\ p = 1
  <2>1. Binomial(3, 1) = Products(3, 1)[1]
    BY <1>1
  <2>2. QED
    BY <1>4, <2>1, ProductsOf DEF GroupSize
<1>5. CASE d = 3 /\ p = 2
  <2>1. Binomial(4, 2) = Products(4, 2)[2]
    BY <1>1
  <2>2. ((4 - 1) * 4) \div 2 = 6
    OBVIOUS
  <2>3. QED
    BY <1>5, <2>1, <2>2, ProductsOf DEF GroupSize
<1>6. CASE d = 3 /\ p = 3
  <2>1. Binomial(5, 3) = Products(5, 2)[2]
    BY <1>1
  <2>2. ((5 - 1) * 5) \div 2 = 10
    OBVIOUS
  <2>3. QED
    BY <1>6, <2>1, <2>2, ProductsOf DEF GroupSize
<1>7. QED
  BY <1>2, <1>3, <1>4, <1>5, <1>6
-----------------------------------------------------------------------------
(* g maps the elements of M to the entries of an increasing list f. *)
Counts(M, n, g, f) ==
  /\ n \in Nat /\ g \in [M -> Int] /\ f \in [1..n -> Int]
  /\ \A s, t \in M : g[s] = g[t] => s = t
  /\ \A s \in M : \E k \in 1..n : f[k] = g[s]
  /\ \A k \in 1..n : \E s \in M : f[k] = g[s]
  /\ \A i, j \in 1..n : i < j => f[i] < f[j]

(* A set counted by an increasing list of codes of its elements. *)
LEMMA Counted ==
  ASSUME NEW M, NEW n, NEW g, NEW f, Counts(M, n, g, f)
  PROVE  IsFiniteSet(M) /\ Cardinality(M) = n
<1>. USE DEF Counts
<1>. DEFINE T == {f[k] : k \in 1..n}
<1>1. IsFiniteSet(1..n) /\ Cardinality(1..n) = n
  <2>1. 1 \in Int /\ n \in Int
    OBVIOUS
  <2>2. QED
    BY <2>1, FS_Interval
<1>2. f \in Surjection(1..n, T)
  BY DEF Surjection
<1>3. f \in Injection(1..n, T)
  <2>1. \A i, j \in 1..n : f[i] = f[j] => i = j
    OBVIOUS
  <2>2. QED
    BY <2>1 DEF Injection, IsInjective
<1>4. g \in Surjection(M, T) /\ g \in Injection(M, T)
  BY DEF Surjection, Injection, IsInjective
<1>. HIDE DEF T
<1>5. IsFiniteSet(T) /\ Cardinality(T) = n
  BY <1>1, <1>2, <1>3, FS_Surjection
<1>6. QED
  BY <1>4, <1>5, FS_Injection

(* One group of variables has as many components as the sorted lists of its
   length. *)
LEMMA OrderedCount ==
  ASSUME NEW d \in 1..3, NEW p \in 0..3
  PROVE  IsFiniteSet(Ordered(d, p)) /\ Cardinality(Ordered(d, p)) = GroupSize(d, p)
<1>1. CASE p = 0 \/ d = 1
  <2>1. \A w \in Ordered(d, p) : w = [i \in 1..p |-> 0]
    BY <1>1 DEF Ordered
  <2>2. [i \in 1..p |-> 0] \in Ordered(d, p)
    BY DEF Ordered
  <2>3. Ordered(d, p) = {[i \in 1..p |-> 0]}
    BY <2>1, <2>2
  <2>4. QED
    BY <1>1, <2>3, FS_Singleton DEF GroupSize
<1>2. CASE d = 2 /\ p = 1
  <2>. DEFINE M == Ordered(2, 1)
              code(w) == w[1]
              list(x) == <<x>>
              g == [w \in M |-> code(w)]
              f == <<0, 1>>
  <2>1. ASSUME NEW w \in M PROVE code(w) \in {0, 1} /\ w = list(code(w))
    BY DEF Ordered
  <2>2. ASSUME NEW x \in {0, 1} PROVE list(x) \in M /\ code(list(x)) = x
    BY DEF Ordered
  <2>. HIDE DEF M, code, list
  <2>3. /\ f \in [1..2 -> {0, 1}]
        /\ \A x \in {0, 1} : \E k \in 1..2 : f[k] = x
        /\ \A i, j \in 1..2 : i < j => f[i] < f[j]
    OBVIOUS
  <2>. HIDE DEF f
  <2>4. \A w \in M : \E k \in 1..2 : f[k] = g[w]
    BY <2>1, <2>3
  <2>5. \A k \in 1..2 : \E w \in M : f[k] = g[w]
    BY <2>2, <2>3
  <2>6. \A v, w \in M : g[v] = g[w] => v = w
    BY <2>1
  <2>7. g \in [M -> Int] /\ f \in [1..2 -> Int]
    BY <2>1, <2>3
  <2>. HIDE DEF g
  <2>8. Counts(M, 2, g, f)
    BY <2>3, <2>4, <2>5, <2>6, <2>7 DEF Counts
  <2>9. QED
    BY <1>2, <2>8, Counted, GroupSizes DEF M
<1>3. CASE d = 2 /\ p = 2
  <2>. DEFINE M == Ordered(2, 2)
              code(w) == 3 * w[1] + w[2]
              list(x) == <<x \div 3, x % 3>>
              g == [w \in M |-> code(w)]
              f == <<0, 1, 4>>
  <2>1. ASSUME NEW w \in M PROVE code(w) \in {0, 1, 4} /\ w = list(code(w))
    BY DEF Ordered
  <2>2. ASSUME NEW x \in {0, 1, 4} PROVE list(x) \in M /\ code(list(x)) = x
    BY DEF Ordered
  <2>. HIDE DEF M, code, list
  <2>3. /\ f \in [1..3 -> {0, 1, 4}]
        /\ \A x \in {0, 1, 4} : \E k \in 1..3 : f[k] = x
        /\ \A i, j \in 1..3 : i < j => f[i] < f[j]
    OBVIOUS
  <2>. HIDE DEF f
  <2>4. \A w \in M : \E k \in 1..3 : f[k] = g[w]
    BY <2>1, <2>3
  <2>5. \A k \in 1..3 : \E w \in M : f[k] = g[w]
    BY <2>2, <2>3
  <2>6. \A v, w \in M : g[v] = g[w] => v = w
    BY <2>1
  <2>7. g \in [M -> Int] /\ f \in [1..3 -> Int]
    BY <2>1, <2>3
  <2>. HIDE DEF g
  <2>8. Counts(M, 3, g, f)
    BY <2>3, <2>4, <2>5, <2>6, <2>7 DEF Counts
  <2>9. QED
    BY <1>3, <2>8, Counted, GroupSizes DEF M
<1>4. CASE d = 2 /\ p = 3
  <2>. DEFINE M == Ordered(2, 3)
              code(w) == 9 * w[1] + 3 * w[2] + w[3]
              list(x) == <<x \div 9, (x \div 3) % 3, x % 3>>
              g == [w \in M |-> code(w)]
              f == <<0, 1, 4, 13>>
  <2>1. ASSUME NEW w \in M PROVE code(w) \in {0, 1, 4, 13} /\ w = list(code(w))
    BY DEF Ordered
  <2>2. ASSUME NEW x \in {0, 1, 4, 13} PROVE list(x) \in M /\ code(list(x)) = x
    BY DEF Ordered
  <2>. HIDE DEF M, code, list
  <2>3. /\ f \in [1..4 -> {0, 1, 4, 13}]
        /\ \A x \in {0, 1, 4, 13} : \E k \in 1..4 : f[k] = x
        /\ \A i, j \in 1..4 : i < j => f[i] < f[j]
    OBVIOUS
  <2>. HIDE DEF f
  <2>4. \A w \in M : \E k \in 1..4 : f[k] = g[w]
    BY <2>1, <2>3
  <2>5. \A k \in 1..4 : \E w \in M : f[k] = g[w]
    BY <2>2, <2>3
  <2>6. \A v, w \in M : g[v] = g[w] => v = w
    BY <2>1
  <2>7. g \in [M -> Int] /\ f \in [1..4 -> Int]
    BY <2>1, <2>3
  <2>. HIDE DEF g
  <2>8. Counts(M, 4, g, f)
    BY <2>3, <2>4, <2>5, <2>6, <2>7 DEF Counts
  <2>9. QED
    BY <1>4, <2>8, Counted, GroupSizes DEF M
<1>5. CASE d = 3 /\ p = 1
  <2>. DEFINE M == Ordered(3, 1)
              code(w) == w[1]
              list(x) == <<x>>
              g == [w \in M |-> code(w)]
              f == <<0, 1, 2>>
  <2>1. ASSUME NEW w \in M PROVE code(w) \in {0, 1, 2} /\ w = list(code(w))
    BY DEF Ordered
  <2>2. ASSUME NEW x \in {0, 1, 2} PROVE list(x) \in M /\ code(list(x)) = x
    BY DEF Ordered
  <2>. HIDE DEF M, code, list
  <2>3. /\ f \in [1..3 -> {0, 1, 2}]
        /\ \A x \in {0, 1, 2} : \E k \in 1..3 : f[k] = x
        /\ \A i, j \in 1..3 : i < j => f[i] < f[j]
    OBVIOUS
  <2>. HIDE DEF f
  <2>4. \A w \in M : \E k \in 1..3 : f[k] = g[w]
    BY <2>1, <2>3
  <2>5. \A k \in 1..3 : \E w \in M : f[k] = g[w]
    BY <2>2, <2>3
  <2>6. \A v, w \in M : g[v] = g[w] => v = w
    BY <2>1
  <2>7. g \in [M -> Int] /\ f \in [1..3 -> Int]
    BY <2>1, <2>3
  <2>. HIDE DEF g
  <2>8. Counts(M, 3, g, f)
    BY <2>3, <2>4, <2>5, <2>6, <2>7 DEF Counts
  <2>9. QED
    BY <1>5, <2>8, Counted, GroupSizes DEF M
<1>6. CASE d = 3 /\ p = 2
  <2>. DEFINE M == Ordered(3, 2)
              code(w) == 3 * w[1] + w[2]
              list(x) == <<x \div 3, x % 3>>
              g == [w \in M |-> code(w)]
              f == <<0, 1, 2, 4, 5, 8>>
  <2>1. ASSUME NEW w \in M PROVE code(w) \in {0, 1, 2, 4, 5, 8} /\ w = list(code(w))
    BY DEF Ordered
  <2>2. ASSUME NEW x \in {0, 1, 2, 4, 5, 8} PROVE list(x) \in M /\ code(list(x)) = x
    BY DEF Ordered
  <2>. HIDE DEF M, code, list
  <2>3. /\ f \in [1..6 -> {0, 1, 2, 4, 5, 8}]
        /\ \A x \in {0, 1, 2, 4, 5, 8} : \E k \in 1..6 : f[k] = x
        /\ \A i, j \in 1..6 : i < j => f[i] < f[j]
    OBVIOUS
  <2>. HIDE DEF f
  <2>4. \A w \in M : \E k \in 1..6 : f[k] = g[w]
    BY <2>1, <2>3
  <2>5. \A k \in 1..6 : \E w \in M : f[k] = g[w]
    BY <2>2, <2>3
  <2>6. \A v, w \in M : g[v] = g[w] => v = w
    BY <2>1
  <2>7. g \in [M -> Int] /\ f \in [1..6 -> Int]
    BY <2>1, <2>3
  <2>. HIDE DEF g
  <2>8. Counts(M, 6, g, f)
    BY <2>3, <2>4, <2>5, <2>6, <2>7 DEF Counts
  <2>9. QED
    BY <1>6, <2>8, Counted, GroupSizes DEF M
<1>7. CASE d = 3 /\ p = 3
  <2>. DEFINE M == Ordered(3, 3)
              code(w) == 9 * w[1] + 3 * w[2] + w[3]
              list(x) == <<x \div 9, (x \div 3) % 3, x % 3>>
              g == [w \in M |-> code(w)]
              f == <<0, 1, 2, 4, 5, 8, 13, 14, 17, 26>>
  <2>1. ASSUME NEW w \in M PROVE code(w) \in {0, 1, 2, 4, 5, 8, 13, 14, 17, 26} /\ w = list(code(w))
    BY DEF Ordered
  <2>2. ASSUME NEW x \in {0, 1, 2, 4, 5, 8, 13, 14, 17, 26} PROVE list(x) \in M /\ code(list(x)) = x
    BY DEF Ordered
  <2>. HIDE DEF M, code, list
  <2>3. /\ f \in [1..10 -> {0, 1, 2, 4, 5, 8, 13, 14, 17, 26}]
        /\ \A x \in {0, 1, 2, 4, 5, 8, 13, 14, 17, 26} : \E k \in 1..10 : f[k] = x
        /\ \A i, j \in 1..10 : i < j => f[i] < f[j]
    OBVIOUS
  <2>. HIDE DEF f
  <2>4. \A w \in M : \E k \in 1..10 : f[k] = g[w]
    BY <2>1, <2>3
  <2>5. \A k \in 1..10 : \E w \in M : f[k] = g[w]
    BY <2>2, <2>3
  <2>6. \A v, w \in M : g[v] = g[w] => v = w
    BY <2>1
  <2>7. g \in [M -> Int] /\ f \in [1..10 -> Int]
    BY <2>1, <2>3
  <2>. HIDE DEF g
  <2>8. Counts(M, 10, g, f)
    BY <2>3, <2>4, <2>5, <2>6, <2>7 DEF Counts
  <2>9. QED
    BY <1>7, <2>8, Counted, GroupSizes DEF M
<1>8. QED
  BY <1>1, <1>2, <1>3, <1>4, <1>5, <1>6, <1>7
-----------------------------------------------------------------------------
(* The variables that have components. *)
LEMMA DimRange ==
  ASSUME NEW nspin \in Spins
  PROVE  /\ SpinDim(nspin, RHO) \in 1..3 /\ SpinDim(nspin, SIGMA) \in 1..3
         /\ SpinDim(nspin, TAU) \in 1..3
BY Dims DEF Spins

(* The component count of the library, for the variables of each group. *)
LEMMA SplitCount ==
  ASSUME NEW nspin \in Spins, NEW list, NEW r, NEW s, NEW t, IsSplit(list, r, s, t)
  PROVE  ComponentCount(nspin, list) = SplitSize(nspin, r, s, t)
<1>. DEFINE count(var) == Cardinality({i \in DOMAIN list : list[i] = var})
            group(var) == IF count(var) = 0 THEN 1
                          ELSE IF Dimensions(nspin)[var] = 0 THEN 0
                          ELSE Binomial(Dimensions(nspin)[var] + count(var) - 1, count(var))
<1>1. /\ DOMAIN list = 1..r+s+t /\ Len(list) = r + s + t
      /\ r \in 0..3 /\ s \in 0..3 /\ t \in 0..3
      /\ \A i \in 1..r+s+t :
           list[i] = IF i =< r THEN RHO ELSE IF i =< r + s THEN SIGMA ELSE TAU
  BY DEF IsSplit
<1>2. Sorted(list) /\ \A i \in DOMAIN list : list[i] =< TAU
  <2>1. \A i \in 2..Len(list) : list[i-1] =< list[i]
    <3>1. ASSUME NEW i \in 2..Len(list) PROVE list[i-1] =< list[i]
      <4>1. i \in 1..r+s+t /\ i - 1 \in 1..r+s+t
        BY <1>1
      <4>2. QED
        BY <1>1, <4>1 DEF RHO, SIGMA, TAU
    <3>2. QED
      BY <3>1
  <2>2. \A i \in DOMAIN list : list[i] =< TAU
    BY <1>1 DEF RHO, SIGMA, TAU
  <2>3. QED
    BY <2>1, <2>2 DEF Sorted
<1>3. count(RHO) = r /\ count(SIGMA) = s /\ count(LAPL) = 0 /\ count(TAU) = t
  <2>1. {i \in DOMAIN list : list[i] = RHO} = 1..r
    BY <1>1 DEF RHO, SIGMA, TAU
  <2>2. {i \in DOMAIN list : list[i] = SIGMA} = r+1..r+s
    BY <1>1 DEF RHO, SIGMA, TAU
  <2>3. {i \in DOMAIN list : list[i] = TAU} = r+s+1..r+s+t
    BY <1>1 DEF RHO, SIGMA, TAU
  <2>4. {i \in DOMAIN list : list[i] = LAPL} = {}
    BY <1>1 DEF RHO, SIGMA, LAPL, TAU
  <2>5. /\ 1 \in Int /\ r \in Int /\ r + 1 \in Int /\ r + s \in Int
        /\ r + s + 1 \in Int /\ r + s + t \in Int
    BY <1>1
  <2>6. Cardinality(1..r) = r
    <3>1. Cardinality(1..r) = IF 1 > r THEN 0 ELSE r - 1 + 1
      BY <2>5, FS_Interval
    <3>2. QED
      BY <1>1, <3>1
  <2>7. Cardinality(r+1..r+s) = s
    <3>1. Cardinality(r+1..r+s) = IF r + 1 > r + s THEN 0 ELSE (r + s) - (r + 1) + 1
      BY <2>5, FS_Interval
    <3>2. QED
      BY <1>1, <3>1
  <2>8. Cardinality(r+s+1..r+s+t) = t
    <3>1. Cardinality(r+s+1..r+s+t) =
            IF r + s + 1 > r + s + t THEN 0 ELSE (r + s + t) - (r + s + 1) + 1
      BY <2>5, FS_Interval
    <3>2. QED
      BY <1>1, <3>1
  <2>9. QED
    BY <2>1, <2>2, <2>3, <2>4, <2>6, <2>7, <2>8, FS_EmptySet
<1>4. ComponentCount(nspin, list) = group(RHO) * group(SIGMA) * group(LAPL) * group(TAU)
  BY <1>2 DEF ComponentCount
<1>. HIDE DEF count
<1>5. ASSUME NEW var, SpinDim(nspin, var) \in 1..3, count(var) \in 0..3
      PROVE  group(var) = GroupSize(SpinDim(nspin, var), count(var))
  <2>1. CASE count(var) = 0
    BY <2>1 DEF GroupSize
  <2>2. CASE count(var) # 0
    <3>1. count(var) \in 1..3
      BY <1>5, <2>2
    <3>2. Dimensions(nspin)[var] = SpinDim(nspin, var)
      BY DEF SpinDim
    <3>3. Binomial(SpinDim(nspin, var) + count(var) - 1, count(var))
            = GroupSize(SpinDim(nspin, var), count(var))
      BY <1>5, <3>1, BinomialIsGroupSize
    <3>4. QED
      BY <1>5, <2>2, <3>2, <3>3
  <2>3. QED
    BY <2>1, <2>2
<1>6. group(LAPL) = 1
  BY <1>3
<1>7. /\ group(RHO) = GroupSize(SpinDim(nspin, RHO), r)
      /\ group(SIGMA) = GroupSize(SpinDim(nspin, SIGMA), s)
      /\ group(TAU) = GroupSize(SpinDim(nspin, TAU), t)
  BY <1>1, <1>3, <1>5, DimRange
<1>. HIDE DEF group
<1>8. /\ GroupSize(SpinDim(nspin, RHO), r) \in Nat /\ GroupSize(SpinDim(nspin, SIGMA), s) \in Nat
      /\ GroupSize(SpinDim(nspin, TAU), t) \in Nat
  BY <1>1, DimRange DEF GroupSize
<1>9. QED
  BY <1>4, <1>6, <1>7, <1>8 DEF SplitSize

(* The documented components: one of the sorted lists of every group. *)
LEMMA SplitMultisets ==
  ASSUME NEW nspin \in Spins, NEW list, NEW r, NEW s, NEW t, IsSplit(list, r, s, t)
  PROVE  Cardinality(Multisets(nspin, list)) = SplitSize(nspin, r, s, t)
<1>. DEFINE M == Multisets(nspin, list)
            Rho == Ordered(SpinDim(nspin, RHO), r)
            Sigma == Ordered(SpinDim(nspin, SIGMA), s)
            Tau == Ordered(SpinDim(nspin, TAU), t)
            P == Rho \X (Sigma \X Tau)
            rho(w) == [i \in 1..r |-> w[i]]
            sigma(w) == [i \in 1..s |-> w[r + i]]
            tau(w) == [i \in 1..t |-> w[r + s + i]]
            g == [w \in M |-> <<rho(w), <<sigma(w), tau(w)>>>>]
<1>1. /\ Len(list) = r + s + t
      /\ r \in 0..3 /\ s \in 0..3 /\ t \in 0..3
      /\ \A i \in 1..r+s+t :
           list[i] = IF i =< r THEN RHO ELSE IF i =< r + s THEN SIGMA ELSE TAU
  BY DEF IsSplit
<1>2. \A w : w \in M <=>
         /\ w \in [1..r+s+t -> 0..2]
         /\ \A i \in 1..r+s+t : w[i] < SpinDim(nspin, list[i])
         /\ \A i \in 2..r+s+t : list[i] = list[i-1] => w[i-1] =< w[i]
  BY <1>1 DEF Multisets, SpinDim
<1>. HIDE DEF M
<1>3. ASSUME NEW w \in M
      PROVE  rho(w) \in Rho /\ sigma(w) \in Sigma /\ tau(w) \in Tau
  <2>1. /\ w \in [1..r+s+t -> 0..2]
        /\ \A i \in 1..r+s+t : w[i] < SpinDim(nspin, list[i])
        /\ \A i \in 2..r+s+t : list[i] = list[i-1] => w[i-1] =< w[i]
    BY <1>2
  <2>2. rho(w) \in Rho
    BY <1>1, <2>1 DEF Ordered
  <2>3. sigma(w) \in Sigma
    <3>1. ASSUME NEW i \in 1..s
          PROVE  /\ r + i \in 1..r+s+t /\ list[r + i] = SIGMA
                 /\ i > 1 => r + i \in 2..r+s+t /\ (r + i) - 1 = r + (i - 1)
      BY <1>1
    <3>2. \A i \in 1..s : w[r + i] \in 0..2 /\ w[r + i] < SpinDim(nspin, SIGMA)
      BY <2>1, <3>1
    <3>3. ASSUME NEW i \in 2..s
          PROVE  w[r + (i - 1)] =< w[r + i]
      <4>1. i \in 1..s /\ i - 1 \in 1..s /\ i > 1
        BY <1>1
      <4>2. list[r + i] = SIGMA /\ list[r + (i - 1)] = SIGMA
        BY <3>1, <4>1
      <4>3. QED
        BY <2>1, <3>1, <4>1, <4>2
    <3>4. \A i \in 2..s : i - 1 \in 1..s /\ i \in 1..s
      BY <1>1
    <3>5. /\ sigma(w) \in [1..s -> 0..2]
          /\ \A i \in 1..s : sigma(w)[i] < SpinDim(nspin, SIGMA)
          /\ \A i \in 2..s : sigma(w)[i-1] =< sigma(w)[i]
      BY <3>2, <3>3, <3>4
    <3>. HIDE DEF sigma
    <3>6. QED
      BY <3>5 DEF Ordered
  <2>4. tau(w) \in Tau
    <3>1. ASSUME NEW i \in 1..t
          PROVE  /\ r + s + i \in 1..r+s+t /\ list[r + s + i] = TAU
                 /\ i > 1 => r + s + i \in 2..r+s+t /\ (r + s + i) - 1 = r + s + (i - 1)
      BY <1>1
    <3>2. \A i \in 1..t : w[r + s + i] \in 0..2 /\ w[r + s + i] < SpinDim(nspin, TAU)
      BY <2>1, <3>1
    <3>3. ASSUME NEW i \in 2..t
          PROVE  w[r + s + (i - 1)] =< w[r + s + i]
      <4>1. i \in 1..t /\ i - 1 \in 1..t /\ i > 1
        BY <1>1
      <4>2. list[r + s + i] = TAU /\ list[r + s + (i - 1)] = TAU
        BY <3>1, <4>1
      <4>3. QED
        BY <2>1, <3>1, <4>1, <4>2
    <3>4. \A i \in 2..t : i - 1 \in 1..t /\ i \in 1..t
      BY <1>1
    <3>5. /\ tau(w) \in [1..t -> 0..2]
          /\ \A i \in 1..t : tau(w)[i] < SpinDim(nspin, TAU)
          /\ \A i \in 2..t : tau(w)[i-1] =< tau(w)[i]
      BY <3>2, <3>3, <3>4
    <3>. HIDE DEF tau
    <3>6. QED
      BY <3>5 DEF Ordered
  <2>5. QED
    BY <2>2, <2>3, <2>4
<1>4. ASSUME NEW v \in M, NEW w \in M, rho(v) = rho(w), sigma(v) = sigma(w), tau(v) = tau(w)
      PROVE  v = w
  <2>1. ASSUME NEW i \in 1..r+s+t PROVE v[i] = w[i]
    <3>1. CASE i =< r
      <4>1. i \in 1..r
        BY <1>1, <3>1
      <4>2. rho(v)[i] = rho(w)[i]
        BY <1>4
      <4>3. QED
        BY <4>1, <4>2
    <3>2. CASE r < i /\ i =< r + s
      <4>1. i - r \in 1..s /\ r + (i - r) = i
        BY <1>1, <3>2
      <4>2. sigma(v)[i - r] = sigma(w)[i - r]
        BY <1>4
      <4>3. QED
        BY <4>1, <4>2
    <3>3. CASE r + s < i
      <4>1. i - (r + s) \in 1..t /\ r + s + (i - (r + s)) = i
        BY <1>1, <3>3
      <4>2. tau(v)[i - (r + s)] = tau(w)[i - (r + s)]
        BY <1>4
      <4>3. QED
        BY <4>1, <4>2
    <3>4. QED
      BY <1>1, <3>1, <3>2, <3>3
  <2>2. v = [i \in 1..r+s+t |-> v[i]] /\ w = [i \in 1..r+s+t |-> w[i]]
    BY <1>2
  <2>3. QED
    BY <2>1, <2>2
<1>5. ASSUME NEW a \in Rho, NEW b \in Sigma, NEW c \in Tau
      PROVE  \E w \in M : rho(w) = a /\ sigma(w) = b /\ tau(w) = c
  <2>. DEFINE w == [i \in 1..r+s+t |-> IF i =< r THEN a[i]
                                      ELSE IF i =< r + s THEN b[i - r]
                                      ELSE c[i - (r + s)]]
  <2>1. /\ a \in [1..r -> 0..2] /\ b \in [1..s -> 0..2] /\ c \in [1..t -> 0..2]
        /\ \A i \in 1..r : a[i] < SpinDim(nspin, RHO)
        /\ \A i \in 1..s : b[i] < SpinDim(nspin, SIGMA)
        /\ \A i \in 1..t : c[i] < SpinDim(nspin, TAU)
        /\ \A i \in 2..r : a[i-1] =< a[i]
        /\ \A i \in 2..s : b[i-1] =< b[i]
        /\ \A i \in 2..t : c[i-1] =< c[i]
    BY DEF Ordered
  <2>2. w \in [1..r+s+t -> 0..2]
    BY <1>1, <2>1
  <2>3. \A i \in 1..r+s+t : w[i] < SpinDim(nspin, list[i])
    BY <1>1, <2>1
  <2>4. ASSUME NEW i \in 2..r+s+t, list[i] = list[i-1]
        PROVE  w[i-1] =< w[i]
    <3>1. i \in 1..r+s+t /\ i - 1 \in 1..r+s+t
      BY <1>1
    <3>2. \/ i \in 2..r \/ i - r \in 2..s \/ i - (r + s) \in 2..t
      BY <1>1, <2>4, <3>1 DEF RHO, SIGMA, TAU
    <3>3. CASE i \in 2..r
      BY <1>1, <2>1, <3>1, <3>3
    <3>4. CASE i - r \in 2..s
      <4>1. b[(i - r) - 1] =< b[i - r] /\ (i - r) - 1 = (i - 1) - r
        BY <1>1, <2>1, <3>4
      <4>2. ~(i =< r) /\ ~(i - 1 =< r) /\ i =< r + s /\ i - 1 =< r + s
        BY <1>1, <3>4
      <4>3. QED
        BY <3>1, <4>1, <4>2
    <3>5. CASE i - (r + s) \in 2..t
      <4>1. c[(i - (r + s)) - 1] =< c[i - (r + s)] /\ (i - (r + s)) - 1 = (i - 1) - (r + s)
        BY <1>1, <2>1, <3>5
      <4>2. ~(i =< r) /\ ~(i - 1 =< r) /\ ~(i =< r + s) /\ ~(i - 1 =< r + s)
        BY <1>1, <3>5
      <4>3. QED
        BY <3>1, <4>1, <4>2
    <3>6. QED
      BY <3>2, <3>3, <3>4, <3>5
  <2>5. w \in M
    BY <1>2, <2>2, <2>3, <2>4
  <2>6. rho(w) = a
    BY <1>1, <2>1
  <2>7. sigma(w) = b
    <3>1. \A i \in 1..s : sigma(w)[i] = b[i]
      BY <1>1, <2>1
    <3>2. QED
      BY <2>1, <3>1
  <2>8. tau(w) = c
    <3>1. \A i \in 1..t : tau(w)[i] = c[i]
      BY <1>1, <2>1
    <3>2. QED
      BY <2>1, <3>1
  <2>9. QED
    BY <2>5, <2>6, <2>7, <2>8
<1>. HIDE DEF rho, sigma, tau
<1>6. /\ IsFiniteSet(Rho) /\ Cardinality(Rho) = GroupSize(SpinDim(nspin, RHO), r)
      /\ IsFiniteSet(Sigma) /\ Cardinality(Sigma) = GroupSize(SpinDim(nspin, SIGMA), s)
      /\ IsFiniteSet(Tau) /\ Cardinality(Tau) = GroupSize(SpinDim(nspin, TAU), t)
  BY <1>1, DimRange, OrderedCount
<1>. HIDE DEF Rho, Sigma, Tau
<1>7. /\ IsFiniteSet(P)
      /\ Cardinality(P) = Cardinality(Rho) * (Cardinality(Sigma) * Cardinality(Tau))
  <2>1. IsFiniteSet(Sigma \X Tau) /\ Cardinality(Sigma \X Tau) = Cardinality(Sigma) * Cardinality(Tau)
    BY <1>6, FS_Product
  <2>2. QED
    BY <1>6, <2>1, FS_Product
<1>8. g \in [M -> P]
  BY <1>3
<1>9. g \in Surjection(M, P)
  <2>1. \A x \in P : \E w \in M : g[w] = x
    BY <1>5
  <2>2. QED
    BY <1>8, <2>1 DEF Surjection
<1>10. g \in Injection(M, P)
  <2>1. \A v, w \in M : g[v] = g[w] => v = w
    BY <1>4
  <2>2. QED
    BY <1>8, <2>1 DEF Injection, IsInjective
<1>. HIDE DEF g, P
<1>11. Cardinality(M) = Cardinality(P)
  BY <1>7, <1>9, <1>10, FS_Injection
<1>12. /\ Cardinality(Rho) \in Nat /\ Cardinality(Sigma) \in Nat /\ Cardinality(Tau) \in Nat
  BY <1>6, FS_CardinalityType
<1>13. QED
  BY <1>6, <1>7, <1>11, <1>12 DEF SplitSize, M
-----------------------------------------------------------------------------
(* For one spin every field has one component. *)
LEMMA UnpolarizedSize ==
  ASSUME NEW r, NEW s, NEW t
  PROVE  SplitSize("UNPOLARIZED", r, s, t) = 1
BY Dims DEF SplitSize, GroupSize

(* The components of a list are a positive number. *)
LEMMA SplitSizePositive ==
  ASSUME NEW nspin \in Spins, NEW r \in 0..3, NEW s \in 0..3, NEW t \in 0..3
  PROVE  SplitSize(nspin, r, s, t) \in Nat \ {0}
<1>1. /\ GroupSize(SpinDim(nspin, RHO), r) \in 1..10 /\ GroupSize(SpinDim(nspin, SIGMA), s) \in 1..10
      /\ GroupSize(SpinDim(nspin, TAU), t) \in 1..10
  BY DimRange DEF GroupSize
<1>2. \A a, b, c \in 1..10 : a * b * c \in Nat \ {0}
  OBVIOUS
<1>3. QED
  BY <1>1, <1>2 DEF SplitSize

(* The table of private dimensions and the component count agree. *)
LEMMA FieldFits ==
  ASSUME NEW nspin \in Spins, NEW k \in 1..35, NEW order \in 0..3,
         Len(PrivateFields[k].vars) = order
  PROVE  /\ PrivateDimension(nspin, PrivateFields[k], order)
              = ComponentCount(nspin, PrivateFields[k].vars)
         /\ ComponentCount(nspin, PrivateFields[k].vars) \in Nat \ {0}
         /\ Cardinality(Multisets(nspin, PrivateFields[k].vars))
              = ComponentCount(nspin, PrivateFields[k].vars)
         /\ order = 0 => ComponentCount(nspin, PrivateFields[k].vars) = 1
<1>1. k \in 1..20
  <2>1. Len(PrivateFields[k].vars) =< 3
    OBVIOUS
  <2>2. QED
    BY <2>1, FieldVariableCount
<1>2. PICK r, s, t \in 0..3 :
        /\ IsSplit(PrivateFields[k].vars, r, s, t)
        /\ PrivateFields[k].polarized = SplitSize("POLARIZED", r, s, t)
  BY <1>1, FieldShapes
<1>3. /\ ComponentCount(nspin, PrivateFields[k].vars) = SplitSize(nspin, r, s, t)
      /\ Cardinality(Multisets(nspin, PrivateFields[k].vars)) = SplitSize(nspin, r, s, t)
  BY <1>2, SplitCount, SplitMultisets
<1>4. PrivateDimension(nspin, PrivateFields[k], order) = SplitSize(nspin, r, s, t)
  <2>1. CASE nspin = "UNPOLARIZED"
    BY <2>1, UnpolarizedSize DEF PrivateDimension
  <2>2. CASE nspin = "POLARIZED"
    BY <1>2, <2>2 DEF PrivateDimension
  <2>3. QED
    BY <2>1, <2>2 DEF Spins
<1>5. order = 0 => SplitSize(nspin, r, s, t) = 1
  <2>1. ASSUME order = 0 PROVE r = 0 /\ s = 0 /\ t = 0
    <3>1. Len(PrivateFields[k].vars) = r + s + t
      BY <1>2 DEF IsSplit
    <3>2. r + s + t = 0
      BY <2>1, <3>1
    <3>3. QED
      BY <3>2
  <2>2. QED
    BY <2>1 DEF SplitSize, GroupSize
<1>6. SplitSize(nspin, r, s, t) \in Nat \ {0}
  BY SplitSizePositive
<1>7. QED
  BY <1>3, <1>4, <1>5, <1>6
-----------------------------------------------------------------------------
(* The variables of an entry the library has a buffer for. *)
Wanted(e) == IF e.order = 0 THEN << >> ELSE e.vars

(* An entry that passes the checks is the derivative of a field. *)
LEMMA AcceptedEntry ==
  ASSUME NEW i \in Impls, NEW e \in DerivEntry, Len(e.vars) \in {0, e.order},
         ValidateDerivEntry(i, e, FALSE) = "OK"
  PROVE  /\ e.order \in 0..3 /\ e.order =< MaxDerivOrder(i.set)
         /\ Len(Wanted(e)) = e.order
         /\ \E k \in 1..35 : PrivateFields[k].vars = Wanted(e)
<1>1. e.order \in Nat /\ e.vars \in Seq(Nat) /\ i.nspin \in Spins
  BY DEF DerivEntry, Impls
<1>2. MaxDerivOrder(i.set) \in 2..3
  BY DEF MaxDerivOrder
<1>3. e.order \in 0..3 /\ e.order =< MaxDerivOrder(i.set)
  BY <1>1, <1>2 DEF ValidateDerivEntry
<1>4. ASSUME e.order > 0
      PROVE  Len(e.vars) = e.order /\ VariablesStatus(i.nspin, e.vars) = "OK"
  <2>1. e.vars # << >> /\ VariablesStatus(i.nspin, e.vars) = "OK"
    BY <1>3, <1>4 DEF ValidateDerivEntry
  <2>2. QED
    BY <1>1, <2>1
<1>5. /\ Wanted(e) \in Seq(Nat) /\ Len(Wanted(e)) = e.order
      /\ \A j \in 1..Len(Wanted(e)) : Wanted(e)[j] \in {RHO, SIGMA, TAU}
      /\ \A j \in 2..Len(Wanted(e)) : Wanted(e)[j-1] =< Wanted(e)[j]
  <2>1. CASE e.order = 0
    BY <2>1 DEF Wanted
  <2>2. CASE e.order # 0
    <3>1. Wanted(e) = e.vars /\ Len(e.vars) = e.order /\ DOMAIN e.vars = 1..Len(e.vars)
      BY <1>1, <1>3, <1>4, <2>2 DEF Wanted
    <3>2. /\ \A j \in DOMAIN e.vars : e.vars[j] \in {RHO, SIGMA, TAU}
          /\ \A j \in 2..Len(e.vars) : e.vars[j-1] =< e.vars[j]
      BY <1>1, <1>3, <1>4, <2>2, CheckedVariables
    <3>3. QED
      BY <1>1, <3>1, <3>2
  <2>3. QED
    BY <2>1, <2>2
<1>6. \E k \in DOMAIN PrivateFields : PrivateFields[k].vars = Wanted(e)
  BY <1>3, <1>5, EveryListHasAField
<1>7. DOMAIN PrivateFields = 1..35
  BY NumberOfFields DEF PrivateFields
<1>8. QED
  BY <1>3, <1>5, <1>6, <1>7

(* Its buffer is found by its name. *)
LEMMA SourceOf ==
  ASSUME NEW e, \E k \in 1..35 : PrivateFields[k].vars = Wanted(e)
  PROVE  \E k \in 1..35 : /\ PrivateFields[k].vars = Wanted(e)
                          /\ SourceField(e) = PrivateFields[k].name
                          /\ SourceField(e) # "none"
<1>. DEFINE match == {i \in DOMAIN PrivateFields : PrivateFields[i].vars = Wanted(e)}
            k == CHOOSE i \in match : TRUE
<1>1. DOMAIN PrivateFields = 1..35
  BY NumberOfFields DEF PrivateFields
<1>2. match # {}
  BY <1>1
<1>3. SourceField(e) = PrivateFields[k].name
  BY <1>2 DEF SourceField, Wanted
<1>4. k \in 1..35 /\ PrivateFields[k].vars = Wanted(e)
  BY <1>1, <1>2
<1>. HIDE DEF k, match
<1>5. \A i \in 1..35 : PrivateFields[i].name # "none"
  BY FieldNameList, SMTT(60)
<1>6. QED
  BY <1>3, <1>4, <1>5

(* The checks do not depend on where the output is. *)
LEMMA SameChecks ==
  ASSUME NEW e \in DerivEntry, NEW i
  PROVE  LET allocated == [e EXCEPT !.out = TRUE]
         IN  /\ allocated.order = e.order /\ allocated.vars = e.vars
             /\ allocated.target = e.target
             /\ ValidateDerivEntry(i, allocated, TRUE) = ValidateDerivEntry(i, e, FALSE)
<1>. DEFINE allocated == [e EXCEPT !.out = TRUE]
<1>1. /\ allocated.order = e.order /\ allocated.vars = e.vars
      /\ allocated.target = e.target /\ allocated.out = TRUE
  BY DEF DerivEntry
<1>. HIDE DEF allocated
<1>2. ValidateDerivEntry(i, allocated, TRUE) = ValidateDerivEntry(i, e, FALSE)
  BY <1>1 DEF ValidateDerivEntry
<1>3. QED
  BY <1>1, <1>2 DEF allocated

(* The checks of a request of one entry. *)
LEMMA EvalOfOne ==
  ASSUME NEW i, NEW x, NEW e
  PROVE  ValidateEval(i, x, <<e>>) =
           IF i = NoImpl THEN "E_NOT_INITIALIZED"
           ELSE IF ValidateInput(x) # "OK" THEN ValidateInput(x)
           ELSE EntryStatus(i, x, e)
<1>. DEFINE bad == {j \in DOMAIN <<e>> : EntryStatus(i, x, <<e>>[j]) # "OK"}
<1>1. bad = IF EntryStatus(i, x, e) = "OK" THEN {} ELSE {1}
  OBVIOUS
<1>2. (CHOOSE j \in {1} : \A k \in {1} : j =< k) = 1
  OBVIOUS
<1>3. ValidateEval(i, x, <<e>>) =
        IF i = NoImpl THEN "E_NOT_INITIALIZED"
        ELSE IF ValidateInput(x) # "OK" THEN ValidateInput(x)
        ELSE IF bad = {} THEN "OK"
        ELSE EntryStatus(i, x, <<e>>[CHOOSE j \in bad : \A k \in bad : j =< k])
  BY DEF ValidateEval
<1>. HIDE DEF bad
<1>4. CASE EntryStatus(i, x, e) = "OK"
  BY <1>1, <1>3, <1>4
<1>5. CASE EntryStatus(i, x, e) # "OK"
  BY <1>1, <1>2, <1>3, <1>5
<1>6. QED
  BY <1>4, <1>5

(* The backend refuses nothing the handle accepts. *)
LEMMA BackendOfOne ==
  ASSUME NEW i \in Impls, NEW e, e.order \in 0..3, e.order =< MaxDerivOrder(i.set)
  PROVE  BackendStatus(i.set, <<e>>) = "OK"
<1>1. MaxRequestedOrder(<<e>>) = e.order
  BY DEF MaxRequestedOrder
<1>2. i.set \in {"ML25", "ML26"}
  BY DEF Impls, FeatureSets
<1>3. WorkTable(i.set)[e.order]
  <2>1. e.order =< GeneratedOrder(i.set)
    BY <1>2 DEF GeneratedOrder, MaxDerivOrder
  <2>2. e.order \in 0..4
    OBVIOUS
  <2>3. QED
    BY <2>1, <2>2 DEF WorkTable
<1>4. QED
  BY <1>1, <1>2, <1>3 DEF BackendStatus, HasCombinedOrder, MaxDerivOrder
-----------------------------------------------------------------------------
(* A caller has been told what the code says of its entry, and evaluates it
   only then. *)
SizingInv ==
  /\ impl \in Impls \cup {NoImpl} /\ input \in Inputs /\ entry \in Entries
  /\ sized \in {Unsized, Told}
  /\ used \in {Unused, Outcome}
  /\ used # Unused => sized = Told

(* What a caller is told, and what the evaluation does, is decided by the
   entry, the grid and the handle: every answer is the one of those. *)
THEOREM SizingInvariant == Spec => []SizingInv
<1>1. Init => SizingInv
  BY DEF Init, SizingInv
<1>2. SizingInv /\ [Next]_vars => SizingInv'
  <2>. SUFFICES ASSUME SizingInv, [Next]_vars PROVE SizingInv'
    OBVIOUS
  <2>1. impl' = impl /\ input' = input /\ entry' = entry
    BY DEF Next, AskSize, Evaluate, vars
  <2>2. Told' = Told /\ Outcome' = Outcome
    BY <2>1 DEF Told, Outcome, Writes, Reads, BufferLength
  <2>3. CASE AskSize
    BY <2>1, <2>2, <2>3 DEF AskSize, SizingInv
  <2>4. CASE Evaluate
    BY <2>1, <2>2, <2>4 DEF Evaluate, SizingInv
  <2>5. CASE UNCHANGED vars
    BY <2>1, <2>2, <2>5 DEF vars, SizingInv
  <2>6. QED
    BY <2>3, <2>4, <2>5 DEF Next
<1>3. QED
  BY <1>1, <1>2, PTL DEF Spec

(* What the evaluation of an accepted entry does. *)
Allowed ==
  IF entry.target = "INTEGRAL" /\ ~input.weights
  THEN [Unused EXCEPT !.status = "E_MISSING_INPUT"]
  ELSE IF entry.order = 0 /\ entry.target = "INTEGRAL"
  THEN [Unused EXCEPT !.status = "OK", !.writes = Writes]
  ELSE IF input.npoints = 0
  THEN [Unused EXCEPT !.status = "E_INTERNAL"]
  ELSE [status |-> "OK", writes |-> Writes, source |-> SourceField(entry),
        reads |-> Reads, length |-> BufferLength(SourceField(entry))]

(* An accepted entry has a buffer, and no check refuses it but for the weights
   and the points. *)
LEMMA OutcomeOfAccepted ==
  ASSUME SizingInv, OutputSizeStatus(impl, input, entry) = "OK"
  PROVE  /\ impl \in Impls /\ entry \in DerivEntry /\ entry.order \in 0..3
         /\ Len(Wanted(entry)) = entry.order
         /\ \E k \in 1..35 : /\ PrivateFields[k].vars = Wanted(entry)
                              /\ SourceField(entry) = PrivateFields[k].name
         /\ Outcome = Allowed
<1>. DEFINE allocated == [entry EXCEPT !.out = TRUE]
<1>1. entry \in DerivEntry /\ Len(entry.vars) \in {0, entry.order}
  BY SizingAssumption DEF SizingInv
<1>2. /\ impl # NoImpl /\ ValidateInput(input) = "OK"
      /\ ValidateDerivEntry(impl, entry, FALSE) = "OK"
      /\ entry.target \in Targets
  BY DEF OutputSizeStatus
<1>3. impl \in Impls
  BY <1>2 DEF SizingInv
<1>4. /\ entry.order \in 0..3 /\ entry.order =< MaxDerivOrder(impl.set)
      /\ Len(Wanted(entry)) = entry.order
      /\ \E k \in 1..35 : PrivateFields[k].vars = Wanted(entry)
  BY <1>1, <1>2, <1>3, AcceptedEntry
<1>5. /\ SourceField(entry) # "none"
      /\ \E k \in 1..35 : /\ PrivateFields[k].vars = Wanted(entry)
                           /\ SourceField(entry) = PrivateFields[k].name
  BY <1>4, SourceOf
<1>6. /\ allocated.order = entry.order /\ allocated.target = entry.target
      /\ ValidateDerivEntry(impl, allocated, TRUE) = "OK"
  BY <1>1, <1>2, SameChecks
<1>7. ValidateEval(impl, input, <<allocated>>) =
        IF entry.target = "INTEGRAL" /\ ~input.weights THEN "E_MISSING_INPUT" ELSE "OK"
  <2>. HIDE DEF allocated
  <2>1. ValidateEval(impl, input, <<allocated>>) = EntryStatus(impl, input, allocated)
    BY <1>2, EvalOfOne
  <2>2. QED
    BY <1>2, <1>6, <2>1 DEF EntryStatus
<1>8. BackendStatus(impl.set, <<allocated>>) = "OK"
  <2>. HIDE DEF allocated
  <2>1. QED
    BY <1>3, <1>4, <1>6, BackendOfOne
<1>9. CASE entry.target = "INTEGRAL" /\ ~input.weights
  BY <1>1, <1>3, <1>4, <1>5, <1>7, <1>9 DEF Outcome, Allowed
<1>10. CASE ~(entry.target = "INTEGRAL" /\ ~input.weights)
  BY <1>1, <1>3, <1>4, <1>5, <1>7, <1>8, <1>10 DEF Outcome, Allowed
<1>11. QED
  BY <1>9, <1>10

(* A refused entry is refused with the same status by the evaluation. *)
LEMMA OutcomeOfRefused ==
  ASSUME SizingInv, OutputSizeStatus(impl, input, entry) # "OK"
  PROVE  Outcome = [Unused EXCEPT !.status = OutputSizeStatus(impl, input, entry)]
<1>. DEFINE allocated == [entry EXCEPT !.out = TRUE]
            told == OutputSizeStatus(impl, input, entry)
<1>1. entry \in DerivEntry
  BY SizingAssumption DEF SizingInv
<1>2. /\ allocated.target = entry.target
      /\ ValidateDerivEntry(impl, allocated, TRUE) = ValidateDerivEntry(impl, entry, FALSE)
  BY <1>1, SameChecks
<1>3. ValidateEval(impl, input, <<allocated>>) = told
  <2>1. EntryStatus(impl, input, allocated) =
          IF ValidateDerivEntry(impl, entry, FALSE) # "OK"
          THEN ValidateDerivEntry(impl, entry, FALSE)
          ELSE IF entry.target = "INTEGRAL" /\ ~input.weights THEN "E_MISSING_INPUT"
          ELSE IF entry.target \notin Targets THEN "E_INVALID_ARGUMENT"
          ELSE "OK"
    <3>. HIDE DEF allocated
    <3>1. QED
      BY <1>2 DEF EntryStatus
  <2>. HIDE DEF allocated
  <2>2. QED
    BY <2>1, EvalOfOne DEF OutputSizeStatus, Targets
<1>. HIDE DEF told
<1>4. Outcome = [Unused EXCEPT !.status = told]
  BY <1>3 DEF Outcome, told
<1>5. QED
  BY <1>4 DEF told

(* The number of components of an accepted entry, which is what its field
   has. *)
LEMMA EntryFits ==
  ASSUME SizingInv, OutputSizeStatus(impl, input, entry) = "OK"
  PROVE  /\ input.npoints \in Nat /\ NFeatures(impl.set) \in Nat \ {0}
         /\ EntryComponents(impl.nspin, entry) \in Nat \ {0}
         /\ entry.order > 0 => Cardinality(Multisets(impl.nspin, entry.vars))
                                 = EntryComponents(impl.nspin, entry)
         /\ BufferLength(SourceField(entry)) =
              input.npoints * (EntryComponents(impl.nspin, entry) * NFeatures(impl.set))
<1>1. /\ impl \in Impls /\ entry \in DerivEntry /\ entry.order \in 0..3
      /\ Len(Wanted(entry)) = entry.order
      /\ \E k \in 1..35 : /\ PrivateFields[k].vars = Wanted(entry)
                           /\ SourceField(entry) = PrivateFields[k].name
  BY OutcomeOfAccepted
<1>2. PICK k \in 1..35 : /\ PrivateFields[k].vars = Wanted(entry)
                         /\ SourceField(entry) = PrivateFields[k].name
  BY <1>1
<1>3. input.npoints \in Nat /\ NFeatures(impl.set) \in Nat \ {0} /\ impl.nspin \in Spins
  BY <1>1, SizingAssumption DEF SizingInv, NFeatures, Impls
<1>4. Len(PrivateFields[k].vars) = entry.order
  BY <1>1, <1>2
<1>5. /\ PrivateDimension(impl.nspin, PrivateFields[k], entry.order)
           = ComponentCount(impl.nspin, PrivateFields[k].vars)
      /\ ComponentCount(impl.nspin, PrivateFields[k].vars) \in Nat \ {0}
      /\ Cardinality(Multisets(impl.nspin, PrivateFields[k].vars))
           = ComponentCount(impl.nspin, PrivateFields[k].vars)
      /\ entry.order = 0 => ComponentCount(impl.nspin, PrivateFields[k].vars) = 1
  BY <1>1, <1>3, <1>4, FieldFits
<1>6. EntryComponents(impl.nspin, entry) = ComponentCount(impl.nspin, PrivateFields[k].vars)
  <2>1. CASE entry.order = 0
    BY <1>5, <2>1 DEF EntryComponents
  <2>2. CASE entry.order # 0
    BY <1>2, <2>2 DEF EntryComponents, Wanted
  <2>3. QED
    BY <2>1, <2>2
<1>7. entry.order > 0 => PrivateFields[k].vars = entry.vars
  BY <1>2 DEF Wanted
<1>8. BufferLength(SourceField(entry)) =
        input.npoints * (PrivateDimension(impl.nspin, PrivateFields[k], entry.order)
                         * NFeatures(impl.set))
  <2>. DEFINE Rows == {PrivateFields[i] : i \in DOMAIN PrivateFields}
              field == CHOOSE f \in Rows : f.name = SourceField(entry)
  <2>1. DOMAIN PrivateFields = 1..35
    BY NumberOfFields DEF PrivateFields
  <2>2. PrivateFields[k] \in Rows /\ PrivateFields[k].name = SourceField(entry)
    BY <1>2, <2>1
  <2>3. \A f \in Rows : f.name = SourceField(entry) => f = PrivateFields[k]
    <3>1. ASSUME NEW i \in 1..35, PrivateFields[i].name = PrivateFields[k].name
          PROVE  i = k
      BY <1>2, <2>1, <3>1, FieldNamesDiffer, NumberOfFields
    <3>2. QED
      BY <2>1, <2>2, <3>1
  <2>4. field = PrivateFields[k]
    <3>. HIDE DEF Rows
    <3>1. QED
      BY <2>2, <2>3
  <2>5. QED
    BY <2>4 DEF BufferLength
<1>9. QED
  BY <1>3, <1>5, <1>6, <1>7, <1>8
-----------------------------------------------------------------------------
(* For every entry and grid the two entry points accept and refuse the same
   entries, but for the weights and the points only the evaluation needs. *)
THEOREM SizedAreEvaluated == Spec => []SizedIffEvaluated
<1>1. SizingInv => SizedIffEvaluated
  <2>. SUFFICES ASSUME SizingInv, used.status # "none" PROVE
         \/ used.status = sized.status
         \/ /\ sized.status = "OK"
            /\ \/ used.status = "E_MISSING_INPUT" /\ ~input.weights
               \/ used.status = "E_INTERNAL" /\ input.npoints = 0
    BY DEF SizedIffEvaluated
  <2>1. used = Outcome /\ sized = Told
    BY DEF SizingInv, Unused
  <2>2. sized.status = OutputSizeStatus(impl, input, entry)
    BY <2>1 DEF Told
  <2>3. CASE sized.status = "OK"
    <3>1. used = Allowed
      BY <2>1, <2>2, <2>3, OutcomeOfAccepted
    <3>2. Allowed.status \in {"OK", "E_MISSING_INPUT", "E_INTERNAL"}
          /\ (Allowed.status = "E_MISSING_INPUT" => ~input.weights)
          /\ (Allowed.status = "E_INTERNAL" => input.npoints = 0)
      BY DEF Allowed, Unused
    <3>3. QED
      BY <2>3, <3>1, <3>2
  <2>4. CASE sized.status # "OK"
    BY <2>1, <2>2, <2>4, OutcomeOfRefused DEF Unused
  <2>5. QED
    BY <2>3, <2>4
<1>2. QED
  BY <1>1, SizingInvariant, PTL

(* The loops of an evaluation write the size the caller was told, for every
   entry, grid and width of size_t, unless the size does not fit that width. *)
THEOREM ToldSizeIsWritten == Spec => []WritesTheToldSize
<1>1. SizingInv => WritesTheToldSize
  <2>. SUFFICES ASSUME SizingInv, used.status = "OK", used.writes < 2^SizeBits
                PROVE  used.writes = sized.cells
    BY DEF WritesTheToldSize
  <2>1. used = Outcome /\ sized = Told
    BY DEF SizingInv, Unused
  <2>2. OutputSizeStatus(impl, input, entry) = "OK"
    BY <2>1, OutcomeOfRefused DEF Unused
  <2>3. used.writes = Writes
    <3>1. used = Allowed
      BY <2>1, <2>2, OutcomeOfAccepted
    <3>2. Allowed.status = "OK" => Allowed.writes = Writes
      BY DEF Allowed, Unused
    <3>3. QED
      BY <3>1, <3>2
  <2>4. Writes = OutputSize(impl, input, entry) /\ Writes \in Nat
    BY <2>2, EntryFits DEF Writes, OutputSize
  <2>5. sized.cells = Writes % (2^SizeBits)
    BY <2>1, <2>2, <2>4 DEF Told
  <2>6. 2^SizeBits \in Int
    BY SizingAssumption
  <2>7. QED
    BY <2>3, <2>4, <2>5, <2>6
<1>2. QED
  BY <1>1, SizingInvariant, PTL

(* The copy of every entry reads the private buffer of its field to the end. *)
THEOREM BufferIsReadToItsEnd == Spec => []ReadsItsBuffer
<1>1. SizingInv => ReadsItsBuffer
  <2>. SUFFICES ASSUME SizingInv, used.source # "none"
                PROVE  used.length = used.reads /\ used.reads > 0
    BY DEF ReadsItsBuffer
  <2>1. used = Outcome
    BY DEF SizingInv, Unused
  <2>2. OutputSizeStatus(impl, input, entry) = "OK"
    BY <2>1, OutcomeOfRefused DEF Unused
  <2>3. /\ input.npoints # 0
        /\ used.reads = Reads /\ used.length = BufferLength(SourceField(entry))
    <3>1. used = Allowed
      BY <2>1, <2>2, OutcomeOfAccepted
    <3>2. Allowed.source # "none" =>
            /\ input.npoints # 0
            /\ Allowed.reads = Reads /\ Allowed.length = BufferLength(SourceField(entry))
      BY DEF Allowed, Unused
    <3>3. QED
      BY <3>1, <3>2
  <2>4. BufferLength(SourceField(entry)) = Reads /\ Reads > 0
    <3>. DEFINE x == input.npoints
                f == NFeatures(impl.set)
                c == EntryComponents(impl.nspin, entry)
    <3>1. x \in Nat \ {0} /\ f \in Nat \ {0} /\ c \in Nat \ {0}
      BY <2>2, <2>3, EntryFits
    <3>2. BufferLength(SourceField(entry)) = x * (c * f) /\ Reads = x * f * c
      BY <2>2, EntryFits DEF Reads
    <3>. HIDE DEF x, f, c
    <3>3. x * (c * f) = x * f * c /\ x * f * c > 0
      BY <3>1
    <3>4. QED
      BY <3>2, <3>3
  <2>5. QED
    BY <2>3, <2>4
<1>2. QED
  BY <1>1, SizingInvariant, PTL

(* The binomials of the size, divided one at a time, count the documented
   components of every derivative. *)
THEOREM SizeIsTheDocumented == Spec => []SizeCountsComponents
<1>1. SizingInv => SizeCountsComponents
  <2>. DEFINE size == NFeatures(impl.set) * Cardinality(Multisets(impl.nspin, entry.vars))
                      * input.npoints
  <2>. SUFFICES ASSUME SizingInv, sized.status = "OK", entry.order > 0, size < 2^SizeBits
                PROVE  sized.cells = NFeatures(impl.set) * input.npoints
                                     * Cardinality(Multisets(impl.nspin, entry.vars))
    BY DEF SizeCountsComponents
  <2>1. sized = Told
    BY DEF SizingInv, Unsized
  <2>2. OutputSizeStatus(impl, input, entry) = "OK"
    BY <2>1 DEF Told
  <2>3. /\ input.npoints \in Nat /\ NFeatures(impl.set) \in Nat
        /\ Cardinality(Multisets(impl.nspin, entry.vars)) \in Nat
        /\ Cardinality(Multisets(impl.nspin, entry.vars)) = EntryComponents(impl.nspin, entry)
    BY <2>2, EntryFits
  <2>4. sized.cells = size % (2^SizeBits)
    BY <2>1, <2>2, <2>3 DEF Told, OutputSize
  <2>5. 2^SizeBits \in Int /\ size \in Nat
    BY <2>3, SizingAssumption
  <2>6. sized.cells = size
    BY <2>4, <2>5
  <2>7. QED
    BY <2>3, <2>6
<1>2. QED
  BY <1>1, SizingInvariant, PTL
=============================================================================
