------------------------------ MODULE FolioProofs ------------------------------
(***************************************************************************)
(* Proofs about the money of bookings: of the folio, for any bookings,     *)
(* groups and prices, and of the bill of a stay that is lengthened, for    *)
(* any base price, hour of arrival, special day and number of nights.      *)
(***************************************************************************)
EXTENDS GroupFolio, StayQuote, FiniteSetTheorems, WellFoundedInduction, TLAPS

-----------------------------------------------------------------------------
(* Induction over numbers and over finite sets. *)

\* A nonempty set of naturals has a least element.
LEMMA LeastNatural ==
  ASSUME NEW S \in SUBSET Nat, S # {}
  PROVE  \E m \in S : \A n \in S : m <= n
<1>1. \E m \in S : \A n \in S : <<n, m>> \notin OpToRel(<, Nat)
  BY NatLessThanWellFounded, WFMin
<1>2. \A m, n \in Nat : <<n, m>> \notin OpToRel(<, Nat) => m <= n
  BY DEF OpToRel
<1> QED
  BY <1>1, <1>2

\* Induction over Nat and over a finite set, for sets rather than for predicates.
LEMMA EveryNatural ==
  ASSUME NEW G, 0 \in G, \A n \in Nat : n \in G => n + 1 \in G
  PROVE  Nat \subseteq G
<1>. SUFFICES ASSUME Nat \ G # {} PROVE FALSE
  OBVIOUS
<1>1. PICK m \in Nat \ G : \A n \in Nat \ G : m <= n
  BY LeastNatural
<1>2. m - 1 \in Nat /\ m - 1 \in G
  BY <1>1
<1>. QED
  BY <1>1, <1>2

LEMMA EverySubset ==
  ASSUME NEW S, IsFiniteSet(S), NEW G, {} \in G,
         \A T \in SUBSET S : T # {} /\ (\A x \in T : T \ {x} \in G) => T \in G
  PROVE  \A T \in SUBSET S : T \in G
<1> DEFINE Sized(n) == {T \in SUBSET S : Cardinality(T) = n}
           N == {n \in Nat : Sized(n) \subseteq G}
<1>1. \A T \in SUBSET S : IsFiniteSet(T) /\ Cardinality(T) \in Nat
  BY FS_Subset, FS_CardinalityType
<1>2. 0 \in N
  BY <1>1, FS_EmptySet
<1>3. ASSUME NEW n \in Nat, n \in N
      PROVE  n + 1 \in N
  <2>1. ASSUME NEW T \in Sized(n + 1)
        PROVE  T \in G
    <3>1. T # {} /\ IsFiniteSet(T) /\ Cardinality(T) = n + 1
      BY <1>1, FS_EmptySet
    <3>2. ASSUME NEW x \in T
          PROVE  T \ {x} \in G
      <4>1. Cardinality(T \ {x}) = IF x \in T THEN Cardinality(T) - 1
                                   ELSE Cardinality(T)
        BY <3>1, FS_RemoveElement
      <4>2. Cardinality(T \ {x}) = n /\ T \ {x} \in SUBSET S
        BY <3>1, <4>1
      <4>. QED
        BY <1>3, <4>2
    <3>. QED
      BY <3>1, <3>2
  <2>. QED
    BY <2>1
<1>4. Nat \subseteq N
  <2>. HIDE DEF N
  <2>. QED
    BY <1>2, <1>3, EveryNatural
<1>. QED
  BY <1>1, <1>4

-----------------------------------------------------------------------------
(* The fold. *)

Pick(S) == CHOOSE x \in S : TRUE

Summing(f, S, h) ==
  h = [s \in SUBSET S |-> IF s = {} THEN 0 ELSE f[Pick(s)] + h[s \ {Pick(s)}]]

LEMMA SumIsFold ==
  ASSUME NEW f, NEW S
  PROVE  SumFunctionOnSet(f, S) = (CHOOSE h : Summing(f, S, h))[S]
BY DEF SumFunctionOnSet, FoldFunctionOnSet, MapThenFoldSet, Summing, Pick

\* The recursive function is there: built up to sets of n elements, for every n.
LEMMA SumExists ==
  ASSUME NEW f, NEW S, IsFiniteSet(S)
  PROVE  \E h : Summing(f, S, h)
<1> DEFINE UpTo(n) == {T \in SUBSET S : Cardinality(T) <= n}
           Sums(n, h) ==
             h = [s \in UpTo(n) |->
                    IF s = {} THEN 0 ELSE f[Pick(s)] + h[s \ {Pick(s)}]]
           N == {n \in Nat : \E h : Sums(n, h)}
<1>1. \A T \in SUBSET S : /\ IsFiniteSet(T) /\ Cardinality(T) \in Nat
                          /\ Cardinality(T) = 0 <=> T = {}
  BY FS_Subset, FS_CardinalityType, FS_EmptySet
<1>2. ASSUME NEW T \in SUBSET S, T # {}
      PROVE  /\ Pick(T) \in T /\ T \ {Pick(T)} \in SUBSET S
             /\ Cardinality(T \ {Pick(T)}) = Cardinality(T) - 1
  <2>1. Pick(T) \in T
    BY <1>2 DEF Pick
  <2>2. Cardinality(T \ {Pick(T)}) =
          IF Pick(T) \in T THEN Cardinality(T) - 1 ELSE Cardinality(T)
    BY <1>1, FS_RemoveElement
  <2>. QED
    BY <2>1, <2>2
<1>3. 0 \in N
  <2>1. UpTo(0) = {{}}
    BY <1>1, FS_EmptySet
  <2>2. Sums(0, [s \in {{}} |-> 0])
    BY <2>1
  <2>. QED
    BY <2>2
<1>4. ASSUME NEW n \in Nat, n \in N
      PROVE  n + 1 \in N
  <2>1. PICK h : Sums(n, h)
    BY <1>4
  <2> DEFINE k == [s \in UpTo(n + 1) |->
                     IF s \in UpTo(n) THEN h[s]
                     ELSE f[Pick(s)] + h[s \ {Pick(s)}]]
  <2>2. ASSUME NEW s \in UpTo(n + 1), s # {}
        PROVE  k[s] = f[Pick(s)] + k[s \ {Pick(s)}]
    <3>1. s \ {Pick(s)} \in UpTo(n)
      BY <1>1, <1>2, <2>2
    <3>2. s \ {Pick(s)} \in UpTo(n + 1)
      BY <1>1, <3>1
    <3>3. k[s \ {Pick(s)}] = h[s \ {Pick(s)}]
      BY <3>1, <3>2
    <3>4. s \in UpTo(n) => h[s] = f[Pick(s)] + h[s \ {Pick(s)}]
      BY <2>1, <2>2
    <3>. QED
      BY <2>2, <3>3, <3>4
  <2>3. k[{}] = 0
    <3>1. {} \in UpTo(n) /\ {} \in UpTo(n + 1)
      BY FS_EmptySet
    <3>. QED
      BY <2>1, <3>1
  <2>4. k = [s \in UpTo(n + 1) |->
               IF s = {} THEN 0 ELSE f[Pick(s)] + k[s \ {Pick(s)}]]
    <3>1. k = [s \in UpTo(n + 1) |-> k[s]]
      OBVIOUS
    <3>. HIDE DEF k
    <3>. QED
      BY <2>2, <2>3, <3>1
  <2>5. \E i : Sums(n + 1, i)
    <3>. HIDE DEF k
    <3>. QED
      BY <2>4
  <2>. HIDE DEF Sums
  <2>. QED
    BY <2>5
<1>5. Cardinality(S) \in N
  <2>1. Cardinality(S) \in Nat
    BY FS_CardinalityType
  <2>2. Nat \subseteq N
    <3>. HIDE DEF N
    <3>. QED
      BY <1>3, <1>4, EveryNatural
  <2>. QED
    BY <2>1, <2>2
<1>6. UpTo(Cardinality(S)) = SUBSET S
  BY FS_Subset
<1>. QED
  BY <1>5, <1>6 DEF Summing

LEMMA SumUnfolds ==
  ASSUME NEW f, NEW S, IsFiniteSet(S), NEW h, Summing(f, S, h)
  PROVE  \A T \in SUBSET S : SumFunctionOnSet(f, T) = h[T]
<1>1. ASSUME NEW T \in SUBSET S
      PROVE  SumFunctionOnSet(f, T) = h[T]
  <2>1. IsFiniteSet(T)
    BY FS_Subset
  <2>2. PICK k : k = (CHOOSE i : Summing(f, T, i))
    OBVIOUS
  <2>3. Summing(f, T, k)
    BY <2>1, <2>2, SumExists
  <2> DEFINE G == {U \in SUBSET T : h[U] = k[U]}
  <2>4. {} \in G
    BY <2>3 DEF Summing
  <2>5. ASSUME NEW U \in SUBSET T, U # {}, \A x \in U : U \ {x} \in G
        PROVE  U \in G
    <3>1. Pick(U) \in U /\ U \in SUBSET S
      BY <2>5 DEF Pick
    <3>2. /\ h[U] = f[Pick(U)] + h[U \ {Pick(U)}]
          /\ k[U] = f[Pick(U)] + k[U \ {Pick(U)}]
      BY <2>3, <2>5, <3>1 DEF Summing
    <3>3. h[U \ {Pick(U)}] = k[U \ {Pick(U)}]
      BY <2>5, <3>1
    <3>. QED
      BY <3>2, <3>3
  <2>6. \A U \in SUBSET T : U \in G
    <3>. HIDE DEF G
    <3>. QED
      BY <2>1, <2>4, <2>5, EverySubset
  <2>9. h[T] = k[T]
    BY <2>6
  <2>. QED
    BY <2>2, <2>9, SumIsFold
<1>. QED
  BY <1>1

\* The sum over no element, and over the picked one and the others.
LEMMA SumEmpty ==
  ASSUME NEW f
  PROVE  SumFunctionOnSet(f, {}) = 0
<1>1. IsFiniteSet({})
  BY FS_EmptySet
<1>2. PICK h : Summing(f, {}, h)
  BY <1>1, SumExists
<1>3. SumFunctionOnSet(f, {}) = h[{}]
  BY <1>1, <1>2, SumUnfolds
<1>. QED
  BY <1>2, <1>3 DEF Summing

LEMMA SumPick ==
  ASSUME NEW f, NEW S, IsFiniteSet(S), S # {}
  PROVE  SumFunctionOnSet(f, S) = f[Pick(S)] + SumFunctionOnSet(f, S \ {Pick(S)})
<1>1. PICK h : Summing(f, S, h)
  BY SumExists
<1>2. \A T \in SUBSET S : SumFunctionOnSet(f, T) = h[T]
  BY <1>1, SumUnfolds
<1>3. S \in SUBSET S /\ S \ {Pick(S)} \in SUBSET S
  OBVIOUS
<1>4. h[S] = f[Pick(S)] + h[S \ {Pick(S)}]
  BY <1>1, <1>3 DEF Summing
<1>. QED
  BY <1>2, <1>3, <1>4

-----------------------------------------------------------------------------
(* Sums of integers. *)

\* A sum is an integer, and any of its terms may be taken off it.
LEMMA SumTerm ==
  ASSUME NEW f, NEW S, IsFiniteSet(S), \A x \in S : f[x] \in Int
  PROVE  /\ SumFunctionOnSet(f, S) \in Int
         /\ \A x \in S : SumFunctionOnSet(f, S) = f[x] + SumFunctionOnSet(f, S \ {x})
<1> DEFINE Sum(T) == SumFunctionOnSet(f, T)
           I == {T \in SUBSET S : Sum(T) \in Int}
           G == {T \in SUBSET S : \A x \in T : Sum(T) = f[x] + Sum(T \ {x})}
<1>1. \A T \in SUBSET S : IsFiniteSet(T)
  BY FS_Subset
<1>2. ASSUME NEW T \in SUBSET S, T # {}
      PROVE  Pick(T) \in T /\ Sum(T) = f[Pick(T)] + Sum(T \ {Pick(T)})
  BY <1>1, <1>2, SumPick DEF Pick
<1>3. \A T \in SUBSET S : Sum(T) \in Int
  <2>1. {} \in I
    BY SumEmpty
  <2>2. ASSUME NEW T \in SUBSET S, T # {}, \A x \in T : T \ {x} \in I
        PROVE  T \in I
    <3>1. Pick(T) \in T /\ Sum(T) = f[Pick(T)] + Sum(T \ {Pick(T)})
      BY <1>2, <2>2
    <3>2. Sum(T \ {Pick(T)}) \in Int /\ f[Pick(T)] \in Int
      BY <2>2, <3>1
    <3>. QED
      BY <3>1, <3>2
  <2>3. \A T \in SUBSET S : T \in I
    <3>. HIDE DEF I
    <3>. QED
      BY <2>1, <2>2, EverySubset
  <2>. QED
    BY <2>3
<1>4. ASSUME NEW T \in SUBSET S, T # {}, \A x \in T : T \ {x} \in G
      PROVE  T \in G
  <2>1. PICK c : c = Pick(T)
    OBVIOUS
  <2>2. c \in T /\ f[c] \in Int /\ Sum(T) = f[c] + Sum(T \ {c})
    BY <1>2, <1>4, <2>1
  <2>3. ASSUME NEW x \in T, x # c
        PROVE  Sum(T) = f[x] + Sum(T \ {x})
    <3>1. PICK U : U = T \ {c, x}
      OBVIOUS
    <3>2. U = (T \ {c}) \ {x} /\ U = (T \ {x}) \ {c}
      BY <3>1
    <3>3. Sum(T \ {c}) = f[x] + Sum(U) /\ Sum(T \ {x}) = f[c] + Sum(U)
      BY <1>4, <2>2, <2>3, <3>2
    <3>4. Sum(U) \in Int /\ f[x] \in Int
      BY <1>3, <3>1
    <3>. HIDE DEF Sum
    <3>. QED
      BY <2>2, <3>3, <3>4
  <2>. QED
    BY <2>2, <2>3
<1>5. \A T \in SUBSET S : T \in G
  <2>1. {} \in G
    OBVIOUS
  <2>. HIDE DEF G
  <2>. QED
    BY <1>4, <2>1, EverySubset
<1>. QED
  BY <1>3, <1>5

\* Functions that agree on a set have the same sum over it.
LEMMA SumEqual ==
  ASSUME NEW S, IsFiniteSet(S), NEW f, NEW g,
         \A x \in S : f[x] \in Int /\ g[x] = f[x]
  PROVE  SumFunctionOnSet(g, S) = SumFunctionOnSet(f, S)
<1> DEFINE F(T) == SumFunctionOnSet(f, T)
           H(T) == SumFunctionOnSet(g, T)
           G == {T \in SUBSET S : H(T) = F(T)}
<1>1. {} \in G
  BY SumEmpty
<1>2. ASSUME NEW T \in SUBSET S, T # {}, \A x \in T : T \ {x} \in G
      PROVE  T \in G
  <2>1. PICK x \in T : TRUE
    BY <1>2
  <2>2. IsFiniteSet(T) /\ \A y \in T : f[y] \in Int /\ g[y] \in Int
    BY FS_Subset
  <2>3. F(T) = f[x] + F(T \ {x}) /\ H(T) = g[x] + H(T \ {x})
    BY <2>2, SumTerm
  <2>. QED
    BY <1>2, <2>3
<1>3. \A T \in SUBSET S : T \in G
  <2>. HIDE DEF G
  <2>. QED
    BY <1>1, <1>2, EverySubset
<1>. QED
  BY <1>3

\* A sum of sums.
LEMMA SumPlus ==
  ASSUME NEW S, IsFiniteSet(S), NEW f, NEW g, NEW h,
         \A x \in S : f[x] \in Int /\ g[x] \in Int /\ h[x] = f[x] + g[x]
  PROVE  SumFunctionOnSet(h, S) = SumFunctionOnSet(f, S) + SumFunctionOnSet(g, S)
<1> DEFINE F(T) == SumFunctionOnSet(f, T)
           K(T) == SumFunctionOnSet(g, T)
           H(T) == SumFunctionOnSet(h, T)
           G == {T \in SUBSET S : H(T) = F(T) + K(T)}
<1>1. {} \in G
  BY SumEmpty
<1>2. ASSUME NEW T \in SUBSET S, T # {}, \A x \in T : T \ {x} \in G
      PROVE  T \in G
  <2>1. PICK x \in T : TRUE
    BY <1>2
  <2>2. IsFiniteSet(T) /\ \A y \in T : f[y] \in Int /\ g[y] \in Int /\ h[y] \in Int
    BY FS_Subset
  <2>3. /\ F(T) = f[x] + F(T \ {x}) /\ K(T) = g[x] + K(T \ {x})
        /\ H(T) = h[x] + H(T \ {x})
    BY <2>2, SumTerm
  <2>4. IsFiniteSet(T \ {x})
    BY <2>2, FS_Subset
  <2>5. F(T \ {x}) \in Int /\ K(T \ {x}) \in Int
    BY <2>2, <2>4, SumTerm
  <2>6. H(T \ {x}) = F(T \ {x}) + K(T \ {x})
    BY <1>2
  <2>. HIDE DEF F, K, H
  <2>. QED
    BY <2>2, <2>3, <2>5, <2>6
<1>3. \A T \in SUBSET S : T \in G
  <2>. HIDE DEF G
  <2>. QED
    BY <1>1, <1>2, EverySubset
<1>. QED
  BY <1>3

\* A sum of multiples.
LEMMA SumTimes ==
  ASSUME NEW S, IsFiniteSet(S), NEW c \in Int, NEW f, NEW g,
         \A x \in S : f[x] \in Int /\ g[x] = c * f[x]
  PROVE  SumFunctionOnSet(g, S) = c * SumFunctionOnSet(f, S)
<1> DEFINE F(T) == SumFunctionOnSet(f, T)
           H(T) == SumFunctionOnSet(g, T)
           G == {T \in SUBSET S : H(T) = c * F(T)}
<1>1. {} \in G
  BY SumEmpty
<1>2. ASSUME NEW T \in SUBSET S, T # {}, \A x \in T : T \ {x} \in G
      PROVE  T \in G
  <2>1. PICK x \in T : TRUE
    BY <1>2
  <2>2. IsFiniteSet(T) /\ \A y \in T : f[y] \in Int /\ g[y] \in Int
    BY FS_Subset
  <2>3. F(T) = f[x] + F(T \ {x}) /\ H(T) = g[x] + H(T \ {x})
    <3>1. \A y \in T : g[y] \in Int
      BY <2>2
    <3>2. H(T) = g[x] + H(T \ {x})
      BY <2>2, <3>1, SumTerm
    <3>3. \A y \in T : f[y] \in Int
      BY <2>2
    <3>. QED
      BY <2>2, <3>2, <3>3, SumTerm
  <2>4. IsFiniteSet(T \ {x})
    BY <2>2, FS_Subset
  <2>5. F(T \ {x}) \in Int
    BY <2>2, <2>4, SumTerm
  <2>6. H(T \ {x}) = c * F(T \ {x}) /\ g[x] = c * f[x]
    BY <1>2
  <2>7. \A m, n \in Int : c * (m + n) = c * m + c * n
    OBVIOUS
  <2>8. c * F(T) = c * f[x] + c * F(T \ {x})
    BY <2>2, <2>3, <2>5, <2>7
  <2>. HIDE DEF F, H
  <2>. QED
    BY <2>3, <2>6, <2>8
<1>3. \A T \in SUBSET S : T \in G
  <2>. HIDE DEF G
  <2>. QED
    BY <1>1, <1>2, EverySubset
<1>. QED
  BY <1>3

\* A sum of terms none of which is larger is no larger.
LEMMA SumAtMost ==
  ASSUME NEW S, IsFiniteSet(S), NEW f, NEW g,
         \A x \in S : f[x] \in Int /\ g[x] \in Int /\ f[x] <= g[x]
  PROVE  SumFunctionOnSet(f, S) <= SumFunctionOnSet(g, S)
<1> DEFINE F(T) == SumFunctionOnSet(f, T)
           H(T) == SumFunctionOnSet(g, T)
           G == {T \in SUBSET S : F(T) <= H(T)}
<1>1. {} \in G
  BY SumEmpty
<1>2. ASSUME NEW T \in SUBSET S, T # {}, \A x \in T : T \ {x} \in G
      PROVE  T \in G
  <2>1. PICK x \in T : TRUE
    BY <1>2
  <2>2. IsFiniteSet(T) /\ \A y \in T : f[y] \in Int /\ g[y] \in Int
    BY FS_Subset
  <2>3. F(T) = f[x] + F(T \ {x}) /\ H(T) = g[x] + H(T \ {x})
    BY <2>2, SumTerm
  <2>4. IsFiniteSet(T \ {x})
    BY <2>2, FS_Subset
  <2>5. F(T \ {x}) \in Int /\ H(T \ {x}) \in Int
    BY <2>2, <2>4, SumTerm
  <2>6. F(T \ {x}) <= H(T \ {x}) /\ f[x] <= g[x]
    BY <1>2
  <2>. HIDE DEF F, H
  <2>. QED
    BY <2>2, <2>3, <2>5, <2>6
<1>3. \A T \in SUBSET S : T \in G
  <2>. HIDE DEF G
  <2>. QED
    BY <1>1, <1>2, EverySubset
<1>. QED
  BY <1>3

\* Terms that are zero may be left out.
LEMMA SumWithin ==
  ASSUME NEW S, IsFiniteSet(S), NEW R \in SUBSET S, NEW f,
         \A x \in S : f[x] \in Int, \A x \in S \ R : f[x] = 0
  PROVE  SumFunctionOnSet(f, S) = SumFunctionOnSet(f, R)
<1> DEFINE F(T) == SumFunctionOnSet(f, T)
           G == {T \in SUBSET S : F(T) = F(T \cap R)}
<1>1. {} \in G
  BY SumEmpty
<1>2. ASSUME NEW T \in SUBSET S, T # {}, \A x \in T : T \ {x} \in G
      PROVE  T \in G
  <2>1. IsFiniteSet(T) /\ IsFiniteSet(T \cap R)
    BY FS_Subset
  <2>2. CASE T \subseteq R
    <3>1. T \cap R = T
      BY <2>2
    <3>. QED
      BY <3>1
  <2>3. ASSUME NEW x \in T, x \notin R
        PROVE  T \in G
    <3>1. F(T) = f[x] + F(T \ {x}) /\ f[x] = 0
      BY <2>1, <2>3, SumTerm
    <3>2. (T \ {x}) \cap R = T \cap R
      BY <2>3
    <3>3. F(T \ {x}) = F(T \cap R)
      BY <1>2, <2>3, <3>2
    <3>4. F(T \ {x}) \in Int
      BY <2>1, <3>2, <3>3, SumTerm
    <3>. QED
      BY <3>1, <3>3, <3>4
  <2>. QED
    BY <2>2, <2>3
<1>3. \A T \in SUBSET S : T \in G
  <2>. HIDE DEF G
  <2>. QED
    BY <1>1, <1>2, EverySubset
<1>4. S \cap R = R /\ S \in G
  BY <1>3
<1>. QED
  BY <1>4

\* One term changes.
LEMMA SumChanged ==
  ASSUME NEW S, IsFiniteSet(S), NEW b \in S, NEW f, NEW g,
         \A x \in S : f[x] \in Int /\ g[x] \in Int,
         \A x \in S \ {b} : g[x] = f[x]
  PROVE  SumFunctionOnSet(g, S) = SumFunctionOnSet(f, S) + (g[b] - f[b])
<1> DEFINE F(T) == SumFunctionOnSet(f, T)
           H(T) == SumFunctionOnSet(g, T)
<1>1. F(S) = f[b] + F(S \ {b}) /\ H(S) = g[b] + H(S \ {b})
  BY SumTerm
<1>2. IsFiniteSet(S \ {b})
  BY FS_Subset
<1>3. F(S \ {b}) \in Int
  BY <1>2, SumTerm
<1>4. H(S \ {b}) = F(S \ {b})
  BY <1>2, SumEqual
<1>. HIDE DEF F, H
<1>5. H(S) = F(S) + (g[b] - f[b])
  BY <1>1, <1>3, <1>4
<1>. QED
  BY <1>5 DEF F, H

LEMMA SumConstant ==
  ASSUME NEW S, IsFiniteSet(S), NEW c \in Int, NEW f, \A x \in S : f[x] = c
  PROVE  SumFunctionOnSet(f, S) = c * Cardinality(S)
<1> DEFINE F(T) == SumFunctionOnSet(f, T)
           G == {T \in SUBSET S : F(T) = c * Cardinality(T)}
<1>1. {} \in G
  BY SumEmpty, FS_EmptySet
<1>2. ASSUME NEW T \in SUBSET S, T # {}, \A x \in T : T \ {x} \in G
      PROVE  T \in G
  <2>1. PICK x \in T : TRUE
    BY <1>2
  <2>2. IsFiniteSet(T) /\ \A y \in T : f[y] \in Int
    BY FS_Subset
  <2>3. F(T) = f[x] + F(T \ {x})
    BY <2>2, SumTerm
  <2>4. Cardinality(T \ {x}) = IF x \in T THEN Cardinality(T) - 1 ELSE Cardinality(T)
    BY <2>2, FS_RemoveElement
  <2>5. PICK n \in Nat : n = Cardinality(T)
    BY <2>2, FS_CardinalityType
  <2>6. F(T \ {x}) = c * (n - 1) /\ f[x] = c
    BY <1>2, <2>4, <2>5
  <2>7. c * n = c + c * (n - 1)
    OBVIOUS
  <2>. HIDE DEF F
  <2>. QED
    BY <2>3, <2>5, <2>6, <2>7
<1>3. \A T \in SUBSET S : T \in G
  <2>. HIDE DEF G
  <2>. QED
    BY <1>1, <1>2, EverySubset
<1>. QED
  BY <1>3

\* A nonempty finite set of naturals has a greatest element.
LEMMA GreatestNatural ==
  ASSUME NEW S \in SUBSET Nat, IsFiniteSet(S), S # {}
  PROVE  \E m \in S : \A n \in S : n <= m
<1> DEFINE G == {T \in SUBSET S : T # {} => \E m \in T : \A n \in T : n <= m}
<1>1. ASSUME NEW T \in SUBSET S, T # {}, \A x \in T : T \ {x} \in G
      PROVE  T \in G
  <2>1. PICK x \in T : TRUE
    BY <1>1
  <2>2. CASE T \ {x} = {}
    <3>1. \A n \in T : n <= x
      BY <2>2
    <3>. QED
      BY <3>1
  <2>3. CASE T \ {x} # {}
    <3>1. PICK m \in T \ {x} : \A n \in T \ {x} : n <= m
      BY <1>1, <2>3
    <3>2. CASE x <= m
      <4>1. m \in T /\ \A n \in T : n <= m
        BY <3>1, <3>2
      <4>. QED
        BY <4>1
    <3>3. CASE ~(x <= m)
      <4>1. \A n \in T : n <= x
        BY <3>1, <3>3
      <4>. QED
        BY <4>1
    <3>. QED
      BY <3>2, <3>3
  <2>. QED
    BY <2>2, <2>3
<1>2. \A T \in SUBSET S : T \in G
  <2>1. {} \in G
    OBVIOUS
  <2>. HIDE DEF G
  <2>. QED
    BY <1>1, <2>1, EverySubset
<1>. QED
  BY <1>2

\* As many of S as r, or as there are, rank under r.
LEMMA SumRanks ==
  ASSUME NEW S \in SUBSET Nat, IsFiniteSet(S), NEW r \in Nat, NEW f,
         \A b \in S : f[b] = IF Rank(S, b) < r THEN 1 ELSE 0
  PROVE  SumFunctionOnSet(f, S) = IF r <= Cardinality(S) THEN r ELSE Cardinality(S)
<1> DEFINE M(T) == [b \in T |-> IF Rank(T, b) < r THEN 1 ELSE 0]
           F(T) == SumFunctionOnSet(M(T), T)
           G == {T \in SUBSET S :
                   F(T) = IF r <= Cardinality(T) THEN r ELSE Cardinality(T)}
<1>1. {} \in G
  BY SumEmpty, FS_EmptySet
<1>2. ASSUME NEW T \in SUBSET S, T # {}, \A x \in T : T \ {x} \in G
      PROVE  T \in G
  <2>1. IsFiniteSet(T)
    BY FS_Subset
  <2>2. PICK m \in T : \A n \in T : n <= m
    BY <1>2, <2>1, GreatestNatural
  <2>3. PICK U : U = T \ {m}
    OBVIOUS
  <2>4. IsFiniteSet(U) /\ U \in SUBSET S
    BY <2>1, <2>3, FS_Subset
  <2>5. \A b \in U : Rank(T, b) = Rank(U, b)
    <3>1. ASSUME NEW b \in U
          PROVE  {c \in T : c < b} = {c \in U : c < b}
      BY <2>2, <2>3
    <3>. QED
      BY <3>1 DEF Rank
  <2>6. Rank(T, m) = Cardinality(U)
    <3>1. \A c \in T : c \in Nat /\ c <= m /\ (c < m <=> c # m)
      BY <2>2
    <3>2. {c \in T : c < m} = U
      BY <2>3, <3>1
    <3>. QED
      BY <3>2 DEF Rank
  <2>7. PICK n \in Nat : n = Cardinality(U)
    BY <2>4, FS_CardinalityType
  <2>8. Cardinality(T) = n + 1
    <3>1. Cardinality(T \ {m}) = IF m \in T THEN Cardinality(T) - 1
                                 ELSE Cardinality(T)
      BY <2>1, FS_RemoveElement
    <3>2. Cardinality(T) \in Nat
      BY <2>1, FS_CardinalityType
    <3>. QED
      BY <2>3, <2>7, <3>1, <3>2
  <2>9. F(T) = M(T)[m] + SumFunctionOnSet(M(T), U)
    <3>1. PICK k : k = M(T)
      OBVIOUS
    <3>2. \A b \in T : k[b] \in Int
      BY <3>1
    <3>3. SumFunctionOnSet(k, T) = k[m] + SumFunctionOnSet(k, T \ {m})
      <4>1. \A x \in T : SumFunctionOnSet(k, T) = k[x] + SumFunctionOnSet(k, T \ {x})
        BY <2>1, <3>2, SumTerm, Zenon
      <4>. QED
        BY <4>1, Zenon
    <3>. QED
      BY <2>3, <3>1, <3>3
  <2>10. SumFunctionOnSet(M(T), U) = F(U)
    <3>1. \A b \in U : M(U)[b] \in Int /\ M(T)[b] = M(U)[b]
      BY <2>3, <2>5
    <3>. HIDE DEF M
    <3>. QED
      BY <2>4, <3>1, SumEqual
  <2>11. F(U) = IF r <= n THEN r ELSE n
    BY <1>2, <2>3, <2>7
  <2>12. M(T)[m] = IF n < r THEN 1 ELSE 0
    BY <2>6, <2>7
  <2>. HIDE DEF F, M
  <2>13. F(T) = IF r <= n + 1 THEN r ELSE n + 1
    BY <2>9, <2>10, <2>11, <2>12
  <2>. QED
    BY <2>8, <2>13
<1>3. \A T \in SUBSET S : T \in G
  <2>. HIDE DEF G
  <2>. QED
    BY <1>1, <1>2, EverySubset
<1>4. F(S) = IF r <= Cardinality(S) THEN r ELSE Cardinality(S)
  BY <1>3
<1>5. SumFunctionOnSet(f, S) = F(S)
  <2>1. \A b \in S : M(S)[b] \in Int /\ f[b] = M(S)[b]
    OBVIOUS
  <2>. HIDE DEF M
  <2>. QED
    BY <2>1, SumEqual
<1>. QED
  BY <1>4, <1>5

\* What is split evenly is handed out whole.
LEMMA EvenSharesAddUp ==
  ASSUME NEW S \in SUBSET Nat, IsFiniteSet(S), S # {}, NEW amount \in Nat,
         NEW f, \A b \in S : f[b] = EvenShare(amount, Cardinality(S), Rank(S, b))
  PROVE  /\ \A b \in S : f[b] \in Int
         /\ SumFunctionOnSet(f, S) = amount
<1>1. PICK n : n = Cardinality(S)
  OBVIOUS
<1>2. n \in Nat /\ n # 0
  BY <1>1, FS_CardinalityType, FS_EmptySet
<1>3. PICK q, r : q = amount \div n /\ r = amount % n
  OBVIOUS
<1>4. /\ q \in Nat /\ r \in Nat /\ r < n
      /\ amount = n * q + r
  BY <1>2, <1>3, Z3
<1> DEFINE k == [b \in S |-> q]
           h == [b \in S |-> IF Rank(S, b) < r THEN 1 ELSE 0]
<1>5. \A b \in S : f[b] = q + (IF Rank(S, b) < r THEN 1 ELSE 0)
  <2>1. CASE amount <= 0
    <3>1. amount = 0
      BY <2>1
    <3>2. q = 0 /\ r = 0
      BY <1>2, <1>3, <3>1, Z3
    <3>3. \A b \in S : Rank(S, b) \in Nat
      <4>1. ASSUME NEW b \in S
            PROVE  {c \in S : c < b} \in SUBSET S
        OBVIOUS
      <4>. QED
        BY <4>1, FS_Subset, FS_CardinalityType DEF Rank
    <3>. QED
      BY <2>1, <3>2, <3>3 DEF EvenShare
  <2>2. CASE ~(amount <= 0)
    BY <1>1, <1>3, <2>2 DEF EvenShare
  <2>. QED
    BY <2>1, <2>2
<1>6. SumFunctionOnSet(k, S) = q * n
  <2>1. \A b \in S : k[b] = q
    OBVIOUS
  <2>2. q \in Int
    BY <1>4
  <2>. HIDE DEF k
  <2>3. SumFunctionOnSet(k, S) = q * Cardinality(S)
    BY <2>1, <2>2, SumConstant
  <2>. QED
    BY <1>1, <2>3
<1>7. SumFunctionOnSet(h, S) = r
  <2>1. \A b \in S : h[b] = IF Rank(S, b) < r THEN 1 ELSE 0
    OBVIOUS
  <2>. HIDE DEF h
  <2>2. SumFunctionOnSet(h, S) = IF r <= Cardinality(S) THEN r ELSE Cardinality(S)
    BY <1>4, <2>1, SumRanks
  <2>. QED
    BY <1>1, <1>2, <1>4, <2>2
<1>8. \A b \in S : k[b] \in Int /\ h[b] \in Int /\ f[b] = k[b] + h[b]
  BY <1>4, <1>5
<1>. HIDE DEF k, h
<1>9. SumFunctionOnSet(f, S) = q * n + r
  <2>1. SumFunctionOnSet(f, S) = SumFunctionOnSet(k, S) + SumFunctionOnSet(h, S)
    BY <1>8, SumPlus
  <2>. QED
    BY <1>6, <1>7, <2>1
<1>10. q * n + r = amount
  BY <1>2, <1>4
<1>. QED
  BY <1>8, <1>9, <1>10

\* The rooms' shares of a group's payment add up to what was paid, unless the
\* rooms cost nothing at all.
THEOREM AllocateAddsUp ==
  ASSUME NEW S \in SUBSET Nat, IsFiniteSet(S), S # {}, NEW totals \in [S -> Nat],
         NEW amount \in Nat, SumFunction(totals) <= 0 => amount <= 0
  PROVE  /\ DOMAIN Allocate(amount, totals) = S
         /\ \A b \in S : Allocate(amount, totals)[b] \in Int
         /\ SumFunctionOnSet(Allocate(amount, totals), S) = amount
<1>1. PICK sum : sum = SumFunctionOnSet(totals, S)
  OBVIOUS
<1>2. DOMAIN totals = S /\ SumFunction(totals) = sum
  BY <1>1 DEF SumFunction
<1>3. \A b \in S : totals[b] \in Int /\ totals[b] \in Nat
  OBVIOUS
<1>4. sum \in Int
  BY <1>1, <1>3, SumTerm
<1> DEFINE floors == [b \in S |-> (amount * totals[b]) \div sum]
           left == amount - SumFunction(floors)
           share == Allocate(amount, totals)
<1>5. CASE amount <= 0 \/ sum <= 0
  <2>1. amount = 0
    BY <1>2, <1>5
  <2>2. share = [b \in S |-> 0]
    BY <1>2, <1>5 DEF Allocate
  <2>3. \A b \in S : share[b] = 0
    BY <2>2
  <2>4. SumFunctionOnSet(share, S) = 0 * Cardinality(S)
    <3>1. 0 \in Int
      OBVIOUS
    <3>. HIDE DEF share
    <3>. QED
      BY <2>3, <3>1, SumConstant
  <2>. QED
    BY <2>1, <2>2, <2>4, FS_CardinalityType
<1>6. CASE ~(amount <= 0 \/ sum <= 0)
  <2>1. share = [b \in S |-> floors[b] + EvenShare(left, Cardinality(S), Rank(S, b))]
    BY <1>2, <1>6 DEF Allocate
  <2>2. \A b \in S : floors[b] \in Int /\ sum * floors[b] <= amount * totals[b]
    <3>1. \A m \in Int : (m \div sum) \in Int /\ sum * (m \div sum) <= m
      BY <1>4, <1>6, Z3
    <3>2. \A b \in S : amount * totals[b] \in Int
      BY <1>3
    <3>. QED
      BY <3>1, <3>2
  <2>3. PICK total : total = SumFunctionOnSet(floors, S)
    OBVIOUS
  <2>4. SumFunction(floors) = total
    BY <2>3 DEF SumFunction
  <2>5. PICK k : k = floors
    OBVIOUS
  <2>6. total \in Int
    BY <2>2, <2>3, <2>5, SumTerm
  <2>7. total <= amount
    <3> DEFINE f == [b \in S |-> sum * k[b]]
               g == [b \in S |-> amount * totals[b]]
    <3>1. \A b \in S : k[b] \in Int /\ f[b] = sum * k[b]
      BY <2>2, <2>5
    <3>2. \A b \in S : totals[b] \in Int /\ g[b] = amount * totals[b]
      BY <1>3
    <3>3. \A b \in S : f[b] \in Int /\ g[b] \in Int /\ f[b] <= g[b]
      BY <1>4, <2>2, <2>5, <3>1, <3>2
    <3>. HIDE DEF f, g
    <3>4. SumFunctionOnSet(f, S) = sum * total
      <4>1. SumFunctionOnSet(f, S) = sum * SumFunctionOnSet(k, S)
        BY <1>4, <3>1, SumTimes
      <4>. QED
        BY <2>3, <2>5, <4>1
    <3>5. SumFunctionOnSet(g, S) = amount * sum
      <4>1. amount \in Int
        OBVIOUS
      <4>2. SumFunctionOnSet(g, S) = amount * SumFunctionOnSet(totals, S)
        BY <3>2, <4>1, SumTimes
      <4>. QED
        BY <1>1, <4>2
    <3>6. SumFunctionOnSet(f, S) <= SumFunctionOnSet(g, S)
      BY <3>3, SumAtMost
    <3>7. sum * total <= amount * sum
      BY <3>4, <3>5, <3>6
    <3>. QED
      BY <1>4, <1>6, <2>6, <3>7, Z3
  <2>8. PICK rest : rest = amount - total
    OBVIOUS
  <2>9. rest \in Nat
    BY <2>6, <2>7, <2>8
  <2>10. PICK e : e = [b \in S |-> EvenShare(rest, Cardinality(S), Rank(S, b))]
    OBVIOUS
  <2>11. /\ \A b \in S : e[b] \in Int
         /\ SumFunctionOnSet(e, S) = rest
    BY <2>9, <2>10, EvenSharesAddUp
  <2>12. PICK s : s = share
    OBVIOUS
  <2>13. \A b \in S : s[b] = k[b] + e[b]
    BY <2>1, <2>4, <2>5, <2>8, <2>10, <2>12
  <2>14. \A b \in S : k[b] \in Int /\ s[b] \in Int
    BY <2>2, <2>5, <2>11, <2>13
  <2>15. SumFunctionOnSet(s, S) = SumFunctionOnSet(k, S) + SumFunctionOnSet(e, S)
    <3>1. \A b \in S : k[b] \in Int /\ e[b] \in Int /\ s[b] = k[b] + e[b]
      BY <2>11, <2>13, <2>14
    <3>. QED
      BY <3>1, SumPlus
  <2>16. SumFunctionOnSet(s, S) = amount
    BY <2>3, <2>5, <2>6, <2>8, <2>11, <2>15
  <2>17. DOMAIN s = S
    BY <2>1, <2>12
  <2>. QED
    BY <2>12, <2>14, <2>16, <2>17
<1>. QED
  BY <1>5, <1>6

-----------------------------------------------------------------------------
(* The invariant. *)

\* The rows of one booking agree with its columns.
Balanced(r) == r.paid = r.payments + r.deposits

Charged(r) ==
  r.charges \in CASE r.status \in {"active", "checked_out"} -> {r.total}
                  [] r.status = "voided" -> {0, r.total}
                  [] OTHER -> {0}

Unborn(r) == r.status = "absent" => r.group = None /\ ~r.lead /\ r.paid = 0

\* A booking belongs to a group that exists.
GroupExists ==
  \A b \in Bookings : \A g \in Groups :
    book[b].group = g => group[g].status # "absent"

\* The inductive invariant.
FolioInv ==
  /\ TypeOK
  /\ \A b \in Bookings : Balanced(book[b]) /\ Unborn(book[b])
  /\ ChargesAreThePrice
  /\ GroupExists
  /\ LeadIsTheMaster

\* What one command on one booking, r before and s after, keeps.
Follows(r, s) ==
  /\ Balanced(s)
  /\ s.status # "absent"
  /\ s.group = r.group
  /\ s.lead = r.lead

\* It keeps the charges too, and lets no guest have paid too much.
Fair(r, s) ==
  /\ Charged(r) => Charged(s)
  /\ s.paid > s.total => r.paid > r.total

\* What it adds to the booking's paid_amount is what the guest handed over.
Paying(r, s) == cash' = cash + (s.paid - r.paid)

-----------------------------------------------------------------------------
(* The rows of transactions. *)

\* A new row.
Opens(s, status, total) ==
  /\ s.status = status /\ s.group = None /\ s.lead = FALSE
  /\ s.total = total /\ s.paid = 0
  /\ s.charges = 0 /\ s.payments = 0 /\ s.deposits = 0

\* Rows of transactions, by their type, and nothing else.
Posts(r, s, charge, payment, deposit) ==
  /\ s.status = r.status /\ s.group = r.group /\ s.lead = r.lead
  /\ s.total = r.total /\ s.nights = r.nights
  /\ s.paid = r.paid + payment + deposit
  /\ s.charges = r.charges + charge
  /\ s.payments = r.payments + payment
  /\ s.deposits = r.deposits + deposit

\* A status and a price, and no money.
Sets(r, s, status, total) ==
  /\ s.status = status /\ s.group = r.group /\ s.lead = r.lead
  /\ s.total = total /\ s.paid = r.paid /\ s.charges = r.charges
  /\ s.payments = r.payments /\ s.deposits = r.deposits

LEMMA OpenedRow ==
  ASSUME NEW status \in Statuses, NEW n \in Nat, NEW total \in Int,
         NEW deposit \in Int, NEW rate \in Nat, NEW s,
         s = Opened(status, n, total, deposit, rate)
  PROVE  s \in Booking /\ Opens(s, status, total)
BY DEF Opened, Booking, Opens

LEMMA ChargeRow ==
  ASSUME NEW r \in Booking, NEW amount \in Int, NEW s, s = RecordCharge(r, amount)
  PROVE  s \in Booking /\ Posts(r, s, amount, 0, 0)
BY DEF RecordCharge, Posts, Booking

LEMMA FeeRow ==
  ASSUME NEW r \in Booking, NEW amount \in Int, NEW s, s = RecordFee(r, amount)
  PROVE  s \in Booking /\ Posts(r, s, 0, 0, 0)
BY DEF RecordFee, Posts, Booking

LEMMA PaymentRow ==
  ASSUME NEW r \in Booking, NEW amount \in Int, NEW s, s = RecordPayment(r, amount)
  PROVE  s \in Booking /\ Posts(r, s, 0, amount, 0)
<1>1. PICK t : t = [r EXCEPT !.payments = @ + amount]
  OBVIOUS
<1>2. t \in Booking
  BY <1>1 DEF Booking
<1>3. s = [t EXCEPT !.paid = @ + amount]
  BY <1>1 DEF RecordPayment
<1>4. s \in Booking
  BY <1>2, <1>3 DEF Booking
<1>. QED
  BY <1>4 DEF RecordPayment, Posts, Booking

LEMMA DepositRow ==
  ASSUME NEW r \in Booking, NEW amount \in Int, NEW s, s = RecordDeposit(r, amount)
  PROVE  s \in Booking /\ Posts(r, s, 0, 0, amount)
<1>1. PICK t : t = [r EXCEPT !.deposits = @ + amount]
  OBVIOUS
<1>2. t \in Booking
  BY <1>1 DEF Booking
<1>3. s = [t EXCEPT !.paid = @ + amount]
  BY <1>1 DEF RecordDeposit
<1>4. s \in Booking
  BY <1>2, <1>3 DEF Booking
<1>. QED
  BY <1>4 DEF RecordDeposit, Posts, Booking

LEMMA RepricedRow ==
  ASSUME NEW r \in Booking, NEW n \in Nat, NEW total \in Int,
         NEW s, s = [r EXCEPT !.nights = n, !.total = total]
  PROVE  s \in Booking /\ Sets(r, s, r.status, total)
<1>1. PICK t : t = [r EXCEPT !.nights = n]
  OBVIOUS
<1>2. t \in Booking
  BY <1>1 DEF Booking
<1>3. s = [t EXCEPT !.total = total]
  BY <1>1
<1>4. s \in Booking
  BY <1>2, <1>3 DEF Booking
<1>. QED
  BY <1>4 DEF Booking, Sets

LEMMA SettledRow ==
  ASSUME NEW r \in Booking, NEW status \in Statuses, NEW n \in Nat,
         NEW total \in Int,
         NEW s, s = [r EXCEPT !.status = status, !.nights = n, !.total = total]
  PROVE  s \in Booking /\ Sets(r, s, status, total)
<1>1. PICK t : t = [r EXCEPT !.status = status, !.nights = n]
  OBVIOUS
<1>2. PICK u : u = [r EXCEPT !.status = status]
  OBVIOUS
<1>3. u \in Booking
  BY <1>2 DEF Booking
<1>4. t = [u EXCEPT !.nights = n]
  BY <1>1, <1>2
<1>5. t \in Booking
  BY <1>3, <1>4 DEF Booking
<1>6. s = [t EXCEPT !.total = total]
  BY <1>1
<1>7. s \in Booking
  BY <1>5, <1>6 DEF Booking
<1>. QED
  BY <1>7 DEF Booking, Sets

LEMMA PricedRow ==
  ASSUME NEW r \in Booking, NEW total \in Int,
         NEW s, s = [r EXCEPT !.total = total]
  PROVE  s \in Booking /\ Sets(r, s, r.status, total)
BY DEF Booking, Sets

LEMMA EndedRow ==
  ASSUME NEW r \in Booking, NEW status \in Statuses,
         NEW s, s = [r EXCEPT !.status = status]
  PROVE  s \in Booking /\ Sets(r, s, status, r.total)
BY DEF Booking, Sets

LEMMA TotalsType ==
  ASSUME NEW rate \in Nat, NEW n \in Nights, NEW total \in Totals(rate, n)
  PROVE  total \in Nat
<1>1. n \in Nat /\ Engine(n) \subseteq Nat
  BY FolioAssumption DEF Nights
<1>2. rate * n \in Nat
  BY <1>1
<1>. QED
  BY <1>1, <1>2 DEF Totals

LEMMA BookingFields ==
  ASSUME NEW r \in Booking
  PROVE  /\ r.status \in Statuses
         /\ r.group \in Groups \cup {None}
         /\ r.lead \in BOOLEAN
         /\ r.nights \in Nat
         /\ r.total \in Int
         /\ r.paid \in Int
         /\ r.deposit \in Int
         /\ r.rate \in Nat
         /\ r.charges \in Int
         /\ r.payments \in Int
         /\ r.deposits \in Int
         /\ r.fees \in Int
<1>1. r.status \in Statuses /\ r.group \in Groups \cup {None} /\ r.lead \in BOOLEAN
  BY DEF Booking
<1>2. /\ r.nights \in Nat /\ r.total \in Int /\ r.paid \in Int
      /\ r.deposit \in Int /\ r.rate \in Nat
  BY DEF Booking
<1>3. /\ r.charges \in Int /\ r.payments \in Int /\ r.deposits \in Int
      /\ r.fees \in Int
  BY DEF Booking
<1>. QED
  BY <1>1, <1>2, <1>3

-----------------------------------------------------------------------------
(* The commands on one booking: each leaves a row that follows the old one. *)

LEMMA CheckInStep ==
  ASSUME FolioInv, NEW b \in Bookings, NEW n \in Nights, NEW amount \in Amounts,
         NEW rate \in Rates \cup {0}, NEW total \in Totals(rate, n),
         CheckIn(b, rate, n, total, amount)
  PROVE  \E s \in Booking : /\ book' = [book EXCEPT ![b] = s]
                            /\ Follows(book[b], s)
                            /\ Paying(book[b], s)
                            /\ Fair(book[b], s)
<1>1. /\ rate \in Nat /\ n \in Nat /\ amount \in Int /\ total \in Nat /\ total \in Int
      /\ "active" \in Statuses /\ 0 \in Nat /\ 0 \in Int
  BY FolioAssumption, TotalsType DEF Nights, Statuses
<1>2. PICK o : o = Opened("active", n, total, 0, 0)
  OBVIOUS
<1>3. PICK r : r = RecordCharge(o, total)
  OBVIOUS
<1>4. PICK s : s = RecordPayment(r, amount)
  OBVIOUS
<1>5. /\ o \in Booking
      /\ Opens(o, "active", total)
  BY <1>1, <1>2, OpenedRow
<1>6. /\ r \in Booking /\ Posts(o, r, total, 0, 0)
  BY <1>1, <1>3, <1>5, ChargeRow
<1>7. /\ s \in Booking /\ Posts(r, s, 0, amount, 0)
  BY <1>1, <1>4, <1>6, PaymentRow
<1>8. book' = [book EXCEPT ![b] = s] /\ amount <= total
  BY <1>2, <1>3, <1>4 DEF CheckIn, Leave
<1>9. book[b].group = None /\ book[b].lead = FALSE
  BY BookingFields DEF FolioInv, TypeOK, CheckIn, Unborn
<1>10. /\ s.status = "active" /\ s.group = None /\ s.lead = FALSE
      /\ s.total = total /\ s.paid = amount
      /\ s.charges = total /\ s.payments = amount /\ s.deposits = 0
  BY <1>1, <1>5, <1>6, <1>7 DEF Opens, Posts
<1>11. Balanced(s) /\ Fair(book[b], s)
  BY <1>1, <1>8, <1>10 DEF Fair, Balanced, Charged
<1>12. s.lead = book[b].lead /\ s.group = book[b].group /\ s.status # "absent"
  BY <1>9, <1>10
<1>13. Follows(book[b], s) /\ Fair(book[b], s)
  BY <1>11, <1>12 DEF Follows
<1>14. Paying(book[b], s)
  BY <1>1, <1>10
  DEF CheckIn, Leave, Paying, FolioInv, TypeOK, Unborn
<1>. QED
  BY <1>14, <1>7, <1>8, <1>13

LEMMA BackfillStep ==
  ASSUME FolioInv, NEW b \in Bookings, NEW n \in Nights, NEW amount \in Amounts,
         NEW status \in {"active", "checked_out"}, NEW total \in Amounts,
         Backfill(b, status, n, total, amount)
  PROVE  \E s \in Booking : /\ book' = [book EXCEPT ![b] = s]
                            /\ Follows(book[b], s)
                            /\ Paying(book[b], s)
                            /\ Fair(book[b], s)
<1>1. /\ n \in Nat /\ amount \in Int /\ total \in Nat /\ total \in Int
      /\ status \in Statuses /\ 0 \in Nat /\ 0 \in Int
  BY FolioAssumption DEF Nights, Statuses
<1>2. PICK o : o = Opened(status, n, total, 0, 0)
  OBVIOUS
<1>3. PICK r : r = RecordCharge(o, total)
  OBVIOUS
<1>4. PICK s : s = RecordPayment(r, amount)
  OBVIOUS
<1>5. /\ o \in Booking
      /\ Opens(o, status, total)
  BY <1>1, <1>2, OpenedRow
<1>6. /\ r \in Booking /\ Posts(o, r, total, 0, 0)
  BY <1>1, <1>3, <1>5, ChargeRow
<1>7. /\ s \in Booking /\ Posts(r, s, 0, amount, 0)
  BY <1>1, <1>4, <1>6, PaymentRow
<1>8. book' = [book EXCEPT ![b] = s] /\ amount <= total
  BY <1>2, <1>3, <1>4 DEF Backfill, Leave
<1>9. book[b].group = None /\ book[b].lead = FALSE
  BY BookingFields DEF FolioInv, TypeOK, Backfill, Unborn
<1>10. /\ s.status = status /\ s.group = None /\ s.lead = FALSE
      /\ s.total = total /\ s.paid = amount
      /\ s.charges = total /\ s.payments = amount /\ s.deposits = 0
  BY <1>1, <1>5, <1>6, <1>7 DEF Opens, Posts
<1>11. Balanced(s) /\ Fair(book[b], s)
  BY <1>1, <1>8, <1>10 DEF Fair, Balanced, Charged
<1>12. s.lead = book[b].lead /\ s.group = book[b].group /\ s.status # "absent"
  BY <1>9, <1>10
<1>13. Follows(book[b], s) /\ Fair(book[b], s)
  BY <1>11, <1>12 DEF Follows
<1>14. Paying(book[b], s)
  BY <1>1, <1>10
  DEF Backfill, Leave, Paying, FolioInv, TypeOK, Unborn
<1>. QED
  BY <1>14, <1>7, <1>8, <1>13

LEMMA ReserveStep ==
  ASSUME FolioInv, NEW b \in Bookings, NEW n \in Nights, NEW amount \in Amounts,
         NEW rate \in Rates \cup {0}, NEW total \in Totals(rate, n),
         Reserve(b, rate, n, total, amount)
  PROVE  \E s \in Booking : /\ book' = [book EXCEPT ![b] = s]
                            /\ Follows(book[b], s)
                            /\ Paying(book[b], s)
                            /\ Fair(book[b], s)
<1>1. /\ rate \in Nat /\ n \in Nat /\ amount \in Int /\ total \in Nat /\ total \in Int
      /\ "booked" \in Statuses /\ 0 \in Nat /\ 0 \in Int
  BY FolioAssumption, TotalsType DEF Nights, Statuses
<1>2. PICK o : o = Opened("booked", n, total, amount, rate)
  OBVIOUS
<1>3. PICK s : s = RecordDeposit(o, amount)
  OBVIOUS
<1>4. /\ o \in Booking
      /\ Opens(o, "booked", total)
  BY <1>1, <1>2, OpenedRow
<1>5. /\ s \in Booking /\ Posts(o, s, 0, 0, amount)
  BY <1>1, <1>3, <1>4, DepositRow
<1>6. book' = [book EXCEPT ![b] = s] /\ amount <= total
  BY <1>2, <1>3 DEF Reserve, Leave
<1>7. book[b].group = None /\ book[b].lead = FALSE
  BY BookingFields DEF FolioInv, TypeOK, Reserve, Unborn
<1>8. /\ s.status = "booked" /\ s.group = None /\ s.lead = FALSE
      /\ s.total = total /\ s.paid = amount
      /\ s.charges = 0 /\ s.payments = 0 /\ s.deposits = amount
  BY <1>1, <1>4, <1>5 DEF Opens, Posts
<1>9. Balanced(s) /\ Fair(book[b], s)
  BY <1>1, <1>6, <1>8 DEF Fair, Balanced, Charged
<1>10. s.lead = book[b].lead /\ s.group = book[b].group /\ s.status # "absent"
  BY <1>7, <1>8
<1>11. Follows(book[b], s) /\ Fair(book[b], s)
  BY <1>9, <1>10 DEF Follows
<1>12. Paying(book[b], s)
  BY <1>1, <1>8
  DEF Reserve, Leave, Paying, FolioInv, TypeOK, Unborn
<1>. QED
  BY <1>12, <1>5, <1>6, <1>11

LEMMA CancelStep ==
  ASSUME FolioInv, NEW b \in Bookings, Cancel(b)
  PROVE  \E s \in Booking : /\ book' = [book EXCEPT ![b] = s]
                            /\ Follows(book[b], s)
                            /\ Paying(book[b], s)
                            /\ Fair(book[b], s)
<1>1. book[b] \in Booking /\ "cancelled" \in Statuses
  BY DEF FolioInv, TypeOK, Statuses
<1>2. PICK r : r = RecordFee(book[b], book[b].deposit)
  OBVIOUS
<1>3. PICK s : s = [r EXCEPT !.status = "cancelled"]
  OBVIOUS
<1>4. /\ book[b].deposit \in Int /\ book[b].paid \in Int
      /\ book[b].charges \in Int /\ book[b].payments \in Int
      /\ book[b].deposits \in Int
  BY <1>1, BookingFields
<1>5. r \in Booking /\ Posts(book[b], r, 0, 0, 0)
  BY <1>1, <1>2, <1>4, FeeRow
<1>6. s \in Booking /\ Sets(r, s, "cancelled", r.total)
  BY <1>1, <1>3, <1>5, EndedRow
<1>7. book' = [book EXCEPT ![b] = s] /\ book[b].status = "booked"
  BY <1>2, <1>3 DEF Cancel, Leave
<1>8. Balanced(book[b])
  BY DEF FolioInv
<1>9. Follows(book[b], s) /\ Fair(book[b], s)
  BY <1>4, <1>5, <1>6, <1>7, <1>8
  DEF Follows, Fair, Balanced, Charged, Posts, Sets
<1>10. Paying(book[b], s)
  BY <1>4, <1>5, <1>6
  DEF Cancel, Leave, Paying, FolioInv, TypeOK, Posts, Sets
<1>. QED
  BY <1>10, <1>6, <1>7, <1>9

LEMMA ModifyStep ==
  ASSUME FolioInv, NEW b \in Bookings, NEW n \in Nights,
         NEW total \in Totals(book[b].rate, n), Modify(b, n, total)
  PROVE  \E s \in Booking : /\ book' = [book EXCEPT ![b] = s]
                            /\ Follows(book[b], s)
                            /\ Paying(book[b], s)
                            /\ Charged(book[b]) => Charged(s)
<1>1. book[b] \in Booking
  BY DEF FolioInv, TypeOK
<1>2. book[b].rate \in Nat
  BY <1>1, BookingFields
<1>3. n \in Nat /\ total \in Int
  BY <1>2, TotalsType, FolioAssumption DEF Nights
<1>4. PICK s : s = [book[b] EXCEPT !.nights = n, !.total = total]
  OBVIOUS
<1>5. s \in Booking /\ Sets(book[b], s, book[b].status, total)
  BY <1>1, <1>3, <1>4, RepricedRow
<1>6. book' = [book EXCEPT ![b] = s] /\ book[b].status = "booked"
  BY <1>4 DEF Modify, Leave
<1>7. Balanced(book[b])
  BY DEF FolioInv
<1>8. Follows(book[b], s) /\ (Charged(book[b]) => Charged(s))
  BY <1>5, <1>6, <1>7 DEF Follows, Balanced, Charged, Sets
<1>9. Paying(book[b], s)
  BY <1>1, <1>5, BookingFields
  DEF Modify, Leave, Paying, FolioInv, TypeOK, Sets
<1>. QED
  BY <1>9, <1>5, <1>6, <1>8

LEMMA ConfirmStep ==
  ASSUME FolioInv, NEW b \in Bookings, NEW n \in Nights,
         NEW total \in Totals(book[b].rate, n), Confirm(b, n, total)
  PROVE  \E s \in Booking : /\ book' = [book EXCEPT ![b] = s]
                            /\ Follows(book[b], s)
                            /\ Paying(book[b], s)
                            /\ Charged(book[b]) => Charged(s)
<1>1. book[b] \in Booking /\ "active" \in Statuses
  BY DEF FolioInv, TypeOK, Statuses
<1>2. /\ book[b].rate \in Nat /\ book[b].charges \in Int
      /\ book[b].paid \in Int /\ book[b].payments \in Int
      /\ book[b].deposits \in Int
  BY <1>1, BookingFields
<1>3. n \in Nat /\ total \in Int
  BY <1>2, TotalsType, FolioAssumption DEF Nights
<1>4. PICK r : r = RecordCharge(book[b], total)
  OBVIOUS
<1>5. PICK s : s = [r EXCEPT !.status = "active", !.nights = n, !.total = total]
  OBVIOUS
<1>6. r \in Booking /\ Posts(book[b], r, total, 0, 0)
  BY <1>1, <1>3, <1>4, ChargeRow
<1>7. s \in Booking /\ Sets(r, s, "active", total)
  BY <1>1, <1>3, <1>5, <1>6, SettledRow
<1>8. book' = [book EXCEPT ![b] = s] /\ book[b].status = "booked"
  BY <1>4, <1>5 DEF Confirm, Leave
<1>9. Balanced(book[b])
  BY DEF FolioInv
<1>10. Follows(book[b], s) /\ (Charged(book[b]) => Charged(s))
  BY <1>2, <1>3, <1>6, <1>7, <1>8, <1>9
  DEF Follows, Balanced, Charged, Posts, Sets
<1>11. Paying(book[b], s)
  BY <1>2, <1>6, <1>7
  DEF Confirm, Leave, Paying, FolioInv, TypeOK, Posts, Sets
<1>. QED
  BY <1>11, <1>7, <1>8, <1>10

LEMMA ExtendStep ==
  ASSUME FolioInv, NEW b \in Bookings, NEW more \in Engine(1), Extend(b, more)
  PROVE  \E s \in Booking : /\ book' = [book EXCEPT ![b] = s]
                            /\ Follows(book[b], s)
                            /\ Paying(book[b], s)
                            /\ Fair(book[b], s)
<1>1. book[b] \in Booking /\ book[b].status \in Statuses
  BY BookingFields DEF FolioInv, TypeOK
<1>2. /\ book[b].total \in Int /\ book[b].nights \in Nat
      /\ book[b].charges \in Int /\ book[b].paid \in Int
      /\ book[b].payments \in Int /\ book[b].deposits \in Int
  BY <1>1, BookingFields
<1>3. more \in Nat /\ more \in Int
  BY <1>2, FolioAssumption DEF Extend, Nights
<1>4. PICK r : r = RecordCharge(book[b], more)
  OBVIOUS
<1>5. PICK s : s = [r EXCEPT !.nights = r.nights + 1, !.total = r.total + more]
  OBVIOUS
<1>6. r \in Booking /\ Posts(book[b], r, more, 0, 0)
  BY <1>1, <1>3, <1>4, ChargeRow
<1>7. r.nights + 1 \in Nat /\ r.total + more \in Int
  BY <1>2, <1>3, <1>6 DEF Posts
<1>8. s \in Booking /\ Sets(r, s, r.status, r.total + more)
  BY <1>5, <1>6, <1>7, RepricedRow
<1>9. book' = [book EXCEPT ![b] = s] /\ book[b].status = "active"
  BY <1>4, <1>5 DEF Extend, Leave
<1>10. Balanced(book[b])
  BY DEF FolioInv
<1>11. Balanced(s) /\ Fair(book[b], s)
  BY <1>2, <1>3, <1>6, <1>8, <1>9, <1>10 DEF Fair, Charged, Balanced, Posts, Sets
<1>12. s.lead = book[b].lead /\ s.group = book[b].group /\ s.status # "absent"
  BY <1>3, <1>6, <1>8, <1>9 DEF Posts, Sets
<1>13. Paying(book[b], s)
  BY <1>2, <1>6, <1>8
  DEF Extend, Leave, Paying, FolioInv, TypeOK, Posts, Sets
<1>. QED
  BY <1>13, <1>3, <1>6, <1>8, <1>9, <1>11, <1>12 DEF Follows

LEMMA ShortenStep ==
  ASSUME FolioInv, NEW b \in Bookings, Shorten(b)
  PROVE  \E s \in Booking : /\ book' = [book EXCEPT ![b] = s]
                            /\ Follows(book[b], s)
                            /\ Paying(book[b], s)
                            /\ Fair(book[b], s)
<1>1. book[b] \in Booking /\ book[b].status \in Statuses
  BY BookingFields DEF FolioInv, TypeOK
<1>2. /\ book[b].total \in Int /\ book[b].nights \in Nat
      /\ book[b].charges \in Int /\ book[b].paid \in Int
      /\ book[b].payments \in Int /\ book[b].deposits \in Int
  BY <1>1, BookingFields
<1>3. PICK back : back = book[b].total \div book[b].nights
  OBVIOUS
<1>4. /\ back \in Int /\ -back \in Int
      /\ book[b].nights >= 2 /\ book[b].paid <= book[b].total - back
  BY <1>2, <1>3 DEF Shorten
<1>5. PICK r : r = RecordCharge(book[b], -back)
  OBVIOUS
<1>6. PICK s : s = [r EXCEPT !.nights = r.nights - 1, !.total = r.total - back]
  OBVIOUS
<1>7. r \in Booking /\ Posts(book[b], r, -back, 0, 0)
  BY <1>1, <1>4, <1>5, ChargeRow
<1>8. r.nights - 1 \in Nat /\ r.total - back \in Int
  BY <1>2, <1>4, <1>7 DEF Posts
<1>9. s \in Booking /\ Sets(r, s, r.status, r.total - back)
  BY <1>6, <1>7, <1>8, RepricedRow
<1>10. book' = [book EXCEPT ![b] = s] /\ book[b].status = "active"
  BY <1>3, <1>5, <1>6 DEF Shorten, Leave
<1>11. Balanced(book[b])
  BY DEF FolioInv
<1>12. Balanced(s) /\ Fair(book[b], s)
  BY <1>2, <1>4, <1>7, <1>9, <1>10, <1>11 DEF Fair, Charged, Balanced, Posts, Sets
<1>13. s.lead = book[b].lead /\ s.group = book[b].group /\ s.status # "absent"
  BY <1>4, <1>7, <1>9, <1>10 DEF Posts, Sets
<1>14. Paying(book[b], s)
  BY <1>2, <1>7, <1>9
  DEF Shorten, Leave, Paying, FolioInv, TypeOK, Posts, Sets
<1>. QED
  BY <1>14, <1>4, <1>7, <1>9, <1>10, <1>12, <1>13 DEF Follows

LEMMA SetRateStep ==
  ASSUME FolioInv, NEW b \in Bookings, NEW rate \in Rates, SetRate(b, rate)
  PROVE  \E s \in Booking : /\ book' = [book EXCEPT ![b] = s]
                            /\ Follows(book[b], s)
                            /\ Paying(book[b], s)
                            /\ Fair(book[b], s)
<1>1. book[b] \in Booking /\ book[b].status \in Statuses
  BY BookingFields DEF FolioInv, TypeOK
<1>2. /\ book[b].total \in Int /\ book[b].nights \in Nat
      /\ book[b].charges \in Int /\ book[b].paid \in Int
      /\ book[b].payments \in Int /\ book[b].deposits \in Int
  BY <1>1, BookingFields
<1>3. PICK total : total = rate * book[b].nights
  OBVIOUS
<1>4. total \in Int /\ total - book[b].total \in Int
  BY <1>2, <1>3, FolioAssumption
<1>5. PICK r : r = RecordCharge(book[b], total - book[b].total)
  OBVIOUS
<1>6. PICK s : s = [r EXCEPT !.total = total]
  OBVIOUS
<1>7. r \in Booking /\ Posts(book[b], r, total - book[b].total, 0, 0)
  BY <1>1, <1>4, <1>5, ChargeRow
<1>8. s \in Booking /\ Sets(r, s, r.status, total)
  BY <1>4, <1>6, <1>7, PricedRow
<1>9. /\ book' = [book EXCEPT ![b] = s] /\ book[b].status = "active"
      /\ book[b].paid <= total
  BY <1>3, <1>5, <1>6 DEF SetRate, Leave
<1>10. Balanced(book[b])
  BY DEF FolioInv
<1>11. Balanced(s) /\ Fair(book[b], s)
  BY <1>2, <1>4, <1>7, <1>8, <1>9, <1>10 DEF Fair, Charged, Balanced, Posts, Sets
<1>12. s.lead = book[b].lead /\ s.group = book[b].group /\ s.status # "absent"
  BY <1>4, <1>7, <1>8, <1>9 DEF Posts, Sets
<1>13. Paying(book[b], s)
  BY <1>2, <1>7, <1>8
  DEF SetRate, Leave, Paying, FolioInv, TypeOK, Posts, Sets
<1>. QED
  BY <1>13, <1>4, <1>7, <1>8, <1>9, <1>11, <1>12 DEF Follows

LEMMA ChangeRoomStep ==
  ASSUME FolioInv, NEW b \in Bookings, NEW n \in Nights,
         NEW old \in Engine(n), NEW new \in Engine(n), ChangeRoom(b, n, old, new)
  PROVE  \E s \in Booking : /\ book' = [book EXCEPT ![b] = s]
                            /\ Follows(book[b], s)
                            /\ Paying(book[b], s)
                            /\ \/ Charged(book[b]) => Charged(s)
                               \/ b \in repriced'
<1>1. book[b] \in Booking /\ book[b].status \in Statuses
  BY BookingFields DEF FolioInv, TypeOK
<1>2. /\ book[b].total \in Int /\ book[b].nights \in Nat
      /\ book[b].charges \in Int /\ book[b].paid \in Int
      /\ book[b].payments \in Int /\ book[b].deposits \in Int
  BY <1>1, BookingFields
<1>3. new - old \in Int
  BY FolioAssumption
<1>4. PICK r : r = RecordCharge(book[b], new - old)
  OBVIOUS
<1>5. PICK s : s = [r EXCEPT !.total = r.total + (new - old)]
  OBVIOUS
<1>6. r \in Booking /\ Posts(book[b], r, new - old, 0, 0)
  BY <1>1, <1>3, <1>4, ChargeRow
<1>7. r.total + (new - old) \in Int
  BY <1>2, <1>3, <1>6 DEF Posts
<1>8. s \in Booking /\ Sets(r, s, r.status, r.total + (new - old))
  BY <1>5, <1>6, <1>7, PricedRow
<1>9. /\ book' = [book EXCEPT ![b] = s]
      /\ book[b].status = "active" \/ (book[b].status = "booked" /\ b \in repriced')
  <2>1. book' = [book EXCEPT ![b] = s]
    BY <1>4, <1>5, Zenon DEF ChangeRoom, Leave
  <2>2. book[b].status = "active" \/ (book[b].status = "booked" /\ b \in repriced')
    BY DEF ChangeRoom
  <2>. QED
    BY <2>1, <2>2
<1>10. Balanced(book[b])
  BY DEF FolioInv
<1>11. Balanced(s)
  BY <1>2, <1>3, <1>6, <1>8, <1>10 DEF Balanced, Posts, Sets
<1>12. Paying(book[b], s)
  BY <1>2, <1>6, <1>8
  DEF ChangeRoom, Leave, Paying, FolioInv, TypeOK, Posts, Sets
<1>13. CASE book[b].status = "active"
  <2>1. Charged(book[b]) => Charged(s)
    BY <1>2, <1>3, <1>6, <1>8, <1>13 DEF Charged, Posts, Sets
  <2>2. s.lead = book[b].lead /\ s.group = book[b].group /\ s.status # "absent"
    BY <1>6, <1>8, <1>13 DEF Posts, Sets
  <2>. QED
    BY <1>8, <1>9, <1>11, <1>12, <2>1, <2>2 DEF Follows
<1>14. CASE book[b].status = "booked" /\ b \in repriced'
  <2>1. s.lead = book[b].lead /\ s.group = book[b].group /\ s.status # "absent"
    BY <1>6, <1>8, <1>14 DEF Posts, Sets
  <2>. QED
    BY <1>8, <1>9, <1>11, <1>12, <1>14, <2>1 DEF Follows
<1>. QED
  BY <1>9, <1>13, <1>14

LEMMA PayStep ==
  ASSUME FolioInv, NEW b \in Bookings, NEW amount \in Amounts, Pay(b, amount)
  PROVE  \E s \in Booking : /\ book' = [book EXCEPT ![b] = s]
                            /\ Follows(book[b], s)
                            /\ Paying(book[b], s)
                            /\ Charged(book[b]) => Charged(s)
<1>1. book[b] \in Booking /\ book[b].status \in Statuses
  BY BookingFields DEF FolioInv, TypeOK
<1>2. /\ book[b].total \in Int /\ book[b].nights \in Nat
      /\ book[b].charges \in Int /\ book[b].paid \in Int
      /\ book[b].payments \in Int /\ book[b].deposits \in Int
  BY <1>1, BookingFields
<1>3. amount \in Int
  BY FolioAssumption
<1>4. PICK s : s = RecordPayment(book[b], amount)
  OBVIOUS
<1>5. s \in Booking /\ Posts(book[b], s, 0, amount, 0)
  BY <1>1, <1>3, <1>4, PaymentRow
<1>6. book' = [book EXCEPT ![b] = s] /\ book[b].status # "absent"
  BY <1>4 DEF Pay, Leave
<1>7. Balanced(book[b])
  BY DEF FolioInv
<1>8. Balanced(s) /\ (Charged(book[b]) => Charged(s))
  BY <1>2, <1>3, <1>5, <1>6, <1>7 DEF Charged, Balanced, Posts
<1>9. s.lead = book[b].lead /\ s.group = book[b].group /\ s.status # "absent"
  BY <1>3, <1>5, <1>6 DEF Posts
<1>10. Paying(book[b], s)
  BY <1>2, <1>3, <1>5
  DEF Pay, Leave, Paying, FolioInv, TypeOK, Posts
<1>. QED
  BY <1>10, <1>3, <1>5, <1>6, <1>8, <1>9 DEF Follows

LEMMA CheckOutStep ==
  ASSUME FolioInv, NEW b \in Bookings, NEW n \in Nights,
         NEW total \in Amounts \cup {book[b].total}, CheckOut(b, n, total)
  PROVE  \E s \in Booking : /\ book' = [book EXCEPT ![b] = s]
                            /\ Follows(book[b], s)
                            /\ Paying(book[b], s)
                            /\ Fair(book[b], s)
<1>1. book[b] \in Booking /\ book[b].status \in Statuses
  BY BookingFields DEF FolioInv, TypeOK
<1>2. /\ book[b].total \in Int /\ book[b].nights \in Nat
      /\ book[b].charges \in Int /\ book[b].paid \in Int
      /\ book[b].payments \in Int /\ book[b].deposits \in Int
  BY <1>1, BookingFields
<1>3. /\ n \in Nat /\ total \in Int /\ total - book[b].total \in Int
      /\ total - book[b].paid \in Int /\ "checked_out" \in Statuses
  <2>1. n \in Nat /\ Amounts \subseteq Int /\ "checked_out" \in Statuses
    BY FolioAssumption DEF Nights, Statuses
  <2>. QED
    BY <1>2, <2>1
<1>4. PICK r : r = RecordCharge(book[b], total - book[b].total)
  OBVIOUS
<1>5. PICK t : t = RecordPayment(r, total - book[b].paid)
  OBVIOUS
<1>6. PICK s : s = [t EXCEPT !.status = "checked_out", !.nights = n, !.total = total]
  OBVIOUS
<1>7. r \in Booking /\ Posts(book[b], r, total - book[b].total, 0, 0)
  BY <1>1, <1>3, <1>4, ChargeRow
<1>8. t \in Booking /\ Posts(r, t, 0, total - book[b].paid, 0)
  BY <1>3, <1>5, <1>7, PaymentRow
<1>9. s \in Booking /\ Sets(t, s, "checked_out", total)
  BY <1>3, <1>6, <1>8, SettledRow
<1>10. book' = [book EXCEPT ![b] = s] /\ book[b].status = "active"
  BY <1>4, <1>5, <1>6 DEF CheckOut, Leave
<1>11. Balanced(book[b])
  BY DEF FolioInv
<1>12. Balanced(s) /\ Fair(book[b], s)
  BY <1>2, <1>3, <1>7, <1>8, <1>9, <1>10, <1>11 DEF Fair, Charged, Balanced, Posts, Sets
<1>13. s.lead = book[b].lead /\ s.group = book[b].group /\ s.status # "absent"
  BY <1>3, <1>7, <1>8, <1>9, <1>10 DEF Posts, Sets
<1>14. Paying(book[b], s)
  BY <1>2, <1>3, <1>7, <1>8, <1>9
  DEF CheckOut, Leave, Paying, FolioInv, TypeOK, Posts, Sets
<1>. QED
  BY <1>14, <1>3, <1>7, <1>8, <1>9, <1>10, <1>12, <1>13 DEF Follows

LEMMA VoidStep ==
  ASSUME FolioInv, NEW b \in Bookings, Void(b)
  PROVE  \E s \in Booking : /\ book' = [book EXCEPT ![b] = s]
                            /\ Follows(book[b], s)
                            /\ Paying(book[b], s)
                            /\ Fair(book[b], s)
<1>1. book[b] \in Booking /\ book[b].status \in Statuses
  BY BookingFields DEF FolioInv, TypeOK
<1>2. /\ book[b].total \in Int /\ book[b].nights \in Nat
      /\ book[b].charges \in Int /\ book[b].paid \in Int
      /\ book[b].payments \in Int /\ book[b].deposits \in Int
  BY <1>1, BookingFields
<1>3. "voided" \in Statuses
  BY DEF Statuses
<1>4. PICK s : s = [book[b] EXCEPT !.status = "voided"]
  OBVIOUS
<1>5. s \in Booking /\ Sets(book[b], s, "voided", book[b].total)
  BY <1>1, <1>3, <1>4, EndedRow
<1>6. /\ book' = [book EXCEPT ![b] = s]
      /\ book[b].status \in {"booked", "active", "checked_out"}
  BY <1>4 DEF Void, Leave
<1>7. Balanced(book[b])
  BY DEF FolioInv
<1>8. Balanced(s) /\ Fair(book[b], s)
  BY <1>2, <1>5, <1>6, <1>7 DEF Fair, Charged, Balanced, Sets
<1>9. s.lead = book[b].lead /\ s.group = book[b].group /\ s.status # "absent"
  BY <1>5, <1>6 DEF Sets
<1>10. Paying(book[b], s)
  BY <1>2, <1>5
  DEF Void, Leave, Paying, FolioInv, TypeOK, Sets
<1>. QED
  BY <1>10, <1>5, <1>6, <1>8, <1>9 DEF Follows

-----------------------------------------------------------------------------
(* A command on one booking preserves the invariant. *)

LEMMA RowChangeInv ==
  ASSUME FolioInv, NEW b \in Bookings, NEW s \in Booking,
         book' = [book EXCEPT ![b] = s], Follows(book[b], s),
         (Charged(book[b]) => Charged(s)) \/ b \in repriced',
         repriced \subseteq repriced', repriced' \subseteq Bookings,
         group' = group, invoice' \in [Bookings -> Invoice], cash' \in Int,
         numbered' \subseteq (Nat \ {0}) \X Bookings, writes' \in 0 .. MaxWrites
  PROVE  FolioInv'
<1>1. /\ book \in [Bookings -> Booking]
      /\ group \in [Groups -> Group]
  BY DEF FolioInv, TypeOK
<1>2. \A c \in Bookings : book'[c] = IF c = b THEN s ELSE book[c]
  BY <1>1
<1>3. TypeOK'
  <2>1. book' \in [Bookings -> Booking]
    BY <1>1
  <2>. QED
    BY <1>1, <2>1 DEF TypeOK
<1>4. \A c \in Bookings : Balanced(book'[c]) /\ Unborn(book'[c])
  <2>1. \A c \in Bookings : Balanced(book[c]) /\ Unborn(book[c])
    BY DEF FolioInv
  <2>2. Balanced(s) /\ Unborn(s)
    BY DEF Follows, Unborn
  <2>. QED
    BY <1>2, <2>1, <2>2
<1>5. ChargesAreThePrice'
  <2>1. \A c \in Bookings \ repriced : Charged(book[c])
    BY DEF FolioInv, ChargesAreThePrice, Charged
  <2>2. \A c \in Bookings \ repriced' : Charged(book'[c])
    BY <1>2, <2>1
  <2>. QED
    BY <2>2 DEF ChargesAreThePrice, Charged
<1>6. \A c \in Bookings : book'[c].group = book[c].group /\ book'[c].lead = book[c].lead
  BY <1>2 DEF Follows
<1>7. GroupExists' /\ LeadIsTheMaster'
  BY <1>6 DEF FolioInv, GroupExists, LeadIsTheMaster
<1>. QED
  BY <1>3, <1>4, <1>5, <1>7 DEF FolioInv

\* The money commands leave the other tables alone.
LEMMA MoneyInv ==
  ASSUME FolioInv, NEW b \in Bookings, NEW s \in Booking, NEW amount \in Int,
         book' = [book EXCEPT ![b] = s], Follows(book[b], s),
         Charged(book[b]) => Charged(s),
         cash' = cash + amount, OnlyMoney, Write
  PROVE  FolioInv'
<1>1. /\ repriced \subseteq Bookings /\ invoice \in [Bookings -> Invoice]
      /\ cash \in Int /\ numbered \subseteq (Nat \ {0}) \X Bookings
      /\ writes \in 0 .. MaxWrites
  BY DEF FolioInv, TypeOK
<1>2. cash' \in Int /\ writes' \in 0 .. MaxWrites
  BY <1>1, FolioAssumption DEF Write
<1>. QED
  BY <1>1, <1>2, RowChangeInv DEF OnlyMoney

LEMMA ArriveInv ==
  ASSUME FolioInv, NEW b \in Bookings, Arrive(b)
  PROVE  FolioInv'
<1>1. PICK n \in Nights, amount \in Amounts :
        \/ \E rate \in Rates \cup {0} : \E total \in Totals(rate, n) :
             CheckIn(b, rate, n, total, amount) \/ Reserve(b, rate, n, total, amount)
        \/ \E status \in {"active", "checked_out"}, total \in Amounts :
             Backfill(b, status, n, total, amount)
  BY Zenon DEF Arrive
<1>2. Write /\ amount \in Int
  BY FolioAssumption DEF Arrive
<1>3. ASSUME NEW rate \in Rates \cup {0}, NEW total \in Totals(rate, n),
             CheckIn(b, rate, n, total, amount)
      PROVE  FolioInv'
  <2>1. PICK s \in Booking : /\ book' = [book EXCEPT ![b] = s]
                             /\ Follows(book[b], s) /\ Fair(book[b], s)
    BY <1>3, CheckInStep
  <2>. QED
    BY <1>2, <1>3, <2>1, MoneyInv DEF CheckIn, Leave, Fair
<1>4. ASSUME NEW rate \in Rates \cup {0}, NEW total \in Totals(rate, n),
             Reserve(b, rate, n, total, amount)
      PROVE  FolioInv'
  <2>1. PICK s \in Booking : /\ book' = [book EXCEPT ![b] = s]
                             /\ Follows(book[b], s) /\ Fair(book[b], s)
    BY <1>4, ReserveStep
  <2>. QED
    BY <1>2, <1>4, <2>1, MoneyInv DEF Reserve, Leave, Fair
<1>5. ASSUME NEW status \in {"active", "checked_out"}, NEW total \in Amounts,
             Backfill(b, status, n, total, amount)
      PROVE  FolioInv'
  <2>1. PICK s \in Booking : /\ book' = [book EXCEPT ![b] = s]
                             /\ Follows(book[b], s) /\ Fair(book[b], s)
    BY <1>5, BackfillStep
  <2>. QED
    BY <1>2, <1>5, <2>1, MoneyInv DEF Backfill, Leave, Fair
<1>. QED
  BY <1>1, <1>3, <1>4, <1>5

LEMMA RepriceInv ==
  ASSUME FolioInv, NEW b \in Bookings, Reprice(b)
  PROVE  FolioInv'
<1>1. Write /\ 0 \in Int /\ cash \in Int
  BY DEF Reprice, FolioInv, TypeOK
<1>2. ASSUME NEW n \in Nights, NEW total \in Totals(book[b].rate, n),
             Modify(b, n, total)
      PROVE  FolioInv'
  <2>1. PICK s \in Booking : /\ book' = [book EXCEPT ![b] = s]
                             /\ Follows(book[b], s) /\ (Charged(book[b]) => Charged(s))
    BY <1>2, ModifyStep
  <2>2. cash' = cash + 0 /\ OnlyMoney
    BY <1>2 DEF Modify, Leave
  <2>. QED
    BY <1>1, <2>1, <2>2, MoneyInv
<1>3. ASSUME NEW n \in Nights, NEW total \in Totals(book[b].rate, n),
             Confirm(b, n, total)
      PROVE  FolioInv'
  <2>1. PICK s \in Booking : /\ book' = [book EXCEPT ![b] = s]
                             /\ Follows(book[b], s) /\ (Charged(book[b]) => Charged(s))
    BY <1>3, ConfirmStep
  <2>2. cash' = cash + 0 /\ OnlyMoney
    BY <1>3 DEF Confirm, Leave
  <2>. QED
    BY <1>1, <2>1, <2>2, MoneyInv
<1>4. ASSUME NEW more \in Engine(1), Extend(b, more)
      PROVE  FolioInv'
  <2>1. PICK s \in Booking : /\ book' = [book EXCEPT ![b] = s]
                             /\ Follows(book[b], s) /\ Fair(book[b], s)
    BY <1>4, ExtendStep
  <2>2. cash' = cash + 0 /\ OnlyMoney
    BY <1>4 DEF Extend, Leave
  <2>. QED
    BY <1>1, <2>1, <2>2, MoneyInv DEF Fair
<1>5. ASSUME Shorten(b)
      PROVE  FolioInv'
  <2>1. PICK s \in Booking : /\ book' = [book EXCEPT ![b] = s]
                             /\ Follows(book[b], s) /\ Fair(book[b], s)
    BY <1>5, ShortenStep
  <2>2. cash' = cash + 0 /\ OnlyMoney
    BY <1>5 DEF Shorten, Leave
  <2>. QED
    BY <1>1, <2>1, <2>2, MoneyInv DEF Fair
<1>6. ASSUME NEW rate \in Rates, SetRate(b, rate)
      PROVE  FolioInv'
  <2>1. PICK s \in Booking : /\ book' = [book EXCEPT ![b] = s]
                             /\ Follows(book[b], s) /\ Fair(book[b], s)
    BY <1>6, SetRateStep
  <2>2. cash' = cash + 0 /\ OnlyMoney
    BY <1>6 DEF SetRate, Leave
  <2>. QED
    BY <1>1, <2>1, <2>2, MoneyInv DEF Fair
<1>7. ASSUME NEW n \in Nights, NEW old \in Engine(n), NEW new \in Engine(n),
             ChangeRoom(b, n, old, new)
      PROVE  FolioInv'
  <2>1. PICK s \in Booking : /\ book' = [book EXCEPT ![b] = s]
                             /\ Follows(book[b], s)
                             /\ \/ Charged(book[b]) => Charged(s)
                                \/ b \in repriced'
    BY <1>7, ChangeRoomStep
  <2>2. /\ cash' = cash + 0 /\ UNCHANGED <<invoice, group, numbered>>
        /\ repriced \subseteq repriced' /\ repriced' \subseteq repriced \cup {b}
    BY <1>7 DEF ChangeRoom, Leave
  <2>3. /\ repriced \subseteq Bookings /\ invoice \in [Bookings -> Invoice]
        /\ numbered \subseteq (Nat \ {0}) \X Bookings /\ writes \in 0 .. MaxWrites
    BY DEF FolioInv, TypeOK
  <2>4. cash' \in Int /\ writes' \in 0 .. MaxWrites /\ repriced' \subseteq Bookings
    BY <1>1, <2>2, <2>3, FolioAssumption DEF Write
  <2>. QED
    BY <2>1, <2>2, <2>3, <2>4, RowChangeInv
<1>. QED
  BY <1>2, <1>3, <1>4, <1>5, <1>6, <1>7, Zenon DEF Reprice

LEMMA SettleInv ==
  ASSUME FolioInv, NEW b \in Bookings, Settle(b)
  PROVE  FolioInv'
<1>1. Write /\ 0 \in Int /\ cash \in Int /\ Amounts \subseteq Int
  BY FolioAssumption DEF Settle, FolioInv, TypeOK
<1>2. ASSUME NEW amount \in Amounts, Pay(b, amount)
      PROVE  FolioInv'
  <2>1. PICK s \in Booking : /\ book' = [book EXCEPT ![b] = s]
                             /\ Follows(book[b], s) /\ (Charged(book[b]) => Charged(s))
    BY <1>2, PayStep
  <2>2. cash' = cash + amount /\ OnlyMoney
    BY <1>2 DEF Pay, Leave
  <2>. QED
    BY <1>1, <2>1, <2>2, MoneyInv
<1>3. ASSUME NEW n \in Nights, NEW total \in Amounts \cup {book[b].total},
             CheckOut(b, n, total)
      PROVE  FolioInv'
  <2>1. PICK s \in Booking : /\ book' = [book EXCEPT ![b] = s]
                             /\ Follows(book[b], s) /\ Fair(book[b], s)
    BY <1>3, CheckOutStep
  <2>2. cash' = cash + (total - book[b].paid) /\ OnlyMoney
    BY <1>3 DEF CheckOut, Leave
  <2>3. book[b].total \in Int /\ book[b].paid \in Int
    BY BookingFields DEF FolioInv, TypeOK
  <2>4. total - book[b].paid \in Int
    BY <1>1, <2>3
  <2>. QED
    BY <1>1, <2>1, <2>2, <2>4, MoneyInv DEF Fair
<1>4. ASSUME Cancel(b)
      PROVE  FolioInv'
  <2>1. PICK s \in Booking : /\ book' = [book EXCEPT ![b] = s]
                             /\ Follows(book[b], s) /\ Fair(book[b], s)
    BY <1>4, CancelStep
  <2>2. cash' = cash + 0 /\ OnlyMoney
    BY <1>4 DEF Cancel, Leave
  <2>. QED
    BY <1>1, <2>1, <2>2, MoneyInv DEF Fair
<1>5. ASSUME Void(b)
      PROVE  FolioInv'
  <2>1. PICK s \in Booking : /\ book' = [book EXCEPT ![b] = s]
                             /\ Follows(book[b], s) /\ Fair(book[b], s)
    BY <1>5, VoidStep
  <2>2. cash' = cash + 0 /\ UNCHANGED <<group, repriced, numbered>>
    BY <1>5 DEF Void, Leave
  <2>3. /\ repriced \subseteq Bookings /\ invoice \in [Bookings -> Invoice]
        /\ numbered \subseteq (Nat \ {0}) \X Bookings /\ writes \in 0 .. MaxWrites
    BY DEF FolioInv, TypeOK
  <2>4. cash' \in Int /\ writes' \in 0 .. MaxWrites
    BY <1>1, <2>2, <2>3, FolioAssumption DEF Write
  <2>5. invoice' \in [Bookings -> Invoice]
    BY <1>5, <2>3 DEF Void, Invoice
  <2>. QED
    BY <2>1, <2>2, <2>3, <2>4, <2>5, RowChangeInv DEF Fair
<1>6. ASSUME NEW number \in 1 .. MaxInvoices, GenerateInvoice(b, number)
      PROVE  FolioInv'
  <2>1. UNCHANGED <<book, group, repriced, cash>>
    BY <1>6 DEF GenerateInvoice
  <2>2. /\ invoice \in [Bookings -> Invoice]
        /\ numbered \subseteq (Nat \ {0}) \X Bookings /\ writes \in 0 .. MaxWrites
    BY DEF FolioInv, TypeOK
  <2>3. number \in Nat /\ number # 0 /\ writes' \in 0 .. MaxWrites
    BY <1>1, <2>2, FolioAssumption DEF Write
  <2>4. numbered' \subseteq (Nat \ {0}) \X Bookings
    BY <1>6, <2>2, <2>3 DEF GenerateInvoice
  <2>5. invoice' \in [Bookings -> Invoice]
    <3>1. [number |-> number, status |-> "issued"] \in Invoice
      BY <2>3 DEF Invoice
    <3>2. NoInvoice \in Invoice
      BY DEF NoInvoice, Invoice
    <3>. QED
      BY <1>6, <2>2, <3>1, <3>2 DEF GenerateInvoice
  <2>. QED
    BY <2>1, <2>3, <2>4, <2>5
    DEF FolioInv, TypeOK, ChargesAreThePrice, GroupExists, LeadIsTheMaster
<1>. QED
  BY <1>2, <1>3, <1>4, <1>5, <1>6, Zenon DEF Settle

-----------------------------------------------------------------------------
(* The commands on a group. *)

LEMMA LeadRow ==
  ASSUME NEW r \in Booking, NEW lead \in BOOLEAN,
         NEW s, s = [r EXCEPT !.lead = lead]
  PROVE  /\ s \in Booking
         /\ s.lead <=> lead
         /\ s.group = r.group /\ s.status = r.status /\ s.total = r.total
         /\ s.paid = r.paid /\ s.charges = r.charges
         /\ s.payments = r.payments /\ s.deposits = r.deposits
BY DEF Booking

\* A room that joins a group.
Joins(s, status, g, lead, share) ==
  /\ s.status = status /\ s.group = g
  /\ s.lead <=> lead
  /\ Balanced(s) /\ Charged(s)
  /\ s.paid = share /\ s.paid <= s.total

LEMMA JoinedRow ==
  ASSUME NEW status \in {"booked", "active"}, NEW g \in Groups,
         NEW lead \in BOOLEAN, NEW n \in Nat, NEW total \in Nat,
         NEW rate \in Nat, NEW share \in 0 .. total,
         NEW s, s = Joined(status, g, lead, n, total, rate, share)
  PROVE  s \in Booking /\ Joins(s, status, g, lead, share)
<1>1. /\ total \in Int /\ share \in Int /\ 0 \in Int /\ 0 \in Nat
      /\ status \in Statuses
  BY DEF Statuses
<1>2. PICK deposit \in Int : deposit = IF status = "booked" THEN share ELSE 0
  BY <1>1
<1>3. PICK o : o = Opened(status, n, total, deposit, rate)
  OBVIOUS
<1>4. o \in Booking /\ Opens(o, status, total)
  BY <1>1, <1>2, <1>3, OpenedRow
<1>5. PICK t : t = [o EXCEPT !.group = g]
  OBVIOUS
<1>6. t \in Booking
  BY <1>4, <1>5 DEF Booking
<1>7. /\ t.status = status /\ t.group = g /\ t.total = total
      /\ t.paid = 0 /\ t.charges = 0 /\ t.payments = 0 /\ t.deposits = 0
  BY <1>4, <1>5 DEF Booking, Opens
<1>8. PICK r : r = [t EXCEPT !.lead = lead]
  OBVIOUS
<1>9. /\ r \in Booking
      /\ r.lead <=> lead
      /\ r.status = status /\ r.group = g /\ r.total = total
      /\ r.paid = 0 /\ r.charges = 0 /\ r.payments = 0 /\ r.deposits = 0
  BY <1>6, <1>7, <1>8, LeadRow
<1>10. s = RecordPayment(IF status = "active" THEN RecordCharge(r, total) ELSE r,
                         share)
  BY <1>2, <1>3, <1>5, <1>8 DEF Joined
<1>11. CASE status = "active"
  <2>1. PICK u : u = RecordCharge(r, total)
    OBVIOUS
  <2>2. u \in Booking /\ Posts(r, u, total, 0, 0)
    BY <1>1, <1>9, <2>1, ChargeRow
  <2>3. s = RecordPayment(u, share)
    BY <1>10, <1>11, <2>1
  <2>4. s \in Booking /\ Posts(u, s, 0, share, 0)
    BY <1>1, <2>2, <2>3, PaymentRow
  <2>5. /\ s.status = status /\ s.group = g /\ s.total = total
        /\ s.paid = share /\ s.charges = total /\ s.payments = share
        /\ s.deposits = 0
    BY <1>1, <1>9, <2>2, <2>4 DEF Posts
  <2>6. s.lead <=> lead
    BY <1>9, <2>2, <2>4 DEF Posts
  <2>7. Balanced(s) /\ Charged(s) /\ s.paid <= s.total
    BY <1>1, <1>11, <2>5 DEF Balanced, Charged
  <2>. QED
    BY <2>4, <2>5, <2>6, <2>7 DEF Joins
<1>12. CASE status = "booked"
  <2>1. s = RecordPayment(r, share)
    BY <1>10, <1>12
  <2>2. s \in Booking /\ Posts(r, s, 0, share, 0)
    BY <1>1, <1>9, <2>1, PaymentRow
  <2>3. /\ s.status = status /\ s.group = g /\ s.total = total
        /\ s.paid = share /\ s.charges = 0 /\ s.payments = share
        /\ s.deposits = 0
    BY <1>1, <1>9, <2>2 DEF Posts
  <2>4. s.lead <=> lead
    BY <1>9, <2>2 DEF Posts
  <2>5. Balanced(s) /\ Charged(s) /\ s.paid <= s.total
    BY <1>1, <1>12, <2>3 DEF Balanced, Charged
  <2>. QED
    BY <2>2, <2>3, <2>4, <2>5 DEF Joins
<1>. QED
  BY <1>11, <1>12

\* What a group's check-in does to a booking.
Enters(b, g, status, S, master, share) ==
  IF b \in S THEN /\ book'[b] \in Booking
                  /\ Joins(book'[b], status, g, b = master, share[b])
                  /\ book[b].status = "absent"
             ELSE book'[b] = book[b]

LEMMA GroupCheckinRows ==
  ASSUME FolioInv, NEW g \in Groups, NEW status, NEW S \in SUBSET Bookings,
         NEW master \in S, NEW n \in Nights, NEW amount \in Amounts,
         NEW rate \in [S -> Rates \cup {0}], NEW totals,
         GroupCheckin(g, status, S, master, n, rate, totals, amount)
  PROVE  \A b \in Bookings :
           Enters(b, g, status, S, master, Allocate(amount, totals))
<1> DEFINE share == Allocate(amount, totals)
<1>1. n \in Nat /\ status \in {"booked", "active"}
  BY FolioAssumption DEF GroupCheckin, Nights
<1>2. \A b \in Bookings :
        book'[b] = IF b \in S THEN Joined(status, g, b = master, n, totals[b],
                                          rate[b], share[b])
                   ELSE book[b]
  BY DEF GroupCheckin
<1>3. ASSUME NEW b \in S
      PROVE  /\ book'[b] \in Booking
             /\ Joins(book'[b], status, g, b = master, share[b])
             /\ book[b].status = "absent"
  <2>1. rate[b] \in Nat
    <3>1. rate[b] \in Rates \cup {0}
      OBVIOUS
    <3>2. \A r \in Rates \cup {0} : r \in Nat
      BY FolioAssumption
    <3>. QED
      BY <3>1, <3>2
  <2>2. /\ book[b].status = "absent"
        /\ totals[b] \in Totals(rate[b], n)
        /\ share[b] \in 0 .. totals[b]
    BY Zenon DEF GroupCheckin
  <2>3. totals[b] \in Nat
    BY <2>1, <2>2, TotalsType
  <2>4. PICK lead \in BOOLEAN : lead = (b = master)
    OBVIOUS
  <2>5. PICK total, part, r : total = totals[b] /\ part = share[b] /\ r = rate[b]
    OBVIOUS
  <2>6. book'[b] = Joined(status, g, lead, n, total, r, part)
    BY <1>2, <2>4, <2>5
  <2>7. book'[b] \in Booking /\ Joins(book'[b], status, g, lead, part)
    <3>1. part \in 0 .. total /\ total \in Nat /\ r \in Nat
      BY <2>1, <2>2, <2>3, <2>5
    <3>. QED
      BY <1>1, <2>6, <3>1, JoinedRow, ZenonT(60)
  <2>. QED
    BY <2>2, <2>4, <2>5, <2>7
<1>. QED
  BY <1>2, <1>3 DEF Enters

LEMMA GroupCheckinInv ==
  ASSUME FolioInv, NEW g \in Groups, NEW status, NEW S \in SUBSET Bookings,
         NEW master \in S, NEW n \in Nights, NEW amount \in Amounts,
         NEW rate \in [S -> Rates \cup {0}], NEW totals,
         GroupCheckin(g, status, S, master, n, rate, totals, amount), Write
  PROVE  FolioInv'
<1>1. /\ book \in [Bookings -> Booking] /\ group \in [Groups -> Group]
      /\ cash \in Int /\ writes \in 0 .. MaxWrites
  BY DEF FolioInv, TypeOK
<1>2. /\ status \in {"booked", "active"} /\ group[g].status = "absent"
      /\ group' = [group EXCEPT ![g] = [status |-> status, master |-> master]]
      /\ cash' = cash + amount
      /\ UNCHANGED <<invoice, repriced, numbered>>
  BY DEF GroupCheckin
<1>3. \A b \in Bookings :
        IF b \in S THEN /\ book'[b] \in Booking
                        /\ Joins(book'[b], status, g, b = master,
                                 Allocate(amount, totals)[b])
                        /\ book[b].status = "absent"
                   ELSE book'[b] = book[b]
  <2>1. \A b \in Bookings :
          Enters(b, g, status, S, master, Allocate(amount, totals))
    BY GroupCheckinRows
  <2>. QED
    BY <2>1 DEF Enters
<1>4. \A b \in Bookings : book'[b] \in Booking
  BY <1>1, <1>3
<1>5. TypeOK'
  <2>1. book' \in [Bookings -> Booking]
    <3>1. book' = [b \in Bookings |-> book'[b]]
      BY DEF GroupCheckin
    <3>. QED
      BY <1>4, <3>1
  <2>2. group' \in [Groups -> Group]
    BY <1>1, <1>2 DEF Group
  <2>3. cash' \in Int /\ writes' \in 0 .. MaxWrites
    BY <1>1, <1>2, FolioAssumption DEF Write
  <2>. QED
    BY <1>2, <2>1, <2>2, <2>3 DEF FolioInv, TypeOK
<1>6. \A b \in Bookings : Balanced(book'[b]) /\ Unborn(book'[b])
  <2>1. \A b \in Bookings : Balanced(book[b]) /\ Unborn(book[b])
    BY DEF FolioInv
  <2>. QED
    BY <1>2, <1>3, <2>1 DEF Joins, Unborn
<1>7. ChargesAreThePrice'
  <2>1. \A b \in Bookings \ repriced : Charged(book[b])
    BY DEF FolioInv, ChargesAreThePrice, Charged
  <2>2. \A b \in Bookings \ repriced' : Charged(book'[b])
    BY <1>2, <1>3, <2>1 DEF Joins
  <2>. QED
    BY <2>2 DEF ChargesAreThePrice, Charged
<1>8. \A h \in Groups : /\ h # g => group'[h] = group[h]
                        /\ h = g => /\ group'[h].master = master
                                    /\ group'[h].status # "absent"
  BY <1>1, <1>2
<1>9. \A b \in Bookings : b \notin S => book[b].group # g
  BY <1>2 DEF FolioInv, GroupExists
<1>10. GroupExists'
  <2>1. \A b \in Bookings, h \in Groups :
          book'[b].group = h => group'[h].status # "absent"
    BY <1>3, <1>8, <1>9 DEF FolioInv, GroupExists, Joins
  <2>. QED
    BY <2>1 DEF GroupExists
<1>11. LeadIsTheMaster'
  <2>1. ASSUME NEW b \in Bookings
        PROVE  book'[b].lead <=>
                 \E h \in Groups : book'[b].group = h /\ group'[h].master = b
    <3>1. CASE b \in S
      BY <1>3, <1>8, <3>1 DEF Joins
    <3>2. CASE b \notin S
      <4>1. book[b].lead <=> \E h \in Groups : book[b].group = h /\ group[h].master = b
        BY DEF FolioInv, LeadIsTheMaster
      <4>. QED
        BY <1>3, <1>8, <1>9, <3>2, <4>1
    <3>. QED
      BY <3>1, <3>2
  <2>. QED
    BY <2>1 DEF LeadIsTheMaster
<1>. QED
  BY <1>5, <1>6, <1>7, <1>10, <1>11 DEF FolioInv

\* What a group's check-out does to a booking.
Departs(b, g, S, master, amount, payer) ==
  /\ book'[b] \in Booking
  /\ Balanced(book'[b])
  /\ Charged(book[b]) => Charged(book'[b])
  /\ book'[b].group = book[b].group
  /\ book'[b].status = IF b \in S THEN "checked_out" ELSE book[b].status
  /\ book'[b].lead <=> IF group[g].master \in S /\ book[b].group = g
                       THEN b = master ELSE book[b].lead
  /\ book'[b].paid = book[b].paid + (IF b = payer THEN amount ELSE 0)

LEMMA GroupCheckOutRows ==
  ASSUME FolioInv, NEW g \in Groups, NEW S, NEW amount \in Amounts,
         NEW payer \in Bookings, NEW master,
         GroupCheckOut(g, S, master, amount, payer)
  PROVE  \A b \in Bookings : Departs(b, g, S, master, amount, payer)
<1>1. SUFFICES ASSUME NEW b \in Bookings
               PROVE  Departs(b, g, S, master, amount, payer)
  OBVIOUS
<1>2. /\ book[b] \in Booking /\ Balanced(book[b])
      /\ amount \in Int /\ 0 \in Int /\ "checked_out" \in Statuses
  BY FolioAssumption DEF FolioInv, TypeOK, Statuses
<1>3. b \in S => book[b].status = "active"
  BY DEF GroupCheckOut, Actives
<1>4. PICK gone : gone = [c \in Bookings |->
                            IF c \in S THEN [book[c] EXCEPT !.status = "checked_out"]
                            ELSE book[c]]
  OBVIOUS
<1>5. PICK led : led = IF group[g].master \in S THEN Lead(gone, g, master)
                       ELSE gone
  OBVIOUS
<1>6. book' = [led EXCEPT ![payer] = RecordPayment(led[payer], amount)]
  BY <1>4, <1>5 DEF GroupCheckOut
<1>7. PICK r : r = gone[b]
  OBVIOUS
<1>8. /\ r \in Booking
      /\ r.group = book[b].group /\ r.total = book[b].total
      /\ r.paid = book[b].paid /\ r.charges = book[b].charges
      /\ r.payments = book[b].payments /\ r.deposits = book[b].deposits
      /\ r.status = IF b \in S THEN "checked_out" ELSE book[b].status
      /\ r.lead <=> book[b].lead
  <2>1. CASE b \in S
    <3>1. r = [book[b] EXCEPT !.status = "checked_out"]
      BY <1>4, <1>7, <2>1
    <3>2. r \in Booking /\ Sets(book[b], r, "checked_out", book[b].total)
      BY <1>2, <3>1, EndedRow
    <3>. QED
      BY <2>1, <3>2 DEF Sets
  <2>2. CASE b \notin S
    BY <1>2, <1>4, <1>7, <2>2
  <2>. QED
    BY <2>1, <2>2
<1>9. PICK t : t = led[b]
  OBVIOUS
<1>10. /\ t \in Booking
       /\ t.group = r.group /\ t.total = r.total
       /\ t.paid = r.paid /\ t.charges = r.charges
       /\ t.payments = r.payments /\ t.deposits = r.deposits
       /\ t.status = r.status
       /\ t.lead <=> IF group[g].master \in S /\ r.group = g
                     THEN b = master ELSE r.lead
  <2>1. CASE group[g].master \in S /\ r.group = g
    <3>1. PICK lead \in BOOLEAN : lead = (b = master)
      OBVIOUS
    <3>2. t = [r EXCEPT !.lead = lead]
      BY <1>4, <1>5, <1>7, <1>9, <2>1, <3>1 DEF Lead
    <3>3. /\ t \in Booking
          /\ t.lead <=> lead
          /\ t.group = r.group /\ t.status = r.status /\ t.total = r.total
          /\ t.paid = r.paid /\ t.charges = r.charges
          /\ t.payments = r.payments /\ t.deposits = r.deposits
      BY <1>8, <3>2, LeadRow
    <3>. QED
      BY <2>1, <3>1, <3>3
  <2>2. CASE ~(group[g].master \in S /\ r.group = g)
    <3>1. t = r
      BY <1>4, <1>5, <1>7, <1>9, <2>2 DEF Lead
    <3>. QED
      BY <1>8, <2>2, <3>1
  <2>. QED
    BY <2>1, <2>2
<1>11. PICK s : s = book'[b]
  OBVIOUS
<1>12. /\ s \in Booking
       /\ \/ b = payer /\ Posts(t, s, 0, amount, 0)
          \/ b # payer /\ s = t
  <2>1. DOMAIN led = Bookings
    BY <1>4, <1>5 DEF Lead
  <2>2. CASE b = payer
    <3>1. s = RecordPayment(t, amount)
      BY <1>6, <1>9, <1>11, <2>1, <2>2
    <3>. QED
      BY <1>2, <1>10, <2>2, <3>1, PaymentRow
  <2>3. CASE b # payer
    BY <1>6, <1>9, <1>10, <1>11, <2>1, <2>3
  <2>. QED
    BY <2>2, <2>3
<1>13. /\ s.group = t.group /\ s.status = t.status /\ s.total = t.total
       /\ s.charges = t.charges
       /\ s.lead <=> t.lead
  <2>1. t.charges \in Int
    BY <1>10, BookingFields
  <2>. QED
    BY <1>12, <2>1 DEF Posts
<1>14. Balanced(s)
  <2>1. t.paid \in Int /\ t.payments \in Int /\ t.deposits \in Int
    BY <1>10, BookingFields
  <2>. QED
    BY <1>2, <1>8, <1>10, <1>12, <2>1 DEF Balanced, Posts
<1>15. Charged(book[b]) => Charged(s)
  BY <1>3, <1>8, <1>10, <1>13 DEF Charged
<1>16. s.paid = book[b].paid + (IF b = payer THEN amount ELSE 0)
  <2>1. t.paid \in Int /\ t.paid = book[b].paid
    BY <1>8, <1>10, BookingFields
  <2>. QED
    BY <1>2, <1>12, <2>1 DEF Posts
<1>. QED
  BY <1>8, <1>10, <1>11, <1>12, <1>13, <1>14, <1>15, <1>16 DEF Departs

LEMMA GroupCheckOutInv ==
  ASSUME FolioInv, NEW g \in Groups, NEW S, NEW amount \in Amounts,
         NEW payer \in Bookings, NEW master \in Bookings \cup {None},
         GroupCheckOut(g, S, master, amount, payer), Write
  PROVE  FolioInv'
<1>1. /\ group \in [Groups -> Group] /\ cash \in Int /\ writes \in 0 .. MaxWrites
  BY DEF FolioInv, TypeOK
<1>2. PICK left : left = Actives([b \in Bookings |->
                 IF b \in S THEN [book[b] EXCEPT !.status = "checked_out"]
                 ELSE book[b]], g)
  OBVIOUS
<1>3. /\ master \in NextMasters(g, S, left)
      /\ group' = [group EXCEPT ![g] =
                     [status |-> IF left = {} THEN "completed"
                                 ELSE "partial_checkout",
                      master |-> master]]
      /\ cash' = cash + amount
      /\ UNCHANGED <<invoice, repriced, numbered>>
  BY <1>2 DEF GroupCheckOut
<1>4. \A b \in Bookings :
        /\ book'[b] \in Booking
        /\ Balanced(book'[b])
        /\ Charged(book[b]) => Charged(book'[b])
        /\ book'[b].group = book[b].group
        /\ book'[b].status = IF b \in S THEN "checked_out" ELSE book[b].status
        /\ book'[b].lead <=> IF group[g].master \in S /\ book[b].group = g
                             THEN b = master ELSE book[b].lead
        /\ book'[b].paid = book[b].paid + (IF b = payer THEN amount ELSE 0)
  <2>1. \A b \in Bookings : Departs(b, g, S, master, amount, payer)
    BY GroupCheckOutRows
  <2>. QED
    BY <2>1 DEF Departs
<1>5. \A b \in S : b \in Bookings /\ book[b].group = g /\ book[b].status = "active"
  BY DEF GroupCheckOut, Actives, Members
<1>6. TypeOK'
  <2>1. book' \in [Bookings -> Booking]
    <3>1. book' = [b \in Bookings |-> book'[b]]
      <4>1. PICK gone : gone = [b \in Bookings |->
                 IF b \in S THEN [book[b] EXCEPT !.status = "checked_out"]
                 ELSE book[b]]
        OBVIOUS
      <4>2. PICK led : led = IF group[g].master \in S THEN Lead(gone, g, master)
                             ELSE gone
        OBVIOUS
      <4>3. led = [b \in Bookings |-> led[b]]
        BY <4>1, <4>2 DEF Lead
      <4>4. book' = [led EXCEPT ![payer] = RecordPayment(led[payer], amount)]
        BY <4>1, <4>2 DEF GroupCheckOut
      <4>. QED
        BY <4>3, <4>4
    <3>. QED
      BY <1>4, <3>1
  <2>2. group' \in [Groups -> Group]
    BY <1>1, <1>3 DEF Group
  <2>3. cash' \in Int /\ writes' \in 0 .. MaxWrites
    BY <1>1, <1>3, FolioAssumption DEF Write
  <2>. QED
    BY <1>3, <2>1, <2>2, <2>3 DEF FolioInv, TypeOK
<1>7. \A b \in Bookings : Balanced(book'[b]) /\ Unborn(book'[b])
  <2>1. ASSUME NEW b \in Bookings
        PROVE  Unborn(book'[b])
    <3>1. CASE b \in S
      BY <1>4, <3>1 DEF Unborn
    <3>2. CASE b \notin S
      <4>1. book'[b].status = book[b].status /\ book'[b].group = book[b].group
        BY <1>4, <3>2
      <4>2. book[b].status = "absent" =>
              book[b].group = None /\ ~book[b].lead /\ book[b].paid = 0
        BY DEF FolioInv, Unborn
      <4>3. book[b].group = None => (book'[b].lead <=> book[b].lead)
        BY <1>4, FolioAssumption
      <4>4. book[b].group = None => book'[b].paid = book[b].paid
        <5>1. book[payer].group = g
          BY <1>2 DEF GroupCheckOut, Actives, Members
        <5>2. book[b].paid \in Int
          BY BookingFields DEF FolioInv, TypeOK
        <5>. QED
          BY <1>4, <5>1, <5>2, FolioAssumption
      <4>. QED
        BY <4>1, <4>2, <4>3, <4>4 DEF Unborn
    <3>. QED
      BY <3>1, <3>2
  <2>. QED
    BY <1>4, <2>1
<1>8. ChargesAreThePrice'
  <2>1. \A b \in Bookings \ repriced : Charged(book[b])
    BY DEF FolioInv, ChargesAreThePrice, Charged
  <2>2. \A b \in Bookings \ repriced' : Charged(book'[b])
    BY <1>3, <1>4, <2>1
  <2>. QED
    BY <2>2 DEF ChargesAreThePrice, Charged
<1>9. \A h \in Groups : /\ h # g => group'[h] = group[h]
                        /\ h = g => /\ group'[h].master = master
                                    /\ group'[h].status # "absent"
  BY <1>1, <1>3
<1>10. GroupExists'
  <2>1. \A b \in Bookings, h \in Groups :
          book'[b].group = h => group'[h].status # "absent"
    BY <1>4, <1>9 DEF FolioInv, GroupExists
  <2>. QED
    BY <2>1 DEF GroupExists
<1>11. LeadIsTheMaster'
  <2>1. ASSUME NEW b \in Bookings
        PROVE  book'[b].lead <=>
                 \E h \in Groups : book'[b].group = h /\ group'[h].master = b
    <3>1. book[b].lead <=> \E h \in Groups : book[b].group = h /\ group[h].master = b
      BY DEF FolioInv, LeadIsTheMaster
    <3>2. CASE group[g].master \in S /\ book[b].group = g
      <4>1. book'[b].lead <=> b = master
        BY <1>4, <3>2
      <4>. QED
        BY <1>4, <1>9, <3>2, <4>1
    <3>3. CASE group[g].master \notin S /\ book[b].group = g
      <4>1. master = group[g].master
        BY <1>3, <3>3 DEF NextMasters
      <4>. QED
        BY <1>4, <1>9, <3>1, <3>3, <4>1
    <3>4. CASE book[b].group # g
      BY <1>4, <1>9, <3>1, <3>4
    <3>. QED
      BY <3>2, <3>3, <3>4
  <2>. QED
    BY <2>1 DEF LeadIsTheMaster
<1>. QED
  BY <1>6, <1>7, <1>8, <1>10, <1>11 DEF FolioInv

-----------------------------------------------------------------------------

LEMMA InitInv == Init => FolioInv
<1>. SUFFICES ASSUME Init PROVE FolioInv
  OBVIOUS
<1>1. "absent" \in Statuses /\ 0 \in Nat /\ 0 \in Int
  BY DEF Statuses
<1>2. PICK o : o = Opened("absent", 0, 0, 0, 0)
  OBVIOUS
<1>3. o \in Booking /\ Opens(o, "absent", 0)
  BY <1>1, <1>2, OpenedRow
<1>4. book = [b \in Bookings |-> o]
  BY <1>2 DEF Init
<1>5. /\ NoInvoice \in Invoice
      /\ [status |-> "absent", master |-> None] \in Group
  BY DEF NoInvoice, Invoice, Group
<1>6. TypeOK
  BY <1>3, <1>4, <1>5, FolioAssumption DEF Init, TypeOK
<1>7. Balanced(o) /\ Unborn(o) /\ Charged(o)
  BY <1>3 DEF Opens, Balanced, Unborn, Charged
<1>8. ChargesAreThePrice
  BY <1>4, <1>7 DEF ChargesAreThePrice, Charged
<1>9. o.group = None /\ ~o.lead
  BY <1>3 DEF Opens
<1>10. GroupExists /\ LeadIsTheMaster
  BY <1>4, <1>9, FolioAssumption DEF GroupExists, LeadIsTheMaster
<1>. QED
  BY <1>4, <1>6, <1>7, <1>8, <1>10 DEF FolioInv

LEMMA NextInv == FolioInv /\ [Next]_vars => FolioInv'
<1>. SUFFICES ASSUME FolioInv, [Next]_vars
              PROVE  FolioInv'
  OBVIOUS
<1>1. ASSUME NEW b \in Bookings, Single(b)
      PROVE  FolioInv'
  BY <1>1, ArriveInv, RepriceInv, SettleInv DEF Single
<1>2. ASSUME NEW g \in Groups, AnyGroupCheckin(g)
      PROVE  FolioInv'
  <2>1. Write
    BY <1>2 DEF AnyGroupCheckin
  <2>2. PICK S \in SUBSET {b \in Bookings : book[b].status = "absent"},
             status \in {"booked", "active"}, n \in Nights, amount \in Amounts :
          \E master \in S, rate \in [S -> Rates \cup {0}] :
            \E totals \in [S -> UNION {Totals(rate[b], n) : b \in S}] :
              GroupCheckin(g, status, S, master, n, rate, totals, amount)
    BY <1>2, Zenon DEF AnyGroupCheckin
  <2>3. PICK master \in S, rate \in [S -> Rates \cup {0}] :
          \E totals \in [S -> UNION {Totals(rate[b], n) : b \in S}] :
            GroupCheckin(g, status, S, master, n, rate, totals, amount)
    BY <2>2, Zenon
  <2>4. PICK totals : GroupCheckin(g, status, S, master, n, rate, totals, amount)
    BY <2>3, Zenon
  <2>5. S \in SUBSET Bookings
    BY <2>2
  <2>. QED
    BY <2>1, <2>4, <2>5, GroupCheckinInv
<1>3. ASSUME NEW g \in Groups, AnyGroupCheckOut(g)
      PROVE  FolioInv'
  <2>1. Write
    BY <1>3 DEF AnyGroupCheckOut
  <2>2. PICK S \in SUBSET Actives(book, g), amount \in Amounts,
             payer \in Members(book, g), master \in Members(book, g) \cup {None} :
          GroupCheckOut(g, S, master, amount, payer)
    BY <1>3, Zenon DEF AnyGroupCheckOut
  <2>3. payer \in Bookings /\ master \in Bookings \cup {None}
    BY DEF Members
  <2>. QED
    BY <2>1, <2>2, <2>3, GroupCheckOutInv
<1>4. CASE UNCHANGED vars
  BY <1>4
  DEF vars, FolioInv, TypeOK, ChargesAreThePrice, GroupExists, LeadIsTheMaster
<1>. QED
  BY <1>1, <1>2, <1>3, <1>4 DEF Next

LEMMA FolioInvariant == Spec => []FolioInv
<1>1. Init => FolioInv
  BY InitInv
<1>2. FolioInv /\ [Next]_vars => FolioInv'
  BY NextInv
<1>. QED
  BY <1>1, <1>2, PTL DEF Spec

\* Every table keeps its shape: no command writes a row the schema forbids.
THEOREM FolioTypes == Spec => []TypeOK
<1>1. FolioInv => TypeOK
  BY DEF FolioInv
<1>. QED
  BY <1>1, FolioInvariant, PTL

\* A booking's paid_amount is what its payments and its deposits in
\* transactions add up to.
THEOREM PaidIsItsRows ==
  Spec => [](\A b \in Bookings : book[b].paid = book[b].payments + book[b].deposits)
<1>1. FolioInv => \A b \in Bookings :
                    book[b].paid = book[b].payments + book[b].deposits
  BY DEF FolioInv, Balanced
<1>. QED
  BY <1>1, FolioInvariant, PTL

\* The charges of a stay add up to its price, whatever the engine's prices.
THEOREM ChargesAddUp == Spec => []ChargesAreThePrice
<1>1. FolioInv => ChargesAreThePrice
  BY DEF FolioInv
<1>. QED
  BY <1>1, FolioInvariant, PTL

\* is_master_room marks the master of the booking's group and nobody else, for
\* any number of groups.
THEOREM OneMaster == Spec => []LeadIsTheMaster
<1>1. FolioInv => LeadIsTheMaster
  BY DEF FolioInv
<1>. QED
  BY <1>1, FolioInvariant, PTL

-----------------------------------------------------------------------------
(* What leaves a guest having paid too much. *)

\* A command that is fair to one booking makes no booking overpaid.
LEMMA FairChange ==
  ASSUME FolioInv, NEW b \in Bookings, NEW s \in Booking, NEW c \in Bookings,
         book' = [book EXCEPT ![b] = s], Fair(book[b], s) \/ b # c,
         Overpaid(c)'
  PROVE  Overpaid(c)
<1>1. book \in [Bookings -> Booking]
  BY DEF FolioInv, TypeOK
<1>2. book'[c] = IF c = b THEN s ELSE book[c]
  BY <1>1
<1>. QED
  BY <1>2 DEF Overpaid, Fair

\* Only payments, moves, confirmations, changes of dates and a group's
\* departure overpay a booking that was not.
THEOREM Overpaying == Spec => OnlyTheseOverpay
<1> DEFINE Allowed(c) ==
             \/ \E amount \in Amounts : Pay(c, amount)
             \/ \E n \in Nights : \/ \E old, new \in Engine(n) :
                                       ChangeRoom(c, n, old, new)
                                  \/ \E total \in Totals(book[c].rate, n) :
                                       Modify(c, n, total) \/ Confirm(c, n, total)
             \/ \E g \in Groups : AnyGroupCheckOut(g)
<1>1. ASSUME FolioInv, NEW c \in Bookings, Overpaid(c)', ~Overpaid(c), Next
      PROVE  Allowed(c)
  <2>1. ASSUME NEW b \in Bookings, Arrive(b)
        PROVE  FALSE
    <3>1. PICK n \in Nights, amount \in Amounts :
            \/ \E rate \in Rates \cup {0} : \E total \in Totals(rate, n) :
                 \/ CheckIn(b, rate, n, total, amount)
                 \/ Reserve(b, rate, n, total, amount)
            \/ \E status \in {"active", "checked_out"}, total \in Amounts :
                 Backfill(b, status, n, total, amount)
      BY <2>1, Zenon DEF Arrive
    <3>2. \E s \in Booking : book' = [book EXCEPT ![b] = s] /\ Fair(book[b], s)
      BY <1>1, <3>1, CheckInStep, ReserveStep, BackfillStep
    <3>. QED
      BY <1>1, <3>2, FairChange
  <2>2. ASSUME NEW b \in Bookings, Reprice(b)
        PROVE  Allowed(c)
    <3>1. CASE \E more \in Engine(1) : Extend(b, more)
      <4>1. \E s \in Booking : book' = [book EXCEPT ![b] = s] /\ Fair(book[b], s)
        BY <1>1, <3>1, ExtendStep
      <4>. QED
        BY <1>1, <4>1, FairChange
    <3>2. CASE \E rate \in Rates : SetRate(b, rate)
      <4>1. \E s \in Booking : book' = [book EXCEPT ![b] = s] /\ Fair(book[b], s)
        BY <1>1, <3>2, SetRateStep
      <4>. QED
        BY <1>1, <4>1, FairChange
    <3>3. CASE Shorten(b)
      <4>1. \E s \in Booking : book' = [book EXCEPT ![b] = s] /\ Fair(book[b], s)
        BY <1>1, <3>3, ShortenStep
      <4>. QED
        BY <1>1, <4>1, FairChange
    <3>4. ASSUME NEW n \in Nights, NEW total \in Totals(book[b].rate, n),
                 Modify(b, n, total) \/ Confirm(b, n, total)
          PROVE  Allowed(c)
      <4>1. \E s \in Booking : book' = [book EXCEPT ![b] = s]
        BY <1>1, <3>4, ModifyStep, ConfirmStep
      <4>2. b = c
        BY <1>1, <4>1, FairChange
      <4>. QED
        BY <3>4, <4>2, Zenon
    <3>5. ASSUME NEW n \in Nights, NEW old \in Engine(n), NEW new \in Engine(n),
                 ChangeRoom(b, n, old, new)
          PROVE  Allowed(c)
      <4>1. \E s \in Booking : book' = [book EXCEPT ![b] = s]
        BY <1>1, <3>5, ChangeRoomStep
      <4>2. b = c
        BY <1>1, <4>1, FairChange
      <4>. QED
        BY <3>5, <4>2, Zenon
    <3>. QED
      BY <2>2, <3>1, <3>2, <3>3, <3>4, <3>5, Zenon DEF Reprice
  <2>3. ASSUME NEW b \in Bookings, Settle(b)
        PROVE  Allowed(c)
    <3>1. ASSUME NEW amount \in Amounts, Pay(b, amount)
          PROVE  Allowed(c)
      <4>1. \E s \in Booking : book' = [book EXCEPT ![b] = s]
        BY <1>1, <3>1, PayStep
      <4>2. b = c
        BY <1>1, <4>1, FairChange
      <4>. QED
        BY <3>1, <4>2, Zenon
    <3>2. ASSUME NEW n \in Nights, NEW total \in Amounts \cup {book[b].total},
                 CheckOut(b, n, total)
          PROVE  FALSE
      <4>1. \E s \in Booking : book' = [book EXCEPT ![b] = s] /\ Fair(book[b], s)
        BY <1>1, <3>2, CheckOutStep
      <4>. QED
        BY <1>1, <4>1, FairChange
    <3>3. CASE Cancel(b)
      <4>1. \E s \in Booking : book' = [book EXCEPT ![b] = s] /\ Fair(book[b], s)
        BY <1>1, <3>3, CancelStep
      <4>. QED
        BY <1>1, <4>1, FairChange
    <3>4. CASE Void(b)
      <4>1. \E s \in Booking : book' = [book EXCEPT ![b] = s] /\ Fair(book[b], s)
        BY <1>1, <3>4, VoidStep
      <4>. QED
        BY <1>1, <4>1, FairChange
    <3>5. ASSUME NEW number \in 1 .. MaxInvoices, GenerateInvoice(b, number)
          PROVE  FALSE
      BY <1>1, <3>5 DEF GenerateInvoice, Overpaid
    <3>. QED
      BY <2>3, <3>1, <3>2, <3>3, <3>4, <3>5, Zenon DEF Settle
  <2>4. ASSUME NEW g \in Groups, AnyGroupCheckin(g)
        PROVE  FALSE
    <3>1. PICK S \in SUBSET {b \in Bookings : book[b].status = "absent"},
               status \in {"booked", "active"}, n \in Nights, amount \in Amounts :
            \E master \in S, rate \in [S -> Rates \cup {0}] :
              \E totals \in [S -> UNION {Totals(rate[b], n) : b \in S}] :
                GroupCheckin(g, status, S, master, n, rate, totals, amount)
      BY <2>4, Zenon DEF AnyGroupCheckin
    <3>2. PICK master \in S, rate \in [S -> Rates \cup {0}] :
            \E totals \in [S -> UNION {Totals(rate[b], n) : b \in S}] :
              GroupCheckin(g, status, S, master, n, rate, totals, amount)
      BY <3>1, Zenon
    <3>3. PICK totals : GroupCheckin(g, status, S, master, n, rate, totals, amount)
      BY <3>2, Zenon
    <3>4. S \in SUBSET Bookings
      BY <3>1
    <3>5. \A b \in Bookings :
            Enters(b, g, status, S, master, Allocate(amount, totals))
      BY <1>1, <3>3, <3>4, GroupCheckinRows
    <3>6. c \in S => book'[c].paid \in Int /\ book'[c].total \in Int
      BY <3>5, BookingFields DEF Enters
    <3>. QED
      BY <1>1, <3>5, <3>6 DEF Overpaid, Enters, Joins
  <2>. QED
    BY <1>1, <2>1, <2>2, <2>3, <2>4, Zenon DEF Next, Single
<1>2. FolioInv /\ [Next]_vars =>
        [\A b \in Bookings : Overpaid(b)' /\ ~Overpaid(b) =>
           \/ \E amount \in Amounts : Pay(b, amount)
           \/ \E n \in Nights : \/ \E old, new \in Engine(n) :
                                     ChangeRoom(b, n, old, new)
                                \/ \E total \in Totals(book[b].rate, n) :
                                     Modify(b, n, total) \/ Confirm(b, n, total)
           \/ \E g \in Groups : AnyGroupCheckOut(g)]_vars
  BY <1>1, Zenon
<1>. QED
  BY <1>2, FolioInvariant, PTL DEF Spec, OnlyTheseOverpay

-----------------------------------------------------------------------------
(* No money is lost. *)

Paid == [b \in Bookings |-> book[b].paid]

CashInv == SumFunctionOnSet(Paid, Bookings) = cash

LEMMA PaidRows ==
  ASSUME FolioInv, FolioInv'
  PROVE  /\ IsFiniteSet(Bookings) /\ cash \in Int
         /\ \A b \in Bookings : /\ Paid[b] = book[b].paid /\ Paid[b] \in Int
                                /\ Paid'[b] = book'[b].paid /\ Paid'[b] \in Int
<1>1. /\ \A b \in Bookings : book[b] \in Booking /\ book'[b] \in Booking
      /\ cash \in Int
  BY DEF FolioInv, TypeOK
<1>2. \A b \in Bookings : book[b].paid \in Int /\ book'[b].paid \in Int
  BY <1>1, BookingFields
<1>. QED
  BY <1>1, <1>2, FolioAssumption DEF Paid

\* A command on one booking that takes what it adds to paid_amount.
LEMMA RowCash ==
  ASSUME FolioInv, FolioInv', CashInv, NEW b \in Bookings, NEW s \in Booking,
         book' = [book EXCEPT ![b] = s], Paying(book[b], s)
  PROVE  CashInv'
<1>1. PICK p : p = Paid
  OBVIOUS
<1>2. PICK q : q = Paid'
  OBVIOUS
<1>3. IsFiniteSet(Bookings) /\ \A x \in Bookings : p[x] \in Int /\ q[x] \in Int
  BY <1>1, <1>2, PaidRows
<1>4. q[b] = s.paid /\ p[b] = book[b].paid /\ \A x \in Bookings \ {b} : q[x] = p[x]
  <2>1. book \in [Bookings -> Booking]
    BY DEF FolioInv, TypeOK
  <2>. QED
    BY <1>1, <1>2, <2>1, PaidRows
<1>5. SumFunctionOnSet(q, Bookings) = SumFunctionOnSet(p, Bookings) + (q[b] - p[b])
  BY <1>3, <1>4, SumChanged
<1>. QED
  BY <1>1, <1>2, <1>4, <1>5 DEF CashInv, Paying

\* A group's payment, split over the rooms that arrive.
LEMMA GroupCheckinCash ==
  ASSUME FolioInv, FolioInv', CashInv, NEW g \in Groups, NEW status,
         NEW S \in SUBSET Bookings, NEW master \in S, NEW n \in Nights,
         NEW amount \in Amounts, NEW rate \in [S -> Rates \cup {0}],
         NEW Prices, NEW totals \in [S -> Prices],
         GroupCheckin(g, status, S, master, n, rate, totals, amount)
  PROVE  CashInv'
<1>1. PICK p : p = Paid
  OBVIOUS
<1>2. PICK q : q = Paid'
  OBVIOUS
<1>3. IsFiniteSet(Bookings) /\ \A x \in Bookings : p[x] \in Int /\ q[x] \in Int
  BY <1>1, <1>2, PaidRows
<1>4. PICK share : share = Allocate(amount, totals)
  OBVIOUS
<1>5. PICK d : d = [x \in Bookings |-> IF x \in S THEN share[x] ELSE 0]
  OBVIOUS
<1>6. IsFiniteSet(S) /\ S \in SUBSET Nat /\ S # {} /\ amount \in Nat
  BY <1>3, FS_Subset, FolioAssumption
<1>7. totals \in [S -> Nat]
  <2>1. ASSUME NEW b \in S
        PROVE  totals[b] \in Nat
    <3>1. totals[b] \in Totals(rate[b], n)
      BY Zenon DEF GroupCheckin
    <3>2. rate[b] \in Nat
      <4>1. rate[b] \in Rates \cup {0}
        OBVIOUS
      <4>2. \A r \in Rates \cup {0} : r \in Nat
        BY FolioAssumption
      <4>. QED
        BY <4>1, <4>2
    <3>. QED
      BY <3>1, <3>2, TotalsType
  <2>. QED
    BY <2>1
<1>8. /\ \A b \in S : share[b] \in Int
      /\ SumFunctionOnSet(share, S) = amount
  <2>1. SumFunction(totals) <= 0 => amount <= 0
    BY Zenon DEF GroupCheckin
  <2>. QED
    BY <1>4, <1>6, <1>7, <2>1, AllocateAddsUp
<1>9. \A x \in Bookings : q[x] = p[x] + d[x]
  <2>1. \A x \in Bookings : Enters(x, g, status, S, master, share)
    <3>1. \A x \in Bookings :
            Enters(x, g, status, S, master, Allocate(amount, totals))
      BY GroupCheckinRows
    <3>. QED
      BY <1>4, <3>1
  <2>2. ASSUME NEW x \in S
        PROVE  q[x] = p[x] + d[x]
    <3>1. book'[x].paid = share[x] /\ book[x].status = "absent"
      BY <2>1 DEF Enters, Joins
    <3>2. book[x].paid = 0
      BY <3>1 DEF FolioInv, Unborn
    <3>. QED
      BY <1>1, <1>2, <1>5, <1>8, <3>1, <3>2, PaidRows
  <2>3. ASSUME NEW x \in Bookings \ S
        PROVE  q[x] = p[x] + d[x]
    <3>1. book'[x] = book[x]
      BY <2>1 DEF Enters
    <3>. QED
      BY <1>1, <1>2, <1>3, <1>5, <3>1, PaidRows
  <2>. QED
    BY <2>2, <2>3
<1>10. \A x \in Bookings : d[x] \in Int
  BY <1>5, <1>8
<1>11. SumFunctionOnSet(q, Bookings)
         = SumFunctionOnSet(p, Bookings) + SumFunctionOnSet(d, Bookings)
  <2>1. \A x \in Bookings : p[x] \in Int /\ d[x] \in Int /\ q[x] = p[x] + d[x]
    BY <1>3, <1>9, <1>10
  <2>. QED
    BY <1>3, <2>1, SumPlus
<1>12. SumFunctionOnSet(d, Bookings) = SumFunctionOnSet(d, S)
  <2>1. \A x \in Bookings \ S : d[x] = 0
    BY <1>5
  <2>. QED
    BY <1>3, <1>10, <2>1, SumWithin
<1>13. SumFunctionOnSet(d, S) = SumFunctionOnSet(share, S)
  <2>1. \A x \in S : share[x] \in Int /\ d[x] = share[x]
    BY <1>5, <1>8
  <2>. QED
    BY <1>6, <2>1, SumEqual
<1>14. cash' = cash + amount
  BY DEF GroupCheckin
<1>. QED
  BY <1>1, <1>2, <1>8, <1>11, <1>12, <1>13, <1>14 DEF CashInv

\* A group's last payment, which one booking records.
LEMMA GroupCheckOutCash ==
  ASSUME FolioInv, FolioInv', CashInv, NEW g \in Groups, NEW S,
         NEW amount \in Amounts, NEW payer \in Bookings, NEW master,
         GroupCheckOut(g, S, master, amount, payer)
  PROVE  CashInv'
<1>1. PICK p : p = Paid
  OBVIOUS
<1>2. PICK q : q = Paid'
  OBVIOUS
<1>3. IsFiniteSet(Bookings) /\ \A x \in Bookings : p[x] \in Int /\ q[x] \in Int
  BY <1>1, <1>2, PaidRows
<1>4. amount \in Int /\ cash' = cash + amount
  BY FolioAssumption DEF GroupCheckOut
<1>5. \A x \in Bookings : q[x] = p[x] + (IF x = payer THEN amount ELSE 0)
  <2>1. \A x \in Bookings :
          book'[x].paid = book[x].paid + (IF x = payer THEN amount ELSE 0)
    <3>1. \A x \in Bookings : Departs(x, g, S, master, amount, payer)
      BY GroupCheckOutRows
    <3>. QED
      BY <3>1 DEF Departs
  <2>. QED
    BY <1>1, <1>2, <2>1, PaidRows
<1>6. q[payer] = p[payer] + amount /\ \A x \in Bookings \ {payer} : q[x] = p[x]
  BY <1>3, <1>5
<1>7. SumFunctionOnSet(q, Bookings)
        = SumFunctionOnSet(p, Bookings) + (q[payer] - p[payer])
  BY <1>3, <1>6, SumChanged
<1>8. q[payer] - p[payer] = amount
  BY <1>3, <1>4, <1>6
<1>. QED
  BY <1>1, <1>2, <1>4, <1>7, <1>8 DEF CashInv

\* A command on one booking.
LEMMA SingleCash ==
  ASSUME FolioInv, FolioInv', CashInv, NEW b \in Bookings, Single(b)
  PROVE  CashInv'
<1>1. \/ \E s \in Booking : book' = [book EXCEPT ![b] = s] /\ Paying(book[b], s)
      \/ UNCHANGED <<book, cash>>
  <2>1. CASE Arrive(b)
    <3>1. PICK n \in Nights, amount \in Amounts :
            \/ \E rate \in Rates \cup {0} : \E total \in Totals(rate, n) :
                 \/ CheckIn(b, rate, n, total, amount)
                 \/ Reserve(b, rate, n, total, amount)
            \/ \E status \in {"active", "checked_out"}, total \in Amounts :
                 Backfill(b, status, n, total, amount)
      BY <2>1, Zenon DEF Arrive
    <3>. QED
      BY <3>1, CheckInStep, ReserveStep, BackfillStep
  <2>2. CASE Reprice(b)
    <3>1. CASE \E n \in Nights : \E total \in Totals(book[b].rate, n) :
                 Modify(b, n, total) \/ Confirm(b, n, total)
      BY <3>1, ModifyStep, ConfirmStep
    <3>2. CASE \E n \in Nights : \E old, new \in Engine(n) : ChangeRoom(b, n, old, new)
      BY <3>2, ChangeRoomStep
    <3>3. CASE \E more \in Engine(1) : Extend(b, more)
      BY <3>3, ExtendStep
    <3>4. CASE \E rate \in Rates : SetRate(b, rate)
      BY <3>4, SetRateStep
    <3>5. CASE Shorten(b)
      BY <3>5, ShortenStep
    <3>. QED
      BY <2>2, <3>1, <3>2, <3>3, <3>4, <3>5, Zenon DEF Reprice
  <2>3. CASE Settle(b)
    <3>1. CASE \E amount \in Amounts : Pay(b, amount)
      BY <3>1, PayStep
    <3>2. CASE \E n \in Nights, total \in Amounts \cup {book[b].total} :
                 CheckOut(b, n, total)
      BY <3>2, CheckOutStep
    <3>3. CASE Cancel(b)
      BY <3>3, CancelStep
    <3>4. CASE Void(b)
      BY <3>4, VoidStep
    <3>5. CASE \E number \in 1 .. MaxInvoices : GenerateInvoice(b, number)
      BY <3>5 DEF GenerateInvoice
    <3>. QED
      BY <2>3, <3>1, <3>2, <3>3, <3>4, <3>5, Zenon DEF Settle
  <2>. QED
    BY <2>1, <2>2, <2>3 DEF Single
<1>2. CASE UNCHANGED <<book, cash>>
  BY <1>2 DEF CashInv, Paid
<1>. QED
  BY <1>1, <1>2, RowCash

\* What the bookings say they have been paid is all the money the guests handed
\* over, a group's payment split over its rooms included: rounding loses none
\* of it, for any number of rooms, prices and sums.
THEOREM NoMoneyIsLost == Spec => []CashIsAccountedFor
<1>1. Init => CashInv
  <2>. SUFFICES ASSUME Init PROVE CashInv
    OBVIOUS
  <2>1. \A b \in Bookings : Paid[b] = 0
    BY DEF Init, Paid, Opened
  <2>2. SumFunctionOnSet(Paid, Bookings) = 0 * Cardinality(Bookings)
    <3>1. 0 \in Int /\ IsFiniteSet(Bookings)
      BY FolioAssumption
    <3>. QED
      BY <2>1, <3>1, SumConstant
  <2>3. Cardinality(Bookings) \in Nat
    BY FS_CardinalityType, FolioAssumption
  <2>. QED
    BY <2>2, <2>3 DEF Init, CashInv
<1>2. ASSUME FolioInv, FolioInv', CashInv, [Next]_vars
      PROVE  CashInv'
  <2>1. ASSUME NEW b \in Bookings, Single(b)
        PROVE  CashInv'
    BY <1>2, <2>1, SingleCash
  <2>2. ASSUME NEW g \in Groups, AnyGroupCheckin(g)
        PROVE  CashInv'
    <3>1. PICK S \in SUBSET {b \in Bookings : book[b].status = "absent"},
               status \in {"booked", "active"}, n \in Nights, amount \in Amounts :
            \E master \in S, rate \in [S -> Rates \cup {0}] :
              \E totals \in [S -> UNION {Totals(rate[b], n) : b \in S}] :
                GroupCheckin(g, status, S, master, n, rate, totals, amount)
      BY <2>2, Zenon DEF AnyGroupCheckin
    <3>2. PICK master \in S, rate \in [S -> Rates \cup {0}] :
            \E totals \in [S -> UNION {Totals(rate[b], n) : b \in S}] :
              GroupCheckin(g, status, S, master, n, rate, totals, amount)
      BY <3>1, Zenon
    <3>3. PICK totals \in [S -> UNION {Totals(rate[b], n) : b \in S}] :
            GroupCheckin(g, status, S, master, n, rate, totals, amount)
      BY <3>2, Zenon
    <3>4. S \in SUBSET Bookings
      BY <3>1
    <3>. QED
      BY <1>2, <3>3, <3>4, GroupCheckinCash
  <2>3. ASSUME NEW g \in Groups, AnyGroupCheckOut(g)
        PROVE  CashInv'
    <3>1. PICK S \in SUBSET Actives(book, g), amount \in Amounts,
               payer \in Members(book, g), master \in Members(book, g) \cup {None} :
            GroupCheckOut(g, S, master, amount, payer)
      BY <2>3, Zenon DEF AnyGroupCheckOut
    <3>2. payer \in Bookings
      BY DEF Members
    <3>. QED
      BY <1>2, <3>1, <3>2, GroupCheckOutCash
  <2>4. CASE UNCHANGED vars
    BY <1>2, <2>4 DEF vars, CashInv, Paid
  <2>. QED
    BY <1>2, <2>1, <2>2, <2>3, <2>4 DEF Next
<1>3. FolioInv /\ CashInv => CashIsAccountedFor
  <2>1. FolioInv => \A b \in Bookings :
                      book[b].paid = book[b].payments + book[b].deposits
    BY DEF FolioInv, Balanced
  <2>2. SumFunction([b \in Bookings |-> book[b].paid]) = SumFunctionOnSet(Paid, Bookings)
    BY DEF SumFunction, Paid
  <2>. QED
    BY <2>1, <2>2 DEF CashInv, CashIsAccountedFor
<1>. QED
  BY <1>1, <1>2, <1>3, FolioInvariant, PTL DEF Spec

-----------------------------------------------------------------------------
(* Invoice numbers. *)

\* The number a booking's invoice has now is the highest it ever had, and the
\* one before it, if any, is at most another booking's.
NumberInv ==
  /\ InvoiceNumberHasOneBooking
  /\ \A p \in numbered : p[1] <= invoice[p[2]].number
  /\ \A b \in Bookings : invoice[b].number > 1 =>
       \E c \in Bookings \ {b} : invoice[c].number >= invoice[b].number - 1

LEMMA GenerateNumbers ==
  ASSUME FolioInv, NumberInv, NEW b \in Bookings, NEW n \in 1 .. MaxInvoices,
         GenerateInvoice(b, n)
  PROVE  NumberInv'
<1>1. /\ invoice \in [Bookings -> Invoice]
      /\ numbered \subseteq (Nat \ {0}) \X Bookings
  BY DEF FolioInv, TypeOK
<1>2. \A c \in Bookings : invoice[c].number \in Nat
  BY <1>1 DEF Invoice
<1>3. n \in Nat /\ n >= 1
  BY FolioAssumption
<1>4. PICK deleted : deleted = [invoice EXCEPT ![b] = NoInvoice]
  OBVIOUS
<1>5. /\ \A c \in Bookings \ {b} : deleted[c] = invoice[c]
      /\ deleted[b].number = 0
  BY <1>1, <1>4 DEF NoInvoice
<1>6. IsNextNumber(deleted, n)
  BY <1>4 DEF GenerateInvoice
<1>7. \A c \in Bookings \ {b} : invoice[c].number < n
  <2>1. ASSUME NEW c \in Bookings \ {b}, invoice[c].number # 0
        PROVE  invoice[c].number < n
    BY <1>5, <1>6, <2>1 DEF IsNextNumber, Numbers
  <2>. QED
    BY <1>2, <1>3, <2>1
<1>8. n = 1 \/ \E c \in Bookings \ {b} : invoice[c].number = n - 1
  <2>1. CASE n - 1 \in Numbers(deleted)
    <3>1. PICK c \in Bookings : deleted[c].number = n - 1 /\ n - 1 # 0
      BY <2>1 DEF Numbers
    <3>2. c # b
      BY <1>5, <3>1
    <3>. QED
      BY <1>5, <3>1, <3>2
  <2>. QED
    BY <1>6, <2>1 DEF IsNextNumber
<1>9. invoice[b].number <= n
  <2>1. CASE invoice[b].number > 1
    <3>1. PICK c \in Bookings \ {b} : invoice[c].number >= invoice[b].number - 1
      BY <2>1 DEF NumberInv
    <3>. QED
      BY <1>2, <1>3, <1>7, <3>1
  <2>. QED
    BY <1>2, <1>3, <2>1
<1>10. /\ \A c \in Bookings \ {b} : invoice'[c].number = invoice[c].number
       /\ invoice'[b].number = n
       /\ numbered' = numbered \cup {<<n, b>>}
  BY <1>1, <1>4, <1>5 DEF GenerateInvoice
<1>11. \A p \in numbered : p[1] \in Nat /\ p[2] \in Bookings /\ p = <<p[1], p[2]>>
  BY <1>1
<1>12. \A p \in numbered' : p[1] <= invoice'[p[2]].number
  <2>1. ASSUME NEW p \in numbered
        PROVE  p[1] <= invoice'[p[2]].number
    <3>1. p[1] <= invoice[p[2]].number
      BY DEF NumberInv
    <3>. QED
      BY <1>2, <1>3, <1>9, <1>10, <1>11, <3>1
  <2>. QED
    BY <1>3, <1>10, <2>1
<1>13. InvoiceNumberHasOneBooking'
  <2>1. ASSUME NEW p \in numbered, p[1] = n
        PROVE  p[2] = b
    <3>1. p[1] <= invoice[p[2]].number
      BY DEF NumberInv
    <3>. QED
      BY <1>2, <1>3, <1>7, <1>11, <2>1, <3>1
  <2>2. \A p, q \in numbered : p[1] = q[1] => p[2] = q[2]
    BY DEF NumberInv, InvoiceNumberHasOneBooking
  <2>3. \A p, q \in numbered' : p[1] = q[1] => p[2] = q[2]
    BY <1>10, <2>1, <2>2
  <2>. QED
    BY <2>3 DEF InvoiceNumberHasOneBooking
<1>14. \A c \in Bookings : invoice'[c].number > 1 =>
         \E d \in Bookings \ {c} : invoice'[d].number >= invoice'[c].number - 1
  <2>1. ASSUME NEW c \in Bookings, invoice'[c].number > 1
        PROVE  \E d \in Bookings \ {c} : invoice'[d].number >= invoice'[c].number - 1
    <3>1. CASE c = b
      <4>1. PICK d \in Bookings \ {b} : invoice[d].number = n - 1
        BY <1>3, <1>8, <1>10, <2>1, <3>1
      <4>. QED
        BY <1>3, <1>10, <3>1, <4>1
    <3>2. CASE c # b
      BY <1>2, <1>3, <1>7, <1>10, <3>2
    <3>. QED
      BY <3>1, <3>2
  <2>. QED
    BY <2>1
<1>. QED
  BY <1>12, <1>13, <1>14 DEF NumberInv

LEMMA SameNumbers ==
  ASSUME FolioInv, NumberInv, numbered' = numbered,
         \A b \in Bookings : invoice'[b].number = invoice[b].number
  PROVE  NumberInv'
<1>1. \A p \in numbered : p[2] \in Bookings
  BY DEF FolioInv, TypeOK
<1>. QED
  BY <1>1 DEF NumberInv, InvoiceNumberHasOneBooking

\* A number of the day never names two bookings, however often invoices are
\* printed again and however many bookings there are.
THEOREM NumbersStay == Spec => []InvoiceNumberHasOneBooking
<1>1. Init => NumberInv
  <2>. SUFFICES ASSUME Init PROVE NumberInv
    OBVIOUS
  <2>1. \A b \in Bookings : invoice[b].number = 0
    BY DEF Init, NoInvoice
  <2>. QED
    BY <2>1 DEF Init, NumberInv, InvoiceNumberHasOneBooking
<1>2. ASSUME FolioInv, NumberInv, [Next]_vars
      PROVE  NumberInv'
  <2>1. CASE \E b \in Bookings, n \in 1 .. MaxInvoices : GenerateInvoice(b, n)
    BY <1>2, <2>1, GenerateNumbers
  <2>2. ASSUME NEW b \in Bookings, Void(b)
        PROVE  NumberInv'
    <3>1. invoice \in [Bookings -> Invoice] /\ numbered' = numbered
      BY <1>2, <2>2 DEF FolioInv, TypeOK, Void
    <3>2. \A c \in Bookings : invoice'[c].number = invoice[c].number
      BY <2>2, <3>1 DEF Void, Invoice
    <3>. QED
      BY <1>2, <3>1, <3>2, SameNumbers
  <2>3. CASE UNCHANGED <<invoice, numbered>>
    BY <1>2, <2>3, SameNumbers
  <2>4. \/ \E b \in Bookings, n \in 1 .. MaxInvoices : GenerateInvoice(b, n)
        \/ \E b \in Bookings : Void(b)
        \/ UNCHANGED <<invoice, numbered>>
    <3>1. ASSUME NEW b \in Bookings, Arrive(b)
          PROVE  UNCHANGED <<invoice, numbered>>
      BY <3>1 DEF Arrive, CheckIn, Reserve, Backfill, OnlyMoney
    <3>2. ASSUME NEW b \in Bookings, Reprice(b)
          PROVE  UNCHANGED <<invoice, numbered>>
      BY <3>2 DEF Reprice, Modify, Confirm, ChangeRoom, Extend, SetRate,
                  Shorten, OnlyMoney
    <3>3. ASSUME NEW b \in Bookings, Settle(b)
          PROVE  \/ \E n \in 1 .. MaxInvoices : GenerateInvoice(b, n)
                 \/ Void(b)
                 \/ UNCHANGED <<invoice, numbered>>
      BY <3>3 DEF Settle, Pay, CheckOut, Cancel, OnlyMoney
    <3>4. ASSUME NEW g \in Groups, AnyGroupCheckin(g) \/ AnyGroupCheckOut(g)
          PROVE  UNCHANGED <<invoice, numbered>>
      <4>1. CASE AnyGroupCheckin(g)
        <5>1. PICK S, status, n, amount, master, rate, totals :
                GroupCheckin(g, status, S, master, n, rate, totals, amount)
          BY <4>1, Zenon DEF AnyGroupCheckin
        <5>. QED
          BY <5>1 DEF GroupCheckin
      <4>2. CASE AnyGroupCheckOut(g)
        <5>1. PICK S, amount, payer, master :
                GroupCheckOut(g, S, master, amount, payer)
          BY <4>2, Zenon DEF AnyGroupCheckOut
        <5>. QED
          BY <5>1 DEF GroupCheckOut
      <4>. QED
        BY <3>4, <4>1, <4>2
    <3>5. CASE UNCHANGED vars
      BY <3>5 DEF vars
    <3>. QED
      BY <1>2, <3>1, <3>2, <3>3, <3>4, <3>5, Zenon DEF Next, Single
  <2>. QED
    BY <2>1, <2>2, <2>3, <2>4
<1>3. NumberInv => InvoiceNumberHasOneBooking
  BY DEF NumberInv
<1>. QED
  BY <1>1, <1>2, <1>3, FolioInvariant, PTL DEF Spec

-----------------------------------------------------------------------------
(* Rounding. *)

LEMMA DivBounds ==
  ASSUME NEW a \in Int, NEW b \in Nat \ {0}
  PROVE  /\ a \div b \in Int
         /\ b * (a \div b) <= a
         /\ a < b * (a \div b) + b
BY Z3

\* The quotient is the one number with a remainder under the divisor.
LEMMA DivIs ==
  ASSUME NEW b \in Nat \ {0}, NEW q \in Int, NEW a \in Int,
         b * q <= a, a < b * q + b
  PROVE  a \div b = q
<1>1. PICK d \in Int : d = a \div b
  BY DivBounds
<1>2. b * d <= a /\ a < b * d + b
  BY <1>1, DivBounds
<1>3. b * (d - q) = b * d - b * q
  BY Z3
<1>4. b * (d - q) < b /\ -b < b * (d - q)
  BY <1>2, <1>3
<1>5. PICK e \in Int : e = d - q
  OBVIOUS
<1>6. ~(e >= 1) /\ ~(e <= -1)
  <2>1. e >= 1 => b * e >= b
    BY Z3
  <2>2. e <= -1 => b * e <= -b
    BY Z3
  <2>. QED
    BY <1>4, <1>5, <2>1, <2>2
<1>. QED
  BY <1>1, <1>5, <1>6

\* A number is at most a quotient when it is so times the divisor.
LEMMA DivAtLeast ==
  ASSUME NEW b \in Nat \ {0}, NEW q \in Int, NEW a \in Int, b * q <= a
  PROVE  q <= a \div b
<1>1. PICK d \in Int : d = a \div b
  BY DivBounds
<1>2. a < b * d + b
  BY <1>1, DivBounds
<1>3. PICK e \in Int : e = q - d
  OBVIOUS
<1>4. b * q = b * d + b * e
  BY <1>3, Z3
<1>5. b * e < b
  BY <1>2, <1>4, b * q \in Int, b * d \in Int, b * e \in Int
<1>6. e >= 1 => b * e >= b
  BY Z3
<1>. QED
  BY <1>1, <1>3, <1>5, <1>6

LEMMA DivMonotone ==
  ASSUME NEW a \in Int, NEW c \in Int, a <= c, NEW b \in Nat \ {0}
  PROVE  a \div b <= c \div b
<1>1. b * (a \div b) <= c /\ a \div b \in Int
  BY DivBounds
<1>. QED
  BY <1>1, DivAtLeast

LEMMA TimesMonotone ==
  ASSUME NEW c \in Nat, NEW a \in Int, NEW b \in Int, a <= b
  PROVE  c * a <= c * b /\ a * c <= b * c
BY Z3

\* A positive factor may be taken off both sides.
LEMMA CancelFactor ==
  ASSUME NEW p \in Nat \ {0}, NEW a \in Int, NEW b \in Int, p * a <= p * b
  PROVE  a <= b
<1>1. PICK e \in Int : e = a - b
  OBVIOUS
<1>2. p * a = p * b + p * e
  BY <1>1, Z3
<1>3. p * e <= 0
  BY <1>2, p * a \in Int, p * b \in Int, p * e \in Int
<1>4. e >= 1 => p * e >= p
  BY Z3
<1>. QED
  BY <1>1, <1>3, <1>4

\* Rounding is off by half a unit at most.
LEMMA RoundNear ==
  ASSUME NEW n \in Int, NEW d \in Nat \ {0}
  PROVE  /\ RoundHalfAway(n, d) \in Int
         /\ 2 * n - d <= 2 * (d * RoundHalfAway(n, d))
         /\ 2 * (d * RoundHalfAway(n, d)) <= 2 * n + d
<1>1. PICK r \in Int : r = RoundHalfAway(n, d)
  <2>1. 2 * n + d \in Int /\ d - 2 * n \in Int /\ 2 * d \in Nat \ {0}
    OBVIOUS
  <2>. QED
    BY <2>1, DivBounds DEF RoundHalfAway
<1>2. CASE n >= 0
  <2>1. /\ (2 * d) * r <= 2 * n + d
        /\ 2 * n + d < (2 * d) * r + 2 * d
    BY <1>1, <1>2, DivBounds, 2 * n + d \in Int, 2 * d \in Nat \ {0} DEF RoundHalfAway
  <2>2. (2 * d) * r = 2 * (d * r) /\ d * r \in Int
    BY Z3
  <2>. QED
    BY <1>1, <2>1, <2>2
<1>3. CASE ~(n >= 0)
  <2>1. PICK q \in Int : q = (d - 2 * n) \div (2 * d)
    BY DivBounds, d - 2 * n \in Int, 2 * d \in Nat \ {0}
  <2>2. /\ (2 * d) * q <= d - 2 * n
        /\ d - 2 * n < (2 * d) * q + 2 * d
    BY <2>1, DivBounds, d - 2 * n \in Int, 2 * d \in Nat \ {0}
  <2>3. r = -q
    BY <1>1, <1>3, <2>1 DEF RoundHalfAway
  <2>4. (2 * d) * q = 2 * (d * q) /\ d * r = -(d * q) /\ d * q \in Int
    BY <2>3, Z3
  <2>. QED
    BY <1>1, <2>2, <2>4
<1>. QED
  BY <1>2, <1>3

LEMMA RoundMonotone ==
  ASSUME NEW n \in Nat, NEW m \in Nat, n <= m, NEW d \in Nat \ {0}
  PROVE  0 <= RoundHalfAway(n, d) /\ RoundHalfAway(n, d) <= RoundHalfAway(m, d)
<1>1. 2 * d \in Nat \ {0} /\ 2 * n + d \in Int /\ 2 * m + d \in Int
  OBVIOUS
<1>2. (2 * n + d) \div (2 * d) <= (2 * m + d) \div (2 * d)
  BY <1>1, DivMonotone
<1>3. 0 <= (2 * n + d) \div (2 * d)
  BY <1>1, DivAtLeast
<1>. QED
  BY <1>2, <1>3 DEF RoundHalfAway

\* A percentage of nothing, and no percentage of anything, is nothing.
LEMMA RoundZero ==
  ASSUME NEW d \in Nat \ {0}
  PROVE  RoundHalfAway(0, d) = 0
<1>1. (2 * 0 + d) \div (2 * d) = 0
  BY DivIs, 2 * d \in Nat \ {0}, d \in Int, (2 * d) * 0 = 0
<1>. QED
  BY <1>1 DEF RoundHalfAway

\* Whole per cents of an amount, and any fraction of a per cent of it.
LEMMA PercentNear ==
  ASSUME NEW b \in Int, NEW pct \in Int
  PROVE  /\ Percent(b, pct) \in Int
         /\ 2 * (b * pct) - 100 * PctScale <= 200 * (PctScale * Percent(b, pct))
         /\ 200 * (PctScale * Percent(b, pct)) <= 2 * (b * pct) + 100 * PctScale
<1> DEFINE d == 100 * PctScale
<1>1. d \in Nat \ {0} /\ b * pct \in Int /\ PctScale \in Nat \ {0}
  BY StayPriceAssumption
<1>2. PICK r \in Int : r = RoundHalfAway(b * pct, d)
  BY <1>1, RoundNear
<1>3. /\ 2 * (b * pct) - d <= 2 * (d * r)
      /\ 2 * (d * r) <= 2 * (b * pct) + d
  BY <1>1, <1>2, RoundNear
<1>4. 2 * (d * r) = 200 * (PctScale * r)
  BY <1>1, Z3
<1>. QED
  BY <1>2, <1>3, <1>4 DEF Percent

LEMMA WholePercentNear ==
  ASSUME NEW b \in Int, NEW p \in Int
  PROVE  /\ Percent(b, p * PctScale) \in Int
         /\ 2 * (b * p) - 100 <= 200 * Percent(b, p * PctScale)
         /\ 200 * Percent(b, p * PctScale) <= 2 * (b * p) + 100
<1>1. PctScale \in Nat \ {0} /\ p * PctScale \in Int /\ b * p \in Int
  BY StayPriceAssumption
<1>2. PICK r \in Int : r = Percent(b, p * PctScale)
  BY <1>1, PercentNear
<1>3. /\ 2 * (b * (p * PctScale)) - 100 * PctScale <= 200 * (PctScale * r)
      /\ 200 * (PctScale * r) <= 2 * (b * (p * PctScale)) + 100 * PctScale
  BY <1>1, <1>2, PercentNear
<1>4. PICK x \in Int : x = b * p
  BY <1>1
<1>5. /\ 2 * (b * (p * PctScale)) = 2 * (PctScale * x)
      /\ PctScale * (2 * x - 100) = 2 * (PctScale * x) - 100 * PctScale
      /\ PctScale * (2 * x + 100) = 2 * (PctScale * x) + 100 * PctScale
      /\ PctScale * (200 * r) = 200 * (PctScale * r)
  BY <1>1, <1>4, Z3
<1>6. /\ PctScale * (2 * x - 100) <= PctScale * (200 * r)
      /\ PctScale * (200 * r) <= PctScale * (2 * x + 100)
  BY <1>3, <1>5
<1>7. 2 * x - 100 <= 200 * r /\ 200 * r <= 2 * x + 100
  BY <1>1, <1>6, CancelFactor, 2 * x - 100 \in Int, 200 * r \in Int, 2 * x + 100 \in Int
<1>. QED
  BY <1>2, <1>4, <1>7

LEMMA PercentMonotone ==
  ASSUME NEW b \in Nat, NEW c \in Nat, b <= c, NEW pct \in Nat
  PROVE  0 <= Percent(b, pct) /\ Percent(b, pct) <= Percent(c, pct)
<1>1. b * pct \in Nat /\ c * pct \in Nat /\ b * pct <= c * pct
  BY TimesMonotone
<1>. QED
  BY <1>1, RoundMonotone, StayPriceAssumption, 100 * PctScale \in Nat \ {0} DEF Percent

LEMMA NoPercent == \A b \in Int : Percent(b, 0) = 0
<1>1. 100 * PctScale \in Nat \ {0} /\ \A b \in Int : b * 0 = 0
  BY StayPriceAssumption
<1>. QED
  BY <1>1, RoundZero DEF Percent
-----------------------------------------------------------------------------
(* The days of a stay. *)

LEMMA DayType == Day \in Nat \ {0}
BY StayPriceAssumption DEF Day

LEMMA DateType ==
  ASSUME NEW t \in Int
  PROVE  DateOf(t) \in Int /\ TimeOf(t) \in Int
BY DayType, DivBounds, Z3 DEF DateOf, TimeOf

LEMMA DateMonotone ==
  ASSUME NEW t \in Int, NEW u \in Int, t <= u
  PROVE  DateOf(t) <= DateOf(u)
BY DayType, DivMonotone DEF DateOf

\* A day later it is the same time of the next date.
LEMMA NextDay ==
  ASSUME NEW t \in Int
  PROVE  DateOf(t + Day) = DateOf(t) + 1 /\ TimeOf(t + Day) = TimeOf(t)
<1>1. PICK d \in Nat \ {0} : d = Day
  BY DayType
<1>2. PICK q \in Int : q = t \div d
  BY DivBounds
<1>3. d * q <= t /\ t < d * q + d /\ d * q \in Int
  BY <1>2, DivBounds
<1>4. PICK u \in Int : u = t + d
  OBVIOUS
<1>5. d * (q + 1) = d * q + d
  BY Z3
<1>6. u \div d = q + 1
  BY <1>3, <1>4, <1>5, DivIs, q + 1 \in Int
<1>7. \A a \in Int : a % d = a - d * (a \div d)
  BY Z3
<1>8. u % d = t % d
  <2>1. u % d = u - d * (q + 1)
    BY <1>6, <1>7
  <2>2. t % d = t - d * q
    BY <1>2, <1>7
  <2>. QED
    BY <1>3, <1>4, <1>5, <2>1, <2>2
<1>. QED
  BY <1>1, <1>2, <1>4, <1>6, <1>8 DEF DateOf, TimeOf

\* The dates of a stay of some nights, one more night, and that night alone.
LEMMA DatesAdd ==
  ASSUME NEW ci \in Int, NEW co \in Int, DateOf(ci) < DateOf(co)
  PROVE  /\ StayDates(ci, co) = DateOf(ci) .. DateOf(co) - 1
         /\ StayDates(co, co + Day) = {DateOf(co)}
         /\ StayDates(ci, co + Day) = StayDates(ci, co) \cup {DateOf(co)}
         /\ DateOf(co) \notin StayDates(ci, co)
         /\ DaysOf(ci, co) = DateOf(co) - DateOf(ci)
         /\ DaysOf(co, co + Day) = 1
         /\ DaysOf(ci, co + Day) = DateOf(co) + 1 - DateOf(ci)
<1>1. PICK a \in Int, b \in Int : a = DateOf(ci) /\ b = DateOf(co)
  BY DateType
<1>2. DateOf(co + Day) = b + 1
  BY <1>1, NextDay
<1>3. /\ DaysOf(ci, co) = b - a /\ DaysOf(co, co + Day) = 1
      /\ DaysOf(ci, co + Day) = b + 1 - a
  BY <1>1, <1>2 DEF DaysOf, AtLeastOne
<1>4. /\ StayDates(ci, co) = a .. b - 1
      /\ StayDates(co, co + Day) = {b}
      /\ StayDates(ci, co + Day) = a .. b
  BY <1>1, <1>3 DEF StayDates
<1>. QED
  BY <1>1, <1>3, <1>4

LEMMA DatesType ==
  ASSUME NEW ci \in Int, NEW co \in Int
  PROVE  /\ DaysOf(ci, co) \in Nat \ {0}
         /\ IsFiniteSet(StayDates(ci, co))
         /\ StayDates(ci, co) \subseteq Int
         /\ \A d \in StayDates(ci, co) :
              DateOf(ci) <= d /\ (d < DateOf(co) \/ d = DateOf(ci))
<1>1. PICK a \in Int, b \in Int : a = DateOf(ci) /\ b = DateOf(co)
  BY DateType
<1>2. DaysOf(ci, co) = (IF b - a >= 1 THEN b - a ELSE 1)
  BY <1>1 DEF DaysOf, AtLeastOne
<1>3. PICK n \in Nat \ {0} : n = DaysOf(ci, co)
  BY <1>2
<1>4. StayDates(ci, co) = a .. a + n - 1
  BY <1>1, <1>3 DEF StayDates
<1>5. IsFiniteSet(a .. a + n - 1)
  BY FS_Interval, a + n - 1 \in Int
<1>. QED
  BY <1>1, <1>2, <1>3, <1>4, <1>5

\* The dates of a longer stay.
LEMMA DatesGrow ==
  ASSUME NEW ci \in Int, NEW co \in Int, NEW cp \in Int, co <= cp
  PROVE  /\ StayDates(ci, co) \subseteq StayDates(ci, cp)
         /\ DaysOf(ci, co) <= DaysOf(ci, cp)
<1>1. PICK a \in Int, b \in Int, c \in Int :
        a = DateOf(ci) /\ b = DateOf(co) /\ c = DateOf(cp)
  BY DateType
<1>2. b <= c
  BY <1>1, DateMonotone
<1>3. DaysOf(ci, co) = (IF b - a >= 1 THEN b - a ELSE 1)
      /\ DaysOf(ci, cp) = (IF c - a >= 1 THEN c - a ELSE 1)
  BY <1>1 DEF DaysOf, AtLeastOne
<1>. QED
  BY <1>1, <1>2, <1>3 DEF StayDates

-----------------------------------------------------------------------------
(* The nights of the weekend and the special ones. *)

Weekends(ci, co) == Cardinality({d \in StayDates(ci, co) : Weekend(d)})
Specials(ci, co) == SumFunctionOnSet(SpecialDays, StayDates(ci, co))

SpecialOK == special.day \in Horizon /\ special.uplift \in Int

\* Every night that the engine looks at is one that may be special.
InHorizon(ci, co) == 0 <= ci /\ ci < co /\ DateOf(co) <= 7 + LongestStay

LEMMA WeekendsType ==
  ASSUME NEW ci \in Int, NEW co \in Int
  PROVE  /\ Weekends(ci, co) \in Nat
         /\ IsFiniteSet({d \in StayDates(ci, co) : Weekend(d)})
BY DatesType, FS_Subset, FS_CardinalityType DEF Weekends

LEMMA HorizonDates ==
  ASSUME NEW ci \in Int, NEW co \in Int, InHorizon(ci, co)
  PROVE  \A d \in StayDates(ci, co) : d \in Horizon
<1>1. DateOf(0) = 0
  BY DayType, DivIs, Day * 0 = 0 DEF DateOf
<1>2. 0 <= DateOf(ci) /\ DateOf(ci) <= DateOf(co)
  BY <1>1, DateMonotone DEF InHorizon
<1>3. DateOf(co) - 1 < 7 + LongestStay /\ DateOf(ci) <= 7 + LongestStay
      /\ DateOf(ci) \in Int /\ DateOf(co) \in Int /\ LongestStay \in Nat
  BY <1>2, DateType, StayQuoteAssumption DEF InHorizon
<1>. SUFFICES ASSUME NEW d \in StayDates(ci, co) PROVE d \in Horizon
  OBVIOUS
<1>4. d \in Int /\ DateOf(ci) <= d /\ (d < DateOf(co) \/ d = DateOf(ci))
  BY DatesType
<1>5. DateOf(co) <= 7 + LongestStay
  BY DEF InHorizon
<1>. QED
  BY <1>2, <1>3, <1>4, <1>5 DEF Horizon

LEMMA SpecialsType ==
  ASSUME SpecialOK, NEW ci \in Int, NEW co \in Int, InHorizon(ci, co)
  PROVE  /\ \A d \in StayDates(ci, co) : SpecialDays[d] \in Int
         /\ Specials(ci, co) \in Int
<1>1. \A d \in StayDates(ci, co) : SpecialDays[d] \in Int
  BY HorizonDates DEF SpecialDays, SpecialOK
<1>. QED
  BY <1>1, SumTerm, DatesType DEF Specials

\* Both add up when a night is added.
LEMMA NightsAdd ==
  ASSUME SpecialOK, NEW ci \in Int, NEW co \in Int, DateOf(ci) < DateOf(co),
         InHorizon(ci, co + Day)
  PROVE  /\ Weekends(ci, co + Day) = Weekends(ci, co) + Weekends(co, co + Day)
         /\ Specials(ci, co + Day) = Specials(ci, co) + Specials(co, co + Day)
         /\ Weekends(co, co + Day) \in 0 .. 1
         /\ Specials(co, co + Day) = SpecialDays[DateOf(co)]
<1>1. PICK S, T, d : /\ S = StayDates(ci, co) /\ T = StayDates(ci, co + Day)
                     /\ d = DateOf(co)
  OBVIOUS
<1>2. T = S \cup {d} /\ d \notin S /\ StayDates(co, co + Day) = {d} /\ d \in T
  BY <1>1, DatesAdd
<1>3. co + Day \in Int
  BY DayType
<1>4. IsFiniteSet(S) /\ IsFiniteSet(T) /\ \A e \in T : SpecialDays[e] \in Int
  BY <1>1, <1>3, DatesType, SpecialsType
<1>5. Weekends(ci, co + Day) = Weekends(ci, co) + Weekends(co, co + Day)
      /\ Weekends(co, co + Day) \in 0 .. 1
  <2> DEFINE W(R) == {e \in R : Weekend(e)}
  <2>1. IsFiniteSet(W(S)) /\ Cardinality(W(S)) \in Nat
    BY <1>4, FS_Subset, FS_CardinalityType
  <2>2. CASE Weekend(d)
    <3>1. W(T) = W(S) \cup {d} /\ d \notin W(S) /\ W({d}) = {d}
      BY <1>2, <2>2
    <3>2. Cardinality(W(S) \cup {d}) = Cardinality(W(S)) + 1
      <4>1. Cardinality(W(S) \cup {d}) =
              IF d \in W(S) THEN Cardinality(W(S)) ELSE Cardinality(W(S)) + 1
        BY <2>1, FS_AddElement
      <4>. QED
        BY <3>1, <4>1
    <3>3. Cardinality({d}) = 1
      BY FS_Singleton
    <3>. QED
      BY <1>1, <1>2, <3>1, <3>2, <3>3 DEF Weekends
  <2>3. CASE ~Weekend(d)
    <3>1. W(T) = W(S) /\ W({d}) = {}
      BY <1>2, <2>3
    <3>2. Cardinality({}) = 0
      BY FS_EmptySet
    <3>. QED
      BY <1>1, <1>2, <2>1, <3>1, <3>2 DEF Weekends
  <2>. QED
    BY <2>2, <2>3
<1>6. Specials(ci, co + Day) = Specials(ci, co) + SpecialDays[d]
  <2>1. SumFunctionOnSet(SpecialDays, T)
          = SpecialDays[d] + SumFunctionOnSet(SpecialDays, T \ {d})
    BY <1>2, <1>4, SumTerm
  <2>2. T \ {d} = S /\ SpecialDays[d] \in Int
    BY <1>2, <1>4
  <2>3. SumFunctionOnSet(SpecialDays, S) \in Int
    BY <1>2, <1>4, SumTerm
  <2>. QED
    <3>1. SumFunctionOnSet(SpecialDays, T)
            = SumFunctionOnSet(SpecialDays, S) + SpecialDays[d]
      <4>1. SumFunctionOnSet(SpecialDays, T \ {d}) = SumFunctionOnSet(SpecialDays, S)
        BY <2>2, Zenon
      <4>. QED
        BY <2>1, <2>2, <2>3, <4>1
    <3>. QED
      BY <1>1, <3>1 DEF Specials
<1>7. Specials(co, co + Day) = SpecialDays[d]
  <2>1. IsFiniteSet({d}) /\ \A e \in {d} : SpecialDays[e] \in Int
    BY <1>2, <1>4, FS_Singleton
  <2>2. SumFunctionOnSet(SpecialDays, {d})
          = SpecialDays[d] + SumFunctionOnSet(SpecialDays, {d} \ {d})
    BY <2>1, SumTerm
  <2>3. {d} \ {d} = {}
    OBVIOUS
  <2>. QED
    <3>1. SumFunctionOnSet(SpecialDays, {}) = 0 /\ SpecialDays[d] \in Int
      BY <2>1, SumEmpty
    <3>2. SumFunctionOnSet(SpecialDays, {d} \ {d}) = SumFunctionOnSet(SpecialDays, {})
      BY <2>3, Zenon
    <3>3. SumFunctionOnSet(SpecialDays, {d}) = SpecialDays[d]
      BY <2>2, <3>1, <3>2
    <3>. QED
      BY <1>2, <3>3 DEF Specials
<1>. QED
  BY <1>1, <1>5, <1>6, <1>7
-----------------------------------------------------------------------------
(* What a stay by the night costs before it is rounded. *)

\* The percentage of the surcharges on each night for the hours of coming and
\* going.
Shares(t) ==
  IF kind # "overnight" THEN 0
  ELSE (IF TimeOf(t) < rule.overnightStart THEN rule.early ELSE 0)
       + (IF TimeOf(t) > rule.overnightEnd THEN rule.late ELSE 0)

\* The surcharge of a stay by the day, once for the stay.
Flat(t) ==
  IF kind # "daily" THEN 0
  ELSE (IF TimeOf(t) < rule.dailyCheckin THEN Percent(rule.daily, rule.early) ELSE 0)
       + (IF TimeOf(t) > rule.dailyCheckout THEN Percent(rule.daily, rule.late) ELSE 0)

\* The weekend's percentage, which is never a discount.
WeekendShare == IF rule.weekend <= 0 THEN 0 ELSE rule.weekend

\* In parts of 1 / (200 * PctScale) of a unit of money.
Exact(ci, co) ==
  LET nights == DateOf(co) - DateOf(ci)
  IN PctScale * (200 * (Rate * nights) + 200 * ((guests - 2) * nights)
                 + 2 * (Rate * Specials(ci, co)))
     + 2 * ((rule.daily * Weekends(ci, co)) * WeekendShare)
     + 2 * ((Rate * nights) * Shares(ci))

\* What a quote is asked with.
RoomOK ==
  /\ rule.hourly \in Nat /\ rule.overnight \in Nat /\ rule.daily \in Nat
  /\ rule.early \in Int /\ rule.late \in Int /\ rule.weekend \in Int
  /\ kind \in Kinds /\ guests \in 2 .. 3 /\ SpecialOK

LEMMA RuleFacts ==
  ASSUME RoomOK
  PROVE  Rate \in Nat /\ WeekendShare \in Nat /\ PctScale \in Nat \ {0}
BY StayPriceAssumption DEF RoomOK, Rate, WeekendShare

\* A saved rule and a derived one are both such a rule.
LEMMA RulesAreTyped ==
  ASSUME rule \in Rules
  PROVE  /\ rule.hourly \in Nat /\ rule.overnight \in Nat /\ rule.daily \in Nat
         /\ rule.early \in Int /\ rule.late \in Int /\ rule.weekend \in Int
<1>1. CASE rule \in StoredRules
  BY <1>1, StayQuoteAssumption DEF RuleType
<1>2. ASSUME NEW base \in BasePrices, rule = DerivedRule(base)
      PROVE  /\ rule.hourly \in Nat /\ rule.overnight \in Nat /\ rule.daily \in Nat
             /\ rule.early \in Int /\ rule.late \in Int /\ rule.weekend \in Int
  <2>1. base \in Nat /\ PctScale \in Nat
    BY StayQuoteAssumption, StayPriceAssumption
  <2>2. base \div 5 \in Nat /\ (base * 75) \div 100 \in Nat
    BY <2>1
  <2>3. /\ rule.hourly = base \div 5 /\ rule.overnight = (base * 75) \div 100
        /\ rule.daily = base /\ rule.early = 30 * PctScale
        /\ rule.late = 30 * PctScale /\ rule.weekend = 20 * PctScale
    BY <1>2 DEF DerivedRule
  <2>. QED
    BY <2>1, <2>2, <2>3
<1>. QED
  BY <1>1, <1>2 DEF Rules

LEMMA SharesType ==
  ASSUME RoomOK, NEW t \in Int
  PROVE  Shares(t) \in Int
BY DEF RoomOK, Shares

\* A share of a price that is no discount takes nothing off.
LEMMA PercentIsNat ==
  ASSUME NEW b \in Nat, NEW pct \in Nat
  PROVE  Percent(b, pct) \in Nat
<1>1. Percent(b, pct) \in Int
  BY PercentNear, b \in Int, pct \in Int
<1>2. 0 <= Percent(b, pct)
  BY PercentMonotone, b <= b
<1>. QED
  BY <1>1, <1>2

LEMMA FlatType ==
  ASSUME RoomOK, NEW t \in Int
  PROVE  Flat(t) \in Int /\ (NoDiscounts => Flat(t) \in Nat)
<1>1. Percent(rule.daily, rule.early) \in Int /\ Percent(rule.daily, rule.late) \in Int
  <2>1. rule.daily \in Int /\ rule.early \in Int /\ rule.late \in Int
    BY DEF RoomOK
  <2>. QED
    BY <2>1, PercentNear
<1>2. ASSUME NoDiscounts
      PROVE  /\ Percent(rule.daily, rule.early) \in Nat
             /\ Percent(rule.daily, rule.late) \in Nat
  <2>1. rule.daily \in Nat /\ rule.early \in Nat /\ rule.late \in Nat
    BY <1>2 DEF RoomOK, NoDiscounts
  <2>. QED
    BY <2>1, PercentIsNat
<1>. QED
  BY <1>1, <1>2 DEF Flat

LEMMA WeekendPart ==
  ASSUME RoomOK, NEW ci \in Int, NEW co \in Int,
         NEW we, we = WeekendUplift(rule, ci, co),
         NEW m, m = (rule.daily * Weekends(ci, co)) * WeekendShare
  PROVE  /\ we = Percent(rule.daily * Weekends(ci, co), WeekendShare)
         /\ we \in Int /\ m \in Int
         /\ 2 * m - 100 * PctScale <= 200 * (PctScale * we)
         /\ 200 * (PctScale * we) <= 2 * m + 100 * PctScale
<1>1. Weekends(ci, co) \in Nat /\ rule.daily \in Nat /\ PctScale \in Nat \ {0}
  BY WeekendsType, RuleFacts DEF RoomOK
<1>2. PICK b \in Nat : b = rule.daily * Weekends(ci, co)
  BY <1>1
<1>3. PICK pct \in Nat : pct = WeekendShare
  BY RuleFacts
<1>4. we = Percent(b, pct)
  <2>1. CASE rule.weekend <= 0
    <3>1. we = 0 /\ pct = 0
      BY <1>3, <2>1 DEF WeekendUplift, WeekendShare
    <3>. QED
      BY <3>1, NoPercent
  <2>2. CASE ~(rule.weekend <= 0)
    BY <1>2, <1>3, <2>2 DEF WeekendUplift, WeekendShare, Weekends
  <2>. QED
    BY <2>1, <2>2
<1>5. /\ Percent(b, pct) \in Int
      /\ 2 * (b * pct) - 100 * PctScale <= 200 * (PctScale * Percent(b, pct))
      /\ 200 * (PctScale * Percent(b, pct)) <= 2 * (b * pct) + 100 * PctScale
  BY PercentNear, b \in Int, pct \in Int
<1>6. m = b * pct /\ m \in Int
  BY <1>2, <1>3
<1>. QED
  BY <1>2, <1>3, <1>4, <1>5, <1>6

\* The mean uplift of n nights on n times the rate is each night's own, but for
\* the rounding of the mean and that of the amount.
MeanIsNear(rate, n, s, up) ==
  /\ up \in Int
  /\ PctScale * (200 * up - 2 * (rate * s)) <= 100 * PctScale + rate * n
  /\ -(100 * PctScale + rate * n) <= PctScale * (200 * up - 2 * (rate * s))
  /\ n = 1 => 200 * up <= 2 * (rate * s) + 100 /\ 2 * (rate * s) - 100 <= 200 * up

LEMMA MeanNear ==
  ASSUME NEW rate \in Nat, NEW n \in Nat \ {0}, NEW s \in Int
  PROVE  MeanIsNear(rate, n, s, Percent(rate * n, RoundHalfAway(PctScale * s, n)))
<1>0. PICK up : up = Percent(rate * n, RoundHalfAway(PctScale * s, n))
  OBVIOUS
<1>13. PctScale \in Nat \ {0}
  BY StayPriceAssumption
<1>1. PctScale * s \in Int /\ rate * n \in Nat
  BY <1>13
<1>2. PICK m \in Int : m = RoundHalfAway(PctScale * s, n)
  BY <1>1, RoundNear
<1>3. 2 * (PctScale * s) - n <= 2 * (n * m) /\ 2 * (n * m) <= 2 * (PctScale * s) + n
  BY <1>1, <1>2, RoundNear
<1>11. PICK b \in Nat : b = rate * n
  BY <1>1
<1>4. up \in Int /\ up = Percent(b, m)
  <2>1. Percent(b, m) \in Int
    BY PercentNear, b \in Int
  <2>2. up = Percent(b, m)
    BY <1>0, <1>2, <1>11
  <2>. QED
    BY <2>1, <2>2
<1>5. /\ 2 * (b * m) - 100 * PctScale <= 200 * (PctScale * up)
      /\ 200 * (PctScale * up) <= 2 * (b * m) + 100 * PctScale
  BY <1>4, <1>13, PercentNear
<1>6. /\ rate * (2 * (PctScale * s) - n) <= rate * (2 * (n * m))
      /\ rate * (2 * (n * m)) <= rate * (2 * (PctScale * s) + n)
  BY <1>3, <1>13, TimesMonotone, 2 * (PctScale * s) - n \in Int, 2 * (n * m) \in Int,
     2 * (PctScale * s) + n \in Int
<1>7. /\ rate * (2 * (n * m)) = 2 * (b * m)
      /\ rate * (2 * (PctScale * s) - n) = 2 * (PctScale * (rate * s)) - b
      /\ rate * (2 * (PctScale * s) + n) = 2 * (PctScale * (rate * s)) + b
      /\ PctScale * (200 * up - 2 * (rate * s))
           = 200 * (PctScale * up) - 2 * (PctScale * (rate * s))
  BY <1>4, <1>11, <1>13, Z3
<1>8. PICK x \in Int, y \in Int, z \in Int :
        x = PctScale * up /\ y = PctScale * (rate * s) /\ z = b * m
  BY <1>4, <1>13
<1>9. 200 * x - 2 * y <= 100 * PctScale + b /\ -(100 * PctScale + b) <= 200 * x - 2 * y
  BY <1>5, <1>6, <1>7, <1>8, <1>13
<1>10. ASSUME n = 1
       PROVE  200 * up <= 2 * (rate * s) + 100 /\ 2 * (rate * s) - 100 <= 200 * up
  <2>1. PICK x1 \in Int : x1 = PctScale * s
    BY <1>1
  <2>2. m = s * PctScale /\ b = rate
    BY <1>3, <1>10, <1>11, <1>13
  <2>3. up = Percent(rate, s * PctScale)
    BY <1>4, <2>2
  <2>4. rate \in Int
    OBVIOUS
  <2>. QED
    BY <2>3, <2>4, WholePercentNear
<1>12. PctScale * (200 * up - 2 * (rate * s)) = 200 * x - 2 * y
  BY <1>7, <1>8
<1>. QED
  BY <1>0, <1>4, <1>9, <1>10, <1>11, <1>12 DEF MeanIsNear

\* A stay of some nights, at the same time of day.
NightsFrom(ci, co) ==
  ci < co /\ DateOf(ci) < DateOf(co) /\ TimeOf(co) = TimeOf(ci)

\* What the hours of coming and going add to it.
SurchargeOf(ci, co) == Surcharge(rule, kind, ci, co, TRUE)

LEMMA BasePart ==
  ASSUME RoomOK, kind # "hourly", NEW ci \in Int, NEW co \in Int, NightsFrom(ci, co),
         NEW n, n = DateOf(co) - DateOf(ci)
  PROVE  /\ n \in Nat \ {0} /\ DaysOf(ci, co) = n
         /\ Base(rule, kind, ci, co) = Rate * n
         /\ ExtraGuests(1, guests, 2, ci, co) = (guests - 2) * n
<1>1. DateOf(ci) \in Int /\ DateOf(co) \in Int /\ DateOf(ci) < DateOf(co)
  BY DateType DEF NightsFrom
<1>2. n \in Nat \ {0} /\ DaysOf(ci, co) = n
  BY <1>1, DatesAdd
<1>3. Base(rule, kind, ci, co) = Rate * n
  BY <1>2 DEF Base, Rate
<1>4. ExtraGuests(1, guests, 2, ci, co) = (guests - 2) * n
  BY <1>2 DEF ExtraGuests, RoomOK
<1>. QED
  BY <1>2, <1>3, <1>4

LEMMA SurchargePart ==
  ASSUME RoomOK, kind # "hourly", NEW ci \in Int, NEW co \in Int, NightsFrom(ci, co),
         NEW n, n = DateOf(co) - DateOf(ci),
         NEW su, su = SurchargeOf(ci, co),
         NEW fl, fl = Flat(ci),
         NEW m, m = (Rate * n) * Shares(ci)
  PROVE  /\ su \in Int /\ fl \in Int /\ m \in Int
         /\ 2 * m - 200 * PctScale <= 200 * (PctScale * (su - fl))
         /\ 200 * (PctScale * (su - fl)) <= 2 * m + 200 * PctScale
<1>1. n \in Nat \ {0} /\ Base(rule, kind, ci, co) = Rate * n /\ TimeOf(co) = TimeOf(ci)
  BY BasePart DEF NightsFrom
<1>2. PICK b \in Nat : b = Rate * n
  BY <1>1, RuleFacts
<1>3. PICK e \in Int, l \in Int : e = rule.early /\ l = rule.late
  BY DEF RoomOK
<1>4. PICK pe \in Int, pl \in Int : pe = Percent(b, e) /\ pl = Percent(b, l)
  BY PercentNear, b \in Int
<1>5. PICK scale \in Nat \ {0} : scale = PctScale
  BY RuleFacts
<1> DEFINE Within(x, k, d) == /\ 2 * (b * k) - d <= 200 * (scale * x)
                              /\ 200 * (scale * x) <= 2 * (b * k) + d
<1>6. Within(pe, e, 100 * scale) /\ Within(pl, l, 100 * scale)
  BY <1>4, <1>5, PercentNear, b \in Int
<1>7. /\ Within(pe + pl, e + l, 200 * scale) /\ Within(pe, e, 200 * scale)
      /\ Within(pl, l, 200 * scale) /\ Within(0, 0, 200 * scale)
  <2>1. PICK x \in Int, y \in Int, u \in Int, v \in Int :
          x = scale * pe /\ y = scale * pl /\ u = b * e /\ v = b * l
    OBVIOUS
  <2>2. scale * (pe + pl) = x + y /\ b * (e + l) = u + v /\ scale * 0 = 0 /\ b * 0 = 0
    BY <2>1, Z3
  <2>3. /\ 2 * u - 100 * scale <= 200 * x /\ 200 * x <= 2 * u + 100 * scale
        /\ 2 * v - 100 * scale <= 200 * y /\ 200 * y <= 2 * v + 100 * scale
    BY <1>6, <2>1
  <2>. QED
    BY <2>1, <2>2, <2>3
<1>8. /\ su \in Int /\ fl \in Int /\ Shares(ci) \in Int
      /\ Within(su - fl, Shares(ci), 200 * scale)
  <2>0. fl \in Int /\ Shares(ci) \in Int
    BY FlatType, SharesType
  <2>1. CASE kind = "overnight"
    <3>1. fl = 0
      BY <2>1 DEF Flat
    <3>2. su = (IF TimeOf(ci) < rule.overnightStart THEN pe ELSE 0)
               + (IF TimeOf(ci) > rule.overnightEnd THEN pl ELSE 0)
      BY <1>1, <1>2, <1>3, <1>4, <2>1 DEF Surcharge, SurchargeOf
    <3>3. Shares(ci) = (IF TimeOf(ci) < rule.overnightStart THEN e ELSE 0)
                       + (IF TimeOf(ci) > rule.overnightEnd THEN l ELSE 0)
      BY <1>3, <2>1 DEF Shares
    <3>4. \/ su = pe + pl /\ Shares(ci) = e + l
          \/ su = pe /\ Shares(ci) = e
          \/ su = pl /\ Shares(ci) = l
          \/ su = 0 /\ Shares(ci) = 0
      BY <3>2, <3>3
    <3>5. su \in Int /\ su - fl = su
      BY <3>1, <3>4
    <3>. HIDE DEF Within
    <3>. QED
      BY <1>7, <2>0, <3>4, <3>5
  <2>2. CASE kind # "overnight"
    <3>1. su = fl
      BY <2>2 DEF Surcharge, SurchargeOf, Flat, NightsFrom
    <3>2. Shares(ci) = 0
      BY <2>2 DEF Shares
    <3>3. su \in Int /\ su - fl = 0
      BY <2>0, <3>1
    <3>. HIDE DEF Within
    <3>. QED
      BY <1>7, <2>0, <3>2, <3>3
  <2>. QED
    BY <2>1, <2>2
<1>. QED
  BY <1>2, <1>5, <1>8

LEMMA SpecialPart ==
  ASSUME RoomOK, NEW ci \in Int, NEW co \in Int, InHorizon(ci, co),
         NEW n \in Nat \ {0}, n = DaysOf(ci, co)
  PROVE  MeanIsNear(Rate, n, Specials(ci, co),
                    Percent(Rate * n, SpecialUplift(SpecialDays, ci, co)))
<1>1. PICK rate \in Nat, s \in Int : rate = Rate /\ s = Specials(ci, co)
  BY RuleFacts, SpecialsType DEF RoomOK
<1>2. SpecialUplift(SpecialDays, ci, co) = RoundHalfAway(PctScale * s, n)
  BY <1>1 DEF SpecialUplift, Specials
<1>3. MeanIsNear(rate, n, s, Percent(rate * n, RoundHalfAway(PctScale * s, n)))
  BY MeanNear
<1>. QED
  BY <1>1, <1>2, <1>3

\* A quote is its exact price and the surcharge by the day, but for four
\* roundings and, past one night, that of the mean uplift.
LEMMA QuoteNear ==
  ASSUME RoomOK, kind # "hourly", NEW ci \in Int, NEW co \in Int, NightsFrom(ci, co),
         InHorizon(ci, co), NEW n, n = DateOf(co) - DateOf(ci),
         NEW off, off = 200 * (PctScale * (Quote(ci, co) - Flat(ci))) - Exact(ci, co)
  PROVE  /\ Quote(ci, co) \in Int /\ Exact(ci, co) \in Int /\ off \in Int
         /\ off <= 400 * PctScale + Rate * n
         /\ -(400 * PctScale + Rate * n) <= off
         /\ n = 1 => off <= 400 * PctScale /\ -(400 * PctScale) <= off
<1>1. /\ n \in Nat \ {0} /\ DaysOf(ci, co) = n
      /\ Base(rule, kind, ci, co) = Rate * n
      /\ ExtraGuests(1, guests, 2, ci, co) = (guests - 2) * n
  BY BasePart
<1>2. Rate \in Nat /\ guests \in 2 .. 3 /\ Specials(ci, co) \in Int
  BY RuleFacts, SpecialsType DEF RoomOK
<1>3. PICK b \in Nat : b = Rate * n
  BY <1>1, <1>2
<1>4. PICK g \in Int : g = (guests - 2) * n
  BY <1>1, <1>2
<1>5. PICK we, bw : /\ we = WeekendUplift(rule, ci, co)
                    /\ bw = (rule.daily * Weekends(ci, co)) * WeekendShare
  OBVIOUS
<1>6. PICK rs \in Int : rs = Rate * Specials(ci, co)
  BY <1>2
<1>7. PICK su, fl, sb : /\ su = SurchargeOf(ci, co) /\ fl = Flat(ci)
                        /\ sb = (Rate * n) * Shares(ci)
  OBVIOUS
<1>8. PICK p \in Nat \ {0} : p = PctScale
  BY RuleFacts
<1>9. /\ su \in Int /\ fl \in Int /\ sb \in Int
      /\ 2 * sb - 200 * p <= 200 * (p * (su - fl))
      /\ 200 * (p * (su - fl)) <= 2 * sb + 200 * p
  BY <1>7, <1>8, SurchargePart
<1>10. /\ we \in Int /\ bw \in Int
       /\ 2 * bw - 100 * p <= 200 * (p * we) /\ 200 * (p * we) <= 2 * bw + 100 * p
  BY <1>5, <1>8, WeekendPart
<1>13. PICK up \in Int : /\ up = Percent(Rate * n, SpecialUplift(SpecialDays, ci, co))
                         /\ MeanIsNear(Rate, n, Specials(ci, co), up)
  <2>1. PICK u : /\ u = Percent(Rate * n, SpecialUplift(SpecialDays, ci, co))
                 /\ MeanIsNear(Rate, n, Specials(ci, co), u)
    BY <1>1, SpecialPart
  <2>2. u \in Int
    BY <2>1 DEF MeanIsNear
  <2>. QED
    BY <2>1, <2>2
<1>14. PICK y \in Int : y = 200 * up - 2 * rs
  BY 200 * up - 2 * rs \in Int
<1>15. /\ p * y <= 100 * p + b /\ -(100 * p + b) <= p * y
       /\ n = 1 => y <= 100 /\ -100 <= y
  BY <1>3, <1>6, <1>8, <1>13, <1>14 DEF MeanIsNear
<1>16. Quote(ci, co) = b + su + we + up + g
  <2>1. ~(co <= ci)
    BY DEF NightsFrom
  <2>. QED
    BY <1>1, <1>3, <1>4, <1>5, <1>7, <1>13, <2>1 DEF Quote, StayTotal, Price, SurchargeOf
<1>17. Exact(ci, co) = p * (200 * b + 200 * g + 2 * rs) + 2 * bw + 2 * sb
  BY <1>3, <1>4, <1>5, <1>6, <1>7, <1>8 DEF Exact
<1>18. PICK x1 \in Int, x2 \in Int, x3 \in Int :
         x1 = p * (su - fl) /\ x2 = p * we /\ x3 = p * y
  BY <1>9, <1>10
<1>19. /\ off = (200 * x1 - 2 * sb) + (200 * x2 - 2 * bw) + x3
       /\ Quote(ci, co) \in Int /\ Exact(ci, co) \in Int /\ off \in Int
  <2>1. PICK q \in Int, ex \in Int : q = Quote(ci, co) /\ ex = Exact(ci, co)
    BY <1>9, <1>10, <1>16, <1>17
  <2>2. off = 200 * (p * (q - fl)) - ex
    BY <1>7, <1>8, <2>1
  <2>3. p * (q - fl) = p * b + x1 + x2 + p * up + p * g
    BY <1>9, <1>10, <1>16, <1>18, <2>1, Z3
  <2>4. ex = 200 * (p * b) + 200 * (p * g) + 2 * (p * rs) + 2 * bw + 2 * sb
    BY <1>9, <1>10, <1>17, <2>1, Z3
  <2>5. x3 = 200 * (p * up) - 2 * (p * rs)
    BY <1>14, <1>18, Z3
  <2>6. PICK pb \in Int, pg \in Int, pr \in Int, pu \in Int :
          pb = p * b /\ pg = p * g /\ pr = p * rs /\ pu = p * up
    OBVIOUS
  <2>. QED
    BY <1>9, <1>10, <2>1, <2>2, <2>3, <2>4, <2>5, <2>6
<1>20. n = 1 => x3 <= 100 * p /\ -(100 * p) <= x3
  <2>1. ASSUME n = 1
        PROVE  p * y <= p * 100 /\ p * (-100) <= p * y
    BY <1>15, <2>1, TimesMonotone, p \in Nat, 100 \in Int, -100 \in Int
  <2>. QED
    BY <1>18, <2>1
<1>. QED
  BY <1>3, <1>8, <1>9, <1>10, <1>15, <1>18, <1>19, <1>20

\* Exact prices add up.
LEMMA ExactAdds ==
  ASSUME RoomOK, kind # "hourly", NEW ci \in Int, NEW co \in Int, NightsFrom(ci, co),
         InHorizon(ci, co + Day)
  PROVE  Exact(ci, co + Day) = Exact(ci, co) + Exact(co, co + Day)
<1>1. PICK a \in Int, b \in Int : a = DateOf(ci) /\ b = DateOf(co)
  BY DateType
<1>2. DateOf(co + Day) = b + 1 /\ Shares(co) = Shares(ci)
  BY <1>1, NextDay DEF Shares, NightsFrom
<1>3. PICK r \in Nat, g \in Int, s \in Int, k \in Nat, h \in Nat, p \in Nat :
        /\ r = Rate /\ g = guests - 2 /\ s = Shares(ci) /\ k = rule.daily
        /\ h = WeekendShare /\ p = PctScale
  <2>1. Shares(ci) \in Int
    BY SharesType
  <2>2. guests - 2 \in Int /\ rule.daily \in Nat
    BY DEF RoomOK
  <2>. QED
    BY <2>1, <2>2, RuleFacts
<1>4. PICK w \in Nat, v \in Nat, u \in Int, t \in Int :
        /\ w = Weekends(ci, co) /\ v = Weekends(co, co + Day)
        /\ u = Specials(ci, co) /\ t = Specials(co, co + Day)
  <2>1. InHorizon(ci, co) /\ InHorizon(co, co + Day) /\ co + Day \in Int
    <3>1. Day \in Nat \ {0} /\ DateOf(co) <= DateOf(co + Day)
          /\ DateOf(co) \in Int /\ DateOf(co + Day) \in Int /\ LongestStay \in Nat
      BY DayType, NextDay, DateType, StayQuoteAssumption
    <3>. QED
      BY <3>1 DEF InHorizon, NightsFrom
  <2>. QED
    BY <2>1, WeekendsType, SpecialsType DEF RoomOK
<1>5. Weekends(ci, co + Day) = w + v /\ Specials(ci, co + Day) = u + t
  BY <1>4, NightsAdd DEF RoomOK, NightsFrom
<1> DEFINE Cost(n, x, y) == p * (200 * (r * n) + 200 * (g * n) + 2 * (r * x))
                            + 2 * ((k * y) * h) + 2 * ((r * n) * s)
<1>6. Exact(ci, co) = Cost(b - a, u, w)
  BY <1>1, <1>3, <1>4 DEF Exact
<1>7. Exact(co, co + Day) = Cost(b + 1 - b, t, v)
  BY <1>1, <1>2, <1>3, <1>4 DEF Exact
<1>8. Exact(ci, co + Day) = Cost(b + 1 - a, u + t, w + v)
  BY <1>1, <1>2, <1>3, <1>5 DEF Exact
<1>9. Cost(b + 1 - a, u + t, w + v) = Cost(b - a, u, w) + Cost(b + 1 - b, t, v)
  <2>1. PICK n \in Int : n = b - a
    OBVIOUS
  <2>2. b + 1 - a = n + 1 /\ b + 1 - b = 1
    BY <2>1
  <2>3. Cost(n + 1, u + t, w + v) = Cost(n, u, w) + Cost(1, t, v)
    BY Z3
  <2>. QED
    BY <2>1, <2>2, <2>3
<1>. QED
  BY <1>6, <1>7, <1>8, <1>9

-----------------------------------------------------------------------------
(* Stays by the hour, and stays on no special day. *)

\* The hours of a stay are charged up to what its night, or its days, would
\* cost: an integer, and no less for more hours.
LEMMA HourlyBaseGrows ==
  ASSUME RoomOK, NEW d \in Nat, NEW e \in Nat, d <= e
  PROVE  /\ HourlyBase(rule, d) \in Nat
         /\ CapsInOrder => HourlyBase(rule, d) <= HourlyBase(rule, e)
<1> DEFINE hours(t) == rule.hourly * AtLeastOne(Ceiling(t, Hour))
           days(t) == rule.daily * AtLeastOne(Ceiling(t, Day))
<1>1. \A t \in Nat, b \in Nat \ {0} :
        /\ AtLeastOne(Ceiling(t, b)) \in Nat \ {0}
        /\ \A u \in Nat : t <= u =>
             AtLeastOne(Ceiling(t, b)) <= AtLeastOne(Ceiling(u, b))
  <2>. SUFFICES ASSUME NEW t \in Nat, NEW b \in Nat \ {0}
                PROVE  /\ AtLeastOne(Ceiling(t, b)) \in Nat \ {0}
                       /\ \A u \in Nat : t <= u =>
                            AtLeastOne(Ceiling(t, b)) <= AtLeastOne(Ceiling(u, b))
    OBVIOUS
  <2>1. \A u \in Nat : Ceiling(u, b) \in Int
    BY DivBounds, \A u \in Nat : u + b - 1 \in Int DEF Ceiling
  <2>2. \A u \in Nat : t <= u => Ceiling(t, b) <= Ceiling(u, b)
    <3>1. ASSUME NEW u \in Nat, t <= u
          PROVE  Ceiling(t, b) <= Ceiling(u, b)
      <4>1. t + b - 1 \in Int /\ u + b - 1 \in Int /\ t + b - 1 <= u + b - 1
        BY <3>1
      <4>. QED
        BY <4>1, DivMonotone DEF Ceiling
    <3>. QED
      BY <3>1
  <2>. QED
    BY <2>1, <2>2 DEF AtLeastOne
<1>2. /\ Hour \in Nat \ {0} /\ Day \in Nat \ {0} /\ rule.hourly \in Nat
      /\ rule.daily \in Nat /\ rule.overnight \in Nat
  BY StayPriceAssumption, DayType DEF RoomOK
<1>3. hours(d) \in Nat /\ hours(e) \in Nat /\ hours(d) <= hours(e)
  <2>1. PICK m \in Nat, n \in Nat :
          m = AtLeastOne(Ceiling(d, Hour)) /\ n = AtLeastOne(Ceiling(e, Hour)) /\ m <= n
    BY <1>1, <1>2
  <2>. QED
    BY <1>2, <2>1, TimesMonotone
<1>4. /\ days(d) \in Nat /\ days(e) \in Nat /\ days(d) <= days(e)
      /\ rule.daily <= days(d)
  <2>1. PICK m \in Nat, n \in Nat :
          /\ m = AtLeastOne(Ceiling(d, Day)) /\ n = AtLeastOne(Ceiling(e, Day))
          /\ m <= n /\ 1 <= m
    <3>1. /\ AtLeastOne(Ceiling(d, Day)) \in Nat \ {0}
          /\ AtLeastOne(Ceiling(e, Day)) \in Nat \ {0}
          /\ AtLeastOne(Ceiling(d, Day)) <= AtLeastOne(Ceiling(e, Day))
      BY <1>1, <1>2
    <3>2. \A x \in Nat \ {0} : x \in Nat /\ 1 <= x
      OBVIOUS
    <3>. QED
      BY <3>1, <3>2
  <2>2. rule.daily * 1 <= rule.daily * m /\ rule.daily * m <= rule.daily * n
    BY <1>2, <2>1, TimesMonotone
  <2>. QED
    BY <1>2, <2>1, <2>2
<1>7. \A t \in Nat : CapsInOrder /\ rule.overnight > rule.daily /\ t <= 13 * Hour
                      => hours(t) <= rule.overnight
  <2>. SUFFICES ASSUME NEW t \in Nat, CapsInOrder, rule.overnight > rule.daily,
                       t <= 13 * Hour
                PROVE  hours(t) <= rule.overnight
    OBVIOUS
  <2>1. 13 * rule.hourly <= rule.overnight
    BY <1>2 DEF CapsInOrder
  <2>2. PICK n \in Nat : n = AtLeastOne(Ceiling(t, Hour)) /\ n <= 13
    <3>1. PICK h \in Nat \ {0} : h = Hour
      BY <1>2
    <3>2. (13 * h + h - 1) \div h = 13
      BY <3>1, DivIs, h * 13 <= 13 * h + h - 1, 13 * h + h - 1 < h * (13 + 1),
         13 * h + h - 1 \in Int, 13 \in Int
    <3>3. Ceiling(13 * h, Hour) = 13
      BY <3>1, <3>2 DEF Ceiling
    <3>4. AtLeastOne(Ceiling(t, Hour)) <= AtLeastOne(Ceiling(13 * h, Hour))
      BY <1>1, <1>2, <3>1, 13 * h \in Nat
    <3>5. AtLeastOne(Ceiling(13 * h, Hour)) = 13
      BY <3>3 DEF AtLeastOne
    <3>6. AtLeastOne(Ceiling(t, Hour)) \in Nat
      BY <1>1, <1>2
    <3>. QED
      BY <3>4, <3>5, <3>6
  <2>3. rule.hourly * n <= rule.hourly * 13
    BY <1>2, <2>2, TimesMonotone
  <2>. QED
    BY <1>2, <2>1, <2>2, <2>3
<1>5. \A t \in Nat :
        HourlyBase(rule, t) =
          IF hours(t) > rule.overnight /\ t <= 13 * Hour THEN rule.overnight
          ELSE IF hours(t) > rule.daily /\ hours(t) > days(t) THEN days(t)
          ELSE hours(t)
  BY DEF HourlyBase
<1>6. 13 * Hour \in Nat
  BY <1>2
<1>. HIDE DEF hours, days
<1>8. HourlyBase(rule, d) \in Nat
  BY <1>2, <1>3, <1>4, <1>5
<1>9. CASE rule.overnight <= rule.daily
  BY <1>2, <1>3, <1>4, <1>5, <1>6, <1>8, <1>9
<1>10. ASSUME rule.overnight > rule.daily, CapsInOrder
       PROVE  HourlyBase(rule, d) <= HourlyBase(rule, e)
  <2>1. \A t \in {d, e} :
          HourlyBase(rule, t) =
            IF hours(t) > rule.daily /\ hours(t) > days(t) THEN days(t) ELSE hours(t)
    BY <1>2, <1>3, <1>5, <1>6, <1>7, <1>10
  <2>. QED
    BY <1>2, <1>3, <1>4, <2>1
<1>. QED
  BY <1>2, <1>8, <1>9, <1>10

\* A share of the price is no discount.
LEMMA WeekendGrows ==
  ASSUME RoomOK, NEW ci \in Int, NEW co \in Int, NEW cp \in Int, co <= cp
  PROVE  /\ WeekendUplift(rule, ci, co) \in Nat /\ WeekendUplift(rule, ci, cp) \in Nat
         /\ WeekendUplift(rule, ci, co) <= WeekendUplift(rule, ci, cp)
<1>1. Weekends(ci, co) \in Nat /\ Weekends(ci, cp) \in Nat
      /\ Weekends(ci, co) <= Weekends(ci, cp)
  <2>1. IsFiniteSet({d \in StayDates(ci, cp) : Weekend(d)})
    BY WeekendsType
  <2>2. {d \in StayDates(ci, co) : Weekend(d)} \subseteq
          {d \in StayDates(ci, cp) : Weekend(d)}
    BY DatesGrow
  <2>. QED
    BY <2>1, <2>2, FS_Subset, WeekendsType DEF Weekends
<1>2. PICK m \in Nat, n \in Nat :
        /\ m = rule.daily * Weekends(ci, co) /\ n = rule.daily * Weekends(ci, cp)
        /\ m <= n
  <2>1. rule.daily \in Nat
    BY DEF RoomOK
  <2>. QED
    BY <1>1, <2>1, TimesMonotone
<1>3. PICK pct \in Nat : pct = WeekendShare
  BY RuleFacts
<1>4. 0 <= Percent(m, pct) /\ Percent(m, pct) <= Percent(n, pct)
  BY <1>2, PercentMonotone
<1>5. /\ WeekendUplift(rule, ci, co) = Percent(m, pct)
      /\ WeekendUplift(rule, ci, cp) = Percent(n, pct)
  BY <1>2, <1>3, WeekendPart
<1>6. Percent(m, pct) \in Nat /\ Percent(n, pct) \in Nat
  BY PercentIsNat
<1>. QED
  BY <1>4, <1>5, <1>6

LEMMA ExtraGrows ==
  ASSUME RoomOK, NEW ci \in Int, NEW co \in Int, NEW cp \in Int, co <= cp
  PROVE  /\ ExtraGuests(1, guests, 2, ci, co) \in Nat
         /\ ExtraGuests(1, guests, 2, ci, co) <= ExtraGuests(1, guests, 2, ci, cp)
         /\ ExtraGuests(1, guests, 2, ci, cp) \in Nat
<1>1. PICK a \in Int, b \in Int, c \in Int :
        a = DateOf(ci) /\ b = DateOf(co) /\ c = DateOf(cp)
  BY DateType
<1>2. b <= c
  BY <1>1, DateMonotone
<1>3. guests = 2 \/ guests = 3
  BY DEF RoomOK
<1>. QED
  BY <1>1, <1>2, <1>3 DEF ExtraGuests

\* What a quote is made of.
LEMMA QuoteParts ==
  ASSUME RoomOK, NEW ci \in Int, NEW co \in Int, ci < co
  PROVE  Quote(ci, co) =
           Base(rule, kind, ci, co) + SurchargeOf(ci, co) + WeekendUplift(rule, ci, co)
           + Percent(Base(rule, kind, ci, co), SpecialUplift(SpecialDays, ci, co))
           + ExtraGuests(1, guests, 2, ci, co)
<1>1. ~(co <= ci)
  OBVIOUS
<1>. QED
  BY <1>1 DEF Quote, StayTotal, Price, SurchargeOf

LEMMA UpliftType ==
  ASSUME RoomOK, NEW ci \in Int, NEW co \in Int, InHorizon(ci, co)
  PROVE  /\ SpecialUplift(SpecialDays, ci, co) \in Int
         /\ special.uplift = 0 => SpecialUplift(SpecialDays, ci, co) = 0
<1>1. PICK n \in Nat \ {0} : n = DaysOf(ci, co)
  BY DatesType
<1>2. PICK s \in Int : s = Specials(ci, co)
  BY SpecialsType DEF RoomOK
<1>3. SpecialUplift(SpecialDays, ci, co) = RoundHalfAway(PctScale * s, n)
  BY <1>1, <1>2 DEF SpecialUplift, Specials
<1>4. PctScale * s \in Int
  BY StayPriceAssumption
<1>5. ASSUME special.uplift = 0
      PROVE  PctScale * s = 0
  <2>1. \A d \in StayDates(ci, co) : SpecialDays[d] = 0
    <3>1. \A d \in StayDates(ci, co) : d \in Horizon
      BY HorizonDates
    <3>. QED
      BY <1>5, <3>1 DEF SpecialDays
  <2>2. IsFiniteSet(StayDates(ci, co)) /\ 0 \in Int
    BY DatesType
  <2>3. SumFunctionOnSet(SpecialDays, StayDates(ci, co))
          = 0 * Cardinality(StayDates(ci, co))
    BY <2>1, <2>2, SumConstant
  <2>4. Cardinality(StayDates(ci, co)) \in Nat
    BY <2>2, FS_CardinalityType
  <2>5. s = 0
    BY <1>2, <2>3, <2>4 DEF Specials
  <2>. QED
    BY <2>5, StayPriceAssumption
<1>. QED
  BY <1>3, <1>4, <1>5, RoundNear, RoundZero

LEMMA HourlyQuote ==
  ASSUME RoomOK, kind = "hourly", NEW ci \in Int, NEW co \in Int, InHorizon(ci, co)
  PROVE  Quote(ci, co) \in Int
<1>1. ci < co /\ co - ci \in Nat
  BY DEF InHorizon
<1>2. PICK b \in Int : b = Base(rule, kind, ci, co)
  BY <1>1, HourlyBaseGrows DEF Base
<1>3. SurchargeOf(ci, co) = 0
  BY DEF SurchargeOf, Surcharge
<1>4. PICK m \in Int : m = SpecialUplift(SpecialDays, ci, co)
  BY UpliftType
<1>5. Percent(b, m) \in Int
  BY PercentNear
<1>6. WeekendUplift(rule, ci, co) \in Int /\ ExtraGuests(1, guests, 2, ci, co) \in Int
  BY WeekendGrows, ExtraGrows, co <= co
<1>. QED
  BY <1>1, <1>2, <1>3, <1>4, <1>5, <1>6, QuoteParts

-----------------------------------------------------------------------------
(* Lengthened stays. *)

\* How far the bill is from the exact price of the stay.
Off == 200 * (PctScale * (bill - Flat(from))) - Exact(from, until)

BillNear ==
  LET nights == DateOf(until) - DateOf(from)
  IN /\ kind # "daily" \/ NoDiscounts => -(400 * (PctScale * nights)) <= Off
     /\ kind # "daily" => Off <= 400 * (PctScale * nights)

QuoteInv ==
  /\ QuoteTypeOK
  /\ from < until /\ until < Day * (LongestStay + 8)
  /\ kind # "hourly" => NightsFrom(from, until) /\ BillNear

LEMMA DateBelow ==
  ASSUME NEW t \in Int, NEW k \in Int, t < Day * k
  PROVE  DateOf(t) < k
<1>1. PICK d \in Nat \ {0} : d = Day
  BY DayType
<1>2. PICK q \in Int : q = DateOf(t)
  BY DateType
<1>3. d * q <= t
  BY <1>1, <1>2, DivBounds DEF DateOf
<1>4. k <= q => d * k <= d * q
  BY TimesMonotone, d \in Nat
<1>5. d * k \in Int /\ d * q \in Int
  OBVIOUS
<1>. QED
  BY <1>1, <1>2, <1>3, <1>4, <1>5

LEMMA SpecialFacts ==
  ASSUME special \in [day : Horizon, uplift : Uplifts \cup {0}]
  PROVE  SpecialOK
<1>1. special.day \in Horizon /\ special.uplift \in Uplifts \cup {0}
  OBVIOUS
<1>2. \A u \in Uplifts \cup {0} : u \in Int
  BY StayQuoteAssumption
<1>. QED
  BY <1>1, <1>2, Zenon DEF SpecialOK

LEMMA InvFacts ==
  ASSUME QuoteInv
  PROVE  RoomOK /\ from \in Int /\ until \in Int /\ bill \in Int /\ InHorizon(from, until)
<1>1. /\ kind \in Kinds /\ guests \in 2 .. 3
      /\ special.day \in Horizon /\ special.uplift \in Int
      /\ from \in Nat /\ until \in Nat /\ bill \in Int
  <2>1. 7 * Day - 1 \in Int
    BY DayType
  <2>2. from \in Nat
    BY <2>1, StayQuoteAssumption DEF QuoteInv, QuoteTypeOK
  <2>3. special.day \in Horizon /\ special.uplift \in Int
    BY SpecialFacts DEF QuoteInv, QuoteTypeOK, SpecialOK
  <2>. QED
    BY <2>2, <2>3 DEF QuoteInv, QuoteTypeOK
<1>3. rule \in Rules
  BY DEF QuoteInv, QuoteTypeOK
<1>2. DateOf(until) < LongestStay + 8 /\ DateOf(until) \in Int /\ LongestStay \in Nat
  <2>1. LongestStay \in Nat /\ LongestStay + 8 \in Int /\ until \in Int
        /\ until < Day * (LongestStay + 8)
    BY <1>1, StayQuoteAssumption DEF QuoteInv
  <2>. QED
    BY <2>1, DateBelow, DateType
<1>. QED
  BY <1>1, <1>2, <1>3, RulesAreTyped DEF RoomOK, SpecialOK, InHorizon, QuoteInv

\* The next night is a stay like the first one.
LEMMA NightAfter ==
  ASSUME QuoteInv, kind # "hourly", until - from < LongestStay * Day
  PROVE  /\ NightsFrom(until, until + Day) /\ NightsFrom(from, until + Day)
         /\ InHorizon(until, until + Day) /\ InHorizon(from, until + Day)
         /\ DateOf(until + Day) = DateOf(until) + 1
<1>1. PICK d \in Nat \ {0} : d = Day
  BY DayType
<1>2. from \in Int /\ until \in Int /\ 0 <= from /\ NightsFrom(from, until)
  BY InvFacts DEF QuoteInv, InHorizon
<1>3. DateOf(until + d) = DateOf(until) + 1 /\ TimeOf(until + d) = TimeOf(until)
      /\ DateOf(until) \in Int /\ DateOf(from) \in Int
  BY <1>1, <1>2, NextDay, DateType
<1>4. until + d < d * (LongestStay + 8)
  <2>1. from < 7 * d
    BY <1>1, StayQuoteAssumption DEF QuoteInv, QuoteTypeOK
  <2>2. d * (LongestStay + 8) = LongestStay * d + 8 * d /\ LongestStay * d \in Int
    BY StayQuoteAssumption, Z3
  <2>. QED
    BY <1>1, <1>2, <2>1, <2>2
<1>5. DateOf(until + d) < LongestStay + 8 /\ LongestStay \in Nat
  BY <1>1, <1>2, <1>4, DateBelow, StayQuoteAssumption, LongestStay + 8 \in Int,
     until + d \in Int
<1>6. until < until + d /\ from < until + d /\ from < until /\ 0 <= until
  BY <1>1, <1>2 DEF NightsFrom
<1>. QED
  BY <1>1, <1>2, <1>3, <1>5, <1>6 DEF NightsFrom, InHorizon

LEMMA InitQuoteInv == QuoteInit => QuoteInv
<1>. SUFFICES ASSUME QuoteInit PROVE QuoteInv
  OBVIOUS
<1>1. PICK d \in Nat \ {0} : d = Day
  BY DayType
<1>2. /\ rule \in Rules /\ kind \in Kinds /\ guests \in 2 .. 3 /\ from \in Arrivals
      /\ special \in [day : Horizon, uplift : Uplifts \cup {0}]
  BY StayQuoteAssumption DEF QuoteInit, Horizon
<1>3. from \in Nat /\ from < 7 * d /\ until = from + (IF kind = "hourly" THEN 1 ELSE d)
  BY <1>1, <1>2, StayQuoteAssumption DEF QuoteInit
<1>4. until \in Nat /\ from < until /\ until < d * (LongestStay + 8)
  <2>1. d * (LongestStay + 8) = LongestStay * d + 8 * d /\ LongestStay * d \in Nat
    BY StayQuoteAssumption, Z3
  <2>. QED
    BY <1>1, <1>3, <2>1
<1>5. RoomOK
  BY <1>2, SpecialFacts, RulesAreTyped DEF RoomOK
<1>6. InHorizon(from, until)
  <2>1. LongestStay + 8 \in Int /\ LongestStay \in Nat /\ until \in Int
    BY <1>4, StayQuoteAssumption
  <2>2. DateOf(until) < LongestStay + 8 /\ DateOf(until) \in Int
    BY <1>1, <1>4, <2>1, DateBelow, DateType
  <2>. QED
    BY <1>3, <1>4, <2>1, <2>2 DEF InHorizon
<1>7. ASSUME kind # "hourly"
      PROVE  NightsFrom(from, until) /\ BillNear /\ bill \in Int
  <2>1. /\ DateOf(until) = DateOf(from) + 1 /\ TimeOf(until) = TimeOf(from)
        /\ DateOf(from) \in Int
    BY <1>1, <1>3, <1>7, NextDay, DateType
  <2>2. NightsFrom(from, until)
    BY <1>4, <2>1 DEF NightsFrom
  <2>3. PICK n \in Int : n = DateOf(until) - DateOf(from) /\ n = 1
    BY <2>1
  <2>4. PICK off :
          off = 200 * (PctScale * (Quote(from, until) - Flat(from))) - Exact(from, until)
    OBVIOUS
  <2>5. /\ off \in Int /\ Quote(from, until) \in Int
        /\ off <= 400 * PctScale /\ -(400 * PctScale) <= off
    BY <1>3, <1>4, <1>5, <1>6, <1>7, <2>2, <2>3, <2>4, QuoteNear,
       from \in Int, until \in Int
  <2>6. bill = Quote(from, until)
    BY DEF QuoteInit
  <2>. QED
    BY <2>2, <2>3, <2>4, <2>5, <2>6, RuleFacts, <1>5, PctScale * 1 = PctScale
       DEF BillNear, Off
<1>8. bill \in Int
  <2>1. CASE kind = "hourly"
    BY <1>3, <1>4, <1>5, <1>6, <2>1, HourlyQuote,
       from \in Int, until \in Int DEF QuoteInit
  <2>. QED
    BY <1>7, <2>1
<1>9. QuoteTypeOK
  BY <1>2, <1>4, <1>8 DEF QuoteTypeOK
<1>. QED
  BY <1>1, <1>3, <1>4, <1>7, <1>9 DEF QuoteInv

\* A stay not yet as long as may be stays within the calendar when lengthened.
LEMMA LengthenedBounds ==
  ASSUME QuoteInv, until - from < LongestStay * Day
  PROVE  \A t \in 1 .. Day : /\ until + t \in Nat /\ from < until + t
                             /\ until + t < Day * (LongestStay + 8)
<1>1. PICK d \in Nat \ {0} : d = Day
  BY DayType
<1>2. from \in Nat /\ until \in Nat /\ from < until
  BY StayQuoteAssumption, 7 * d - 1 \in Int, <1>1 DEF QuoteInv, QuoteTypeOK
<1>3. from < 7 * d
  BY <1>1, StayQuoteAssumption DEF QuoteInv, QuoteTypeOK
<1>4. d * (LongestStay + 8) = LongestStay * d + 8 * d /\ LongestStay * d \in Int
  BY StayQuoteAssumption, Z3
<1>. QED
  BY <1>1, <1>2, <1>3, <1>4

LEMMA LengthenedType ==
  ASSUME QuoteInv, Longer, NEW t \in 1 .. Day, until' = until + t, bill' \in Int
  PROVE  /\ QuoteTypeOK'
         /\ from' < until' /\ until' < Day * (LongestStay + 8)
<1>1. /\ UNCHANGED <<rule, kind, guests, special, from>>
      /\ until - from < LongestStay * Day
  BY DEF Longer
<1>2. until' \in Nat /\ from' < until' /\ until' < Day * (LongestStay + 8)
  BY <1>1, LengthenedBounds
<1>3. QuoteTypeOK
  BY DEF QuoteInv
<1>. QED
  BY <1>1, <1>2, <1>3 DEF QuoteTypeOK

\* How far off the lengthened bill is.
LEMMA OffNext ==
  ASSUME UNCHANGED <<rule, kind, guests, special, from>>
  PROVE  Off' = 200 * (PctScale * (bill' - Flat(from))) - Exact(from, until')
BY DEF Off, Exact, Flat, Rate, Shares, WeekendShare, Specials, SpecialDays, Weekends

\* A night more, but not by the hour.
LEMMA ExtendNightInv ==
  ASSUME QuoteInv, ExtendNight, kind # "hourly"
  PROVE  QuoteInv'
<1>1. /\ until - from < LongestStay * Day /\ until' = until + Day
      /\ UNCHANGED <<rule, kind, guests, special, from>>
      /\ bill' = bill + Quote(until, until + Day)
  BY DEF ExtendNight, Longer
<1>2. RoomOK /\ from \in Int /\ until \in Int /\ bill \in Int
  BY InvFacts
<1>3. until + Day \in Int /\ DateOf(from) \in Int /\ DateOf(until) \in Int
  BY <1>2, DayType, DateType
<1>4. /\ NightsFrom(until, until + Day) /\ NightsFrom(from, until + Day)
      /\ NightsFrom(from, until)
      /\ InHorizon(until, until + Day) /\ InHorizon(from, until + Day)
      /\ DateOf(until + Day) = DateOf(until) + 1
  BY <1>1, NightAfter DEF QuoteInv
<1>5. PICK n \in Int : n = DateOf(until) - DateOf(from)
  BY <1>3
<1>6. PICK one \in Int : one = DateOf(until + Day) - DateOf(until) /\ one = 1
  BY <1>3, <1>4
<1>7. PICK off : off = 200 * (PctScale * (Quote(until, until + Day) - Flat(until)))
                       - Exact(until, until + Day)
  OBVIOUS
<1>8. /\ Quote(until, until + Day) \in Int /\ Exact(until, until + Day) \in Int
      /\ off \in Int /\ off <= 400 * PctScale /\ -(400 * PctScale) <= off
  BY <1>2, <1>3, <1>4, <1>6, <1>7, QuoteNear
<1>9. Exact(from, until + Day) = Exact(from, until) + Exact(until, until + Day)
  BY <1>2, <1>4, ExactAdds
<1>10. Exact(from, until) \in Int
  <2>1. InHorizon(from, until)
    BY InvFacts
  <2>. QED
    BY <1>2, <1>4, <1>5, <2>1, QuoteNear
<1>11. PICK fl \in Int : /\ fl = Flat(from) /\ fl = Flat(until)
                         /\ (NoDiscounts => fl \in Nat)
                         /\ (kind # "daily" => fl = 0)
  <2>1. Flat(from) \in Int /\ (NoDiscounts => Flat(from) \in Nat)
    BY <1>2, FlatType
  <2>2. Flat(until) = Flat(from)
    BY <1>4 DEF Flat, NightsFrom
  <2>. QED
    BY <2>1, <2>2 DEF Flat
<1>12. PICK p \in Nat \ {0} : p = PctScale
  BY StayPriceAssumption
<1>13. Off' = Off + off + 200 * (p * fl) /\ Off \in Int
  <2>1. PICK q \in Int, bill0 \in Int, whole \in Int, night \in Int :
          /\ q = Quote(until, until + Day) /\ bill0 = bill
          /\ whole = Exact(from, until) /\ night = Exact(until, until + Day)
    BY <1>2, <1>8, <1>10
  <2>2. Off' = 200 * (p * (bill0 + q - fl)) - (whole + night)
    BY <1>1, <1>9, <1>11, <1>12, <2>1, OffNext
  <2>3. Off = 200 * (p * (bill0 - fl)) - whole
    BY <1>11, <1>12, <2>1 DEF Off
  <2>4. off = 200 * (p * (q - fl)) - night
    BY <1>7, <1>11, <1>12, <2>1
  <2>5. p * (bill0 + q - fl) = p * (bill0 - fl) + p * (q - fl) + p * fl
    BY Z3
  <2>6. PICK x \in Int, y \in Int, z \in Int :
          x = p * (bill0 - fl) /\ y = p * (q - fl) /\ z = p * fl
    OBVIOUS
  <2>. QED
    BY <2>2, <2>3, <2>4, <2>5, <2>6
<1>14. BillNear'
  <2>1. DateOf(until)' - DateOf(from)' = n + 1
    <3>1. DateOf(until)' - DateOf(from)' = DateOf(until + Day) - DateOf(from)
      BY <1>1 DEF DateOf
    <3>. QED
      BY <1>3, <1>4, <1>5, <3>1
  <2>2. PICK near \in Int, more \in Int, tax \in Int :
          near = p * n /\ more = p * (n + 1) /\ tax = p * fl /\ more = near + p
    BY Z3
  <2>3. /\ kind # "daily" \/ NoDiscounts => -(400 * near) <= Off
        /\ kind # "daily" => Off <= 400 * near
    BY <1>5, <1>12, <2>2 DEF QuoteInv, BillNear
  <2>4. /\ kind # "daily" \/ NoDiscounts => 0 <= tax
        /\ kind # "daily" => tax = 0
    BY <1>11, <2>2
  <2>5. /\ kind # "daily" \/ NoDiscounts => -(400 * more) <= Off'
        /\ kind # "daily" => Off' <= 400 * more
    BY <1>8, <1>12, <1>13, <2>2, <2>3, <2>4
  <2>. QED
    BY <1>1, <1>12, <2>1, <2>2, <2>5 DEF BillNear, NoDiscounts
<1>15. NightsFrom(from, until)'
  BY <1>1, <1>4 DEF NightsFrom, DateOf, TimeOf
<1>16. bill' \in Int
  BY <1>1, <1>2, <1>8
<1>17. Day \in 1 .. Day
  BY DayType
<1>18. /\ QuoteTypeOK'
       /\ from' < until' /\ until' < Day * (LongestStay + 8)
  BY <1>1, <1>16, <1>17, LengthenedType DEF ExtendNight
<1>. QED
  BY <1>14, <1>15, <1>18 DEF QuoteInv

\* A stay by the hour, a little or a whole day longer.
LEMMA HourlyInv ==
  ASSUME QuoteInv, ExtendNight \/ StayOn, kind = "hourly"
  PROVE  QuoteInv'
<1>1. PICK t \in 1 .. Day :
        /\ until' = until + t
        /\ \/ bill' = bill + Quote(until, until + t) /\ t = Day
           \/ bill' = Quote(from, until + t)
  <2>1. 1 \in 1 .. Day /\ Day \in 1 .. Day
    BY DayType
  <2>. QED
    BY <2>1 DEF ExtendNight, StayOn
<1>2. Longer /\ kind' = "hourly" /\ until - from < LongestStay * Day
  BY DEF ExtendNight, StayOn, Longer
<1>3. RoomOK /\ from \in Int /\ until \in Int /\ bill \in Int /\ 0 <= from /\ from < until
  BY InvFacts DEF InHorizon
<1>4. /\ until + t \in Int /\ from < until + t /\ until < until + t
      /\ until + t < Day * (LongestStay + 8)
  BY <1>2, <1>3, LengthenedBounds
<1>5. DateOf(until + t) < LongestStay + 8 /\ DateOf(until + t) \in Int
      /\ LongestStay \in Int
  <2>1. LongestStay \in Nat /\ LongestStay + 8 \in Int
    BY StayQuoteAssumption
  <2>. QED
    BY <1>4, <2>1, DateBelow, DateType
<1>6. InHorizon(from, until + t) /\ InHorizon(until, until + t)
  BY <1>3, <1>4, <1>5 DEF InHorizon
<1>7. Quote(from, until + t) \in Int /\ Quote(until, until + t) \in Int
  BY <1>3, <1>4, <1>6, HourlyQuote
<1>8. bill' \in Int
  BY <1>1, <1>3, <1>7
<1>9. /\ QuoteTypeOK'
      /\ from' < until' /\ until' < Day * (LongestStay + 8)
  BY <1>1, <1>2, <1>8, LengthenedType
<1>. QED
  BY <1>2, <1>9 DEF QuoteInv

\* A bill of nights stays within two units a night of the exact
\* price of the whole stay, or above that by the day, because extend_stay adds the
\* engine's own price of the night that follows.
THEOREM QuoteInvariant == QuoteSpec => []QuoteInv
<1>1. QuoteInv /\ [QuoteNext]_quoteVars => QuoteInv'
  <2>. SUFFICES ASSUME QuoteInv, [QuoteNext]_quoteVars PROVE QuoteInv'
    OBVIOUS
  <2>1. CASE ExtendNight
    BY <2>1, ExtendNightInv, HourlyInv
  <2>2. CASE StayOn
    BY <2>2, HourlyInv DEF StayOn
  <2>3. CASE UNCHANGED quoteVars
    BY <2>3 DEF quoteVars, QuoteInv, QuoteTypeOK, NightsFrom, BillNear, Off, Exact,
       Flat, Rate, Shares, WeekendShare, NoDiscounts, Specials, SpecialDays, Weekends
  <2>. QED
    BY <2>1, <2>2, <2>3 DEF QuoteNext
<1>. QED
  BY <1>1, InitQuoteInv, PTL DEF QuoteSpec

\* Two prices that are near the same exact one are near each other.
LEMMA NearEachOther ==
  ASSUME NEW p \in Nat \ {0}, NEW n \in Nat, NEW rn \in Nat,
         NEW more \in Int, NEW x \in Int, NEW y \in Int, 200 * (p * more) = x - y,
         x <= 400 * (p * n), -(400 * p + rn) <= y
  PROVE  more <= 2 * (n + 1) + rn \div (200 * p)
<1>1. PICK a \in Int : a = more - 2 * (n + 1)
  OBVIOUS
<1>2. (200 * p) * a = 200 * (p * more) - 400 * (p * n) - 400 * p
  BY <1>1, Z3
<1>3. p * n \in Int /\ (200 * p) * a \in Int
  OBVIOUS
<1>4. (200 * p) * a <= rn
  BY <1>2, <1>3
<1>5. a <= rn \div (200 * p) /\ rn \div (200 * p) \in Int
  BY <1>4, DivAtLeast, DivBounds, 200 * p \in Nat \ {0}, rn \in Int
<1>. QED
  BY <1>1, <1>5

LEMMA AddUp == QuoteInv => NightsAddUp
<1>. SUFFICES ASSUME QuoteInv PROVE NightsAddUp
  OBVIOUS
<1>1. CASE kind = "hourly"
  BY <1>1 DEF NightsAddUp
<1>2. CASE kind # "hourly"
  <2>1. /\ RoomOK /\ from \in Int /\ until \in Int /\ bill \in Int
        /\ InHorizon(from, until) /\ NightsFrom(from, until) /\ BillNear
    BY <1>2, InvFacts DEF QuoteInv
  <2>2. PICK n : n = DateOf(until) - DateOf(from)
    OBVIOUS
  <2>3. n \in Nat \ {0} /\ DaysOf(from, until) = n
    BY <1>2, <2>1, <2>2, BasePart
  <2>4. PICK off :
          off = 200 * (PctScale * (Quote(from, until) - Flat(from))) - Exact(from, until)
    OBVIOUS
  <2>5. /\ Quote(from, until) \in Int /\ Exact(from, until) \in Int /\ off \in Int
        /\ off <= 400 * PctScale + Rate * n
        /\ -(400 * PctScale + Rate * n) <= off
    BY <1>2, <2>1, <2>2, <2>4, QuoteNear
  <2>6. PICK p \in Nat \ {0}, q \in Int, fl \in Int, ex \in Int :
          p = PctScale /\ q = Quote(from, until) /\ fl = Flat(from)
          /\ ex = Exact(from, until)
    BY <2>1, <2>5, FlatType, StayPriceAssumption
  <2>7. PICK rn \in Nat : rn = Rate * n
    BY <2>1, <2>3, RuleFacts
  <2>8. Off \in Int /\ 200 * (p * (bill - q)) = Off - off
    <3>1. PICK b \in Int : b = bill
      BY <2>1
    <3>2. Off = 200 * (p * (b - fl)) - ex /\ off = 200 * (p * (q - fl)) - ex
      BY <2>4, <2>6, <3>1 DEF Off
    <3>3. p * (b - q) = p * (b - fl) - p * (q - fl)
      BY Z3
    <3>4. p * (b - fl) \in Int /\ p * (q - fl) \in Int
      OBVIOUS
    <3>. QED
      BY <3>1, <3>2, <3>3, <3>4
  <2>9. /\ kind # "daily" \/ NoDiscounts => -(400 * (p * n)) <= Off
        /\ kind # "daily" => Off <= 400 * (p * n)
    BY <2>1, <2>2, <2>6 DEF BillNear
  <2>10. Rounding = 2 * (n + 1) + rn \div (200 * p)
    BY <2>3, <2>6, <2>7 DEF Rounding
  <2>11. rn \div (200 * p) \in Int
    BY DivBounds, 200 * p \in Nat \ {0}
  <2>12. off <= 400 * p + rn /\ -(400 * p + rn) <= off
    BY <2>5, <2>6, <2>7
  <2>13. ASSUME kind # "daily" \/ NoDiscounts
         PROVE  q - bill <= Rounding
    <3>1. PICK more \in Int, x \in Int, y \in Int :
            more = q - bill /\ x = -Off /\ y = -off
      BY <2>1, <2>5, <2>6, <2>8
    <3>2. 200 * (p * more) = x - y
      <4>1. PICK b \in Int : b = bill
        BY <2>1
      <4>2. p * (q - b) = -(p * (b - q)) /\ p * (b - q) \in Int
        BY Z3
      <4>. QED
        BY <2>5, <2>8, <3>1, <4>1, <4>2
    <3>3. p * n \in Int /\ x <= 400 * (p * n) /\ -(400 * p + rn) <= y
      BY <2>3, <2>5, <2>8, <2>9, <2>12, <2>13, <3>1
    <3>. QED
      BY <2>3, <2>7, <2>10, <3>1, <3>2, <3>3, NearEachOther, n \in Nat
  <2>14. ASSUME kind # "daily"
         PROVE  bill - q <= Rounding
    <3>1. PICK more \in Int : more = bill - q
      BY <2>1
    <3>2. 200 * (p * more) = Off - off /\ Off <= 400 * (p * n)
      BY <2>8, <2>9, <2>14, <3>1
    <3>. QED
      BY <2>3, <2>5, <2>7, <2>8, <2>10, <2>12, <3>1, <3>2, NearEachOther, n \in Nat
  <2>15. Rounding \in Int
    BY <2>3, <2>10, <2>11
  <2>. QED
    BY <1>2, <2>1, <2>6, <2>13, <2>14, <2>15 DEF NightsAddUp, Distance
<1>. QED
  BY <1>1, <1>2

\* A stay that extend_stay lengthened night by night is billed what the engine
\* asks for the whole of it, but for the rounding of each night and that of the
\* mean uplift, and by the day no less than that: no night is charged twice or
\* left out, whatever the manager's rule, the weekends, the special day and the
\* guests.
THEOREM LengthenedStaysAddUp == QuoteSpec => []NightsAddUp
BY QuoteInvariant, AddUp, PTL

\* Bills are whole numbers, of stays that the calendar of the model holds.
THEOREM QuoteTypes == QuoteSpec => []QuoteTypeOK
<1>1. QuoteInv => QuoteTypeOK
  BY DEF QuoteInv
<1>. QED
  BY <1>1, QuoteInvariant, PTL

-----------------------------------------------------------------------------
(* Staying on. *)

\* Where no day is special a quote by the hour grows with the stay.
LEMMA HourlyQuoteGrows ==
  ASSUME RoomOK, kind = "hourly", special.uplift = 0, CapsInOrder,
         NEW ci \in Int, NEW co \in Int, NEW cp \in Int, co <= cp,
         InHorizon(ci, co), InHorizon(ci, cp)
  PROVE  Quote(ci, co) <= Quote(ci, cp)
<1>1. ci < co /\ ci < cp /\ co - ci \in Nat /\ cp - ci \in Nat /\ co - ci <= cp - ci
  BY DEF InHorizon
<1>2. PICK b \in Int, c \in Int :
        b = Base(rule, kind, ci, co) /\ c = Base(rule, kind, ci, cp) /\ b <= c
  <2>1. /\ HourlyBase(rule, co - ci) \in Nat /\ HourlyBase(rule, cp - ci) \in Nat
        /\ HourlyBase(rule, co - ci) <= HourlyBase(rule, cp - ci)
    <3>1. cp - ci <= cp - ci
      BY <1>1
    <3>. QED
      BY <1>1, <3>1, HourlyBaseGrows
  <2>. QED
    BY <2>1 DEF Base
<1>3. SurchargeOf(ci, co) = 0 /\ SurchargeOf(ci, cp) = 0
  BY DEF SurchargeOf, Surcharge
<1>4. /\ Percent(b, SpecialUplift(SpecialDays, ci, co)) = 0
      /\ Percent(c, SpecialUplift(SpecialDays, ci, cp)) = 0
  <2>1. SpecialUplift(SpecialDays, ci, co) = 0 /\ SpecialUplift(SpecialDays, ci, cp) = 0
    BY UpliftType
  <2>. QED
    BY <2>1, NoPercent
<1>5. PICK v \in Int, w \in Int :
        v = WeekendUplift(rule, ci, co) /\ w = WeekendUplift(rule, ci, cp) /\ v <= w
  BY WeekendGrows
<1>6. PICK g \in Int, h \in Int :
        /\ g = ExtraGuests(1, guests, 2, ci, co)
        /\ h = ExtraGuests(1, guests, 2, ci, cp) /\ g <= h
  BY ExtraGrows
<1>7. Quote(ci, co) = b + 0 + v + 0 + g
  BY <1>1, <1>2, <1>3, <1>4, <1>5, <1>6, QuoteParts
<1>8. Quote(ci, cp) = c + 0 + w + 0 + h
  BY <1>1, <1>2, <1>3, <1>4, <1>5, <1>6, QuoteParts
<1>. QED
  BY <1>2, <1>5, <1>6, <1>7, <1>8

\* Where no day is special and no percentage a discount nothing is taken off a
\* quote.
LEMMA QuoteIsNotNegative ==
  ASSUME RoomOK, special.uplift = 0, NoDiscounts, NEW ci \in Int, NEW co \in Int, InHorizon(ci, co)
  PROVE  Quote(ci, co) \in Nat
<1>1. ci < co /\ co - ci \in Nat /\ DaysOf(ci, co) \in Nat
  <2>1. PICK n \in Nat : n = DaysOf(ci, co)
    BY DatesType
  <2>. QED
    BY <2>1 DEF InHorizon
<1>2. PICK b \in Nat : b = Base(rule, kind, ci, co)
  <2>1. kind = "hourly" => Base(rule, kind, ci, co) \in Nat
    BY <1>1, HourlyBaseGrows DEF Base
  <2>2. rule.overnight \in Nat /\ rule.daily \in Nat
    BY DEF RoomOK
  <2>3. rule.overnight * DaysOf(ci, co) \in Nat /\ rule.daily * DaysOf(ci, co) \in Nat
    BY <1>1, <2>2
  <2>. QED
    BY <2>1, <2>3 DEF Base
<1>3. SurchargeOf(ci, co) \in Nat
  <2>1. rule.early \in Nat /\ rule.late \in Nat /\ rule.daily \in Nat
    BY DEF RoomOK, NoDiscounts
  <2>2. /\ Percent(b, rule.early) \in Nat /\ Percent(b, rule.late) \in Nat
        /\ Percent(rule.daily, rule.early) \in Nat
        /\ Percent(rule.daily, rule.late) \in Nat
    BY <2>1, PercentIsNat
  <2>. QED
    BY <1>2, <2>2 DEF SurchargeOf, Surcharge
<1>4. Percent(b, SpecialUplift(SpecialDays, ci, co)) = 0
  BY UpliftType, NoPercent
<1>5. PICK w \in Nat : w = WeekendUplift(rule, ci, co)
  BY WeekendGrows, co <= co
<1>6. ExtraGuests(1, guests, 2, ci, co) \in Nat
  BY ExtraGrows, co <= co
<1>7. Quote(ci, co) = b + SurchargeOf(ci, co) + w + 0 + ExtraGuests(1, guests, 2, ci, co)
  BY <1>1, <1>2, <1>4, <1>5, QuoteParts
<1>. QED
  BY <1>3, <1>6, <1>7

\* Where no day is special, no percentage a discount and the night's rate no
\* cap above the day's, a guest who stays on, by the hour or by the night, never
\* pays less for it: neither cap of calculate_hourly pulls the price of a longer
\* stay under that of a shorter one.
THEOREM StayingOnCostsNoLess == QuoteSpec => StayingOnIsNotCheaper
<1>1. QuoteInv /\ [QuoteNext]_quoteVars
        => [special.uplift = 0 /\ NoDiscounts /\ CapsInOrder => bill' >= bill]_quoteVars
  <2>. SUFFICES ASSUME QuoteInv, QuoteNext, special.uplift = 0, NoDiscounts, CapsInOrder
                PROVE  bill' >= bill
    BY DEF QuoteNext
  <2>1. RoomOK /\ from \in Int /\ until \in Int /\ bill \in Int /\ InHorizon(from, until)
    BY InvFacts
  <2>2. /\ until - from < LongestStay * Day
        /\ \A t \in 1 .. Day : /\ until + t \in Int /\ until <= until + t
                               /\ InHorizon(from, until + t)
                               /\ InHorizon(until, until + t)
    <3>1. until - from < LongestStay * Day
      BY DEF QuoteNext, ExtendNight, StayOn, Longer
    <3>2. ASSUME NEW t \in 1 .. Day
          PROVE  /\ until + t \in Int /\ until <= until + t
                 /\ InHorizon(from, until + t) /\ InHorizon(until, until + t)
      <4>1. /\ until + t \in Int /\ from < until + t /\ until < until + t
            /\ until + t < Day * (LongestStay + 8)
        BY <2>1, <3>1, LengthenedBounds
      <4>2. LongestStay \in Nat /\ LongestStay + 8 \in Int
        BY StayQuoteAssumption
      <4>3. DateOf(until + t) < LongestStay + 8 /\ DateOf(until + t) \in Int
        BY <4>1, <4>2, DateBelow, DateType
      <4>. QED
        BY <2>1, <4>1, <4>2, <4>3 DEF InHorizon
    <3>. QED
      BY <3>1, <3>2
  <2>3. CASE ExtendNight
    <3>1. Day \in 1 .. Day
      BY DayType
    <3>2. Quote(until, until + Day) \in Nat
      BY <2>1, <2>2, <3>1, QuoteIsNotNegative
    <3>3. bill' = bill + Quote(until, until + Day)
      BY <2>3 DEF ExtendNight
    <3>. QED
      BY <2>1, <3>2, <3>3
  <2>4. CASE StayOn
    <3>1. 1 \in 1 .. Day
      BY DayType
    <3>2. kind = "hourly" /\ bill = Quote(from, until) /\ bill' = Quote(from, until + 1)
      BY <2>4 DEF StayOn
    <3>3. Quote(from, until) <= Quote(from, until + 1)
      BY <2>1, <2>2, <3>1, <3>2, HourlyQuoteGrows
    <3>4. Quote(from, until) \in Int /\ Quote(from, until + 1) \in Int
      BY <2>1, <2>2, <3>1, <3>2, HourlyQuote
    <3>. QED
      BY <3>2, <3>3, <3>4
  <2>. QED
    BY <2>3, <2>4 DEF QuoteNext
<1>. QED
  BY <1>1, QuoteInvariant, PTL DEF StayingOnIsNotCheaper, QuoteSpec

=============================================================================
