----------------------------- MODULE DataLemmas -----------------------------
(***************************************************************************)
(* Induction over numbers, finite sets and the sums over them.  Of what    *)
(* would refute a claim something is least: the claim holds of all that is *)
(* below it, and the proofs show that it then holds of it too.             *)
(***************************************************************************)
EXTENDS Integers, FiniteSetsExt, FiniteSetTheorems, WellFoundedInduction, TLAPS

\* A set of numbers that is not empty has a least one.
LEMMA LeastNumber ==
    ASSUME NEW T \in SUBSET Nat, T # {}
    PROVE  \E n \in T : \A m \in T : n <= m
<1>1. PICK n \in T : \A m \in T : ~(<<m, n>> \in OpToRel(<, Nat))
    BY NatLessThanWellFounded, WFMin, Zenon
<1>2. \A m \in Nat : m < n => <<m, n>> \in OpToRel(<, Nat)
    BY SMT DEF OpToRel
<1>3. \A m \in T : ~(m < n)
    BY <1>1, <1>2, Zenon
<1>. QED
    BY <1>3

\* A bounded one has a greatest.
LEMMA GreatestNumber ==
    ASSUME NEW T \in SUBSET Nat, T # {}, NEW bound \in Nat, \A n \in T : n <= bound
    PROVE  \E n \in T : \A m \in T : m <= n
<1>1. PICK k \in {b \in Nat : \A n \in T : n <= b} : \A b \in {c \in Nat : \A n \in T : n <= c} : k <= b
    BY LeastNumber, bound \in {b \in Nat : \A n \in T : n <= b}
<1>2. k \in T
    <2>1. SUFFICES ASSUME k \notin T PROVE FALSE
        OBVIOUS
    <2>2. \A n \in T : n < k
        BY <1>1, <2>1
    <2>3. PICK x \in T : x < k
        BY <2>2
    <2>4. k - 1 \in Nat /\ ~(k <= k - 1)
        BY <2>3
    <2>5. \A n \in T : n <= k - 1
        BY <2>2
    <2>. QED  BY <1>1, <2>4, <2>5
<1>. QED  BY <1>1, <1>2

\* Of a family of subsets of a finite set one contains no other.
LEMMA LeastSubset ==
    ASSUME NEW S, IsFiniteSet(S), NEW T \in SUBSET SUBSET S, T # {}
    PROVE  \E x \in T : \A y \in T : y \subseteq x => y = x
<1>1. T \subseteq FiniteSubsetsOf(S)
    BY FS_FiniteSubsetsOfFinite, Zenon
<1>2. PICK x \in T : \A y \in T : ~(<<y, x>> \in StrictSubsetOrdering(S))
    BY <1>1, FS_StrictSubsetOrderingWellFounded, WFMin, Zenon
<1>. QED  BY <1>2 DEF StrictSubsetOrdering

-----------------------------------------------------------------------------
(* Sums.                                                                   *)

Some(s) == CHOOSE x \in s : TRUE
SumOf(f, S) == MapThenSumSet(LAMBDA x : f[x], S)

\* g gives the sums of f over the subsets of S.
SumsTo(f, S, g) ==
    g = [s \in SUBSET S |-> IF s = {} THEN 0 ELSE f[Some(s)] + g[s \ {Some(s)}]]

SumsOver(f, S) == CHOOSE g : SumsTo(f, S, g)

LEMMA SomeIsIn == ASSUME NEW s, s # {} PROVE Some(s) \in s
BY Zenon DEF Some

LEMMA SumIsChosen == ASSUME NEW f, NEW S PROVE SumOf(f, S) = SumsOver(f, S)[S]
BY DEF SumOf, SumsOver, SumsTo, Some, MapThenSumSet, MapThenFoldSet

LEMMA SumsAgree ==
    ASSUME NEW S, IsFiniteSet(S), NEW f, NEW g, NEW h, NEW A \in SUBSET S, NEW B \in SUBSET S,
           SumsTo(f, A, g), SumsTo(f, B, h)
    PROVE  \A s \in SUBSET (A \cap B) : g[s] = h[s]
<1> DEFINE T == {s \in SUBSET (A \cap B) : g[s] # h[s]}
<1>1. SUFFICES ASSUME T # {} PROVE FALSE
    OBVIOUS
<1>2. PICK s \in T : \A r \in T : r \subseteq s => r = s
    <2>1. T \in SUBSET SUBSET S
        OBVIOUS
    <2>. HIDE DEF T
    <2>. QED  BY <1>1, <2>1, LeastSubset
<1>3. s # {}
    <2>1. g[{}] = 0 /\ h[{}] = 0
        BY DEF SumsTo
    <2>. QED  BY <2>1
<1>4. Some(s) \in s
    BY <1>3, SomeIsIn
<1>5. s \ {Some(s)} \notin T
    BY <1>2, <1>4
<1>6. g[s] = f[Some(s)] + g[s \ {Some(s)}] /\ h[s] = f[Some(s)] + h[s \ {Some(s)}]
    BY <1>3 DEF SumsTo
<1>. QED  BY <1>5, <1>6

LEMMA SumsExist ==
    ASSUME NEW S, IsFiniteSet(S), NEW f
    PROVE  \A s \in SUBSET S : SumsTo(f, s, SumsOver(f, s))
<1> DEFINE T == {s \in SUBSET S : ~SumsTo(f, s, SumsOver(f, s))}
<1>1. SUFFICES ASSUME T # {} PROVE FALSE
    OBVIOUS
<1>2. PICK s \in T : \A r \in T : r \subseteq s => r = s
    <2>1. T \in SUBSET SUBSET S
        OBVIOUS
    <2>. HIDE DEF T
    <2>. QED  BY <1>1, <2>1, LeastSubset
<1>3. \A r \in SUBSET s : r # s => SumsTo(f, r, SumsOver(f, r))
    BY <1>2
<1> DEFINE h == [r \in SUBSET s |-> IF r = {} THEN 0
                                    ELSE f[Some(r)] + SumsOver(f, r \ {Some(r)})[r \ {Some(r)}]]
<1>4. \A r \in SUBSET s : r # {} => Some(r) \in r
    BY SomeIsIn
<1>5. ASSUME NEW r \in SUBSET s, r # s
      PROVE  h[r] = SumsOver(f, r)[r]
    <2>1. CASE r = {}
        BY <1>3, <1>5, <2>1 DEF SumsTo
    <2>2. CASE r # {}
        <3>1. SumsOver(f, r)[r] = f[Some(r)] + SumsOver(f, r)[r \ {Some(r)}]
            BY <1>3, <1>5, <2>2 DEF SumsTo
        <3> DEFINE q == r \ {Some(r)}
        <3>2. q \in SUBSET s /\ q # s /\ q \subseteq r
            BY <1>4, <1>5, <2>2
        <3>3. SumsTo(f, q, SumsOver(f, q)) /\ SumsTo(f, r, SumsOver(f, r))
            BY <1>3, <1>5, <3>2
        <3>4. q \in SUBSET S /\ r \in SUBSET S /\ q \in SUBSET (q \cap r)
            BY <3>2
        <3> HIDE DEF q
        <3>5. SumsOver(f, q)[q] = SumsOver(f, r)[q]
            BY <3>3, <3>4, SumsAgree
        <3>. QED  BY <2>2, <3>1, <3>5 DEF q
    <2>. QED  BY <2>1, <2>2
<1>6. \A r \in SUBSET s : r # {} => h[r \ {Some(r)}] = SumsOver(f, r \ {Some(r)})[r \ {Some(r)}]
    BY <1>4, <1>5
<1>7. h = [r \in SUBSET s |-> IF r = {} THEN 0 ELSE f[Some(r)] + h[r \ {Some(r)}]]
    <2>1. \A r \in SUBSET s : h[r] = IF r = {} THEN 0 ELSE f[Some(r)] + h[r \ {Some(r)}]
        BY <1>6
    <2> DEFINE k == [r \in SUBSET s |-> IF r = {} THEN 0 ELSE f[Some(r)] + h[r \ {Some(r)}]]
    <2>2. DOMAIN h = DOMAIN k /\ \A r \in SUBSET s : h[r] = k[r]
        BY <2>1
    <2>3. h = [r \in SUBSET s |-> h[r]] /\ k = [r \in SUBSET s |-> k[r]]
        OBVIOUS
    <2>. HIDE DEF h, k
    <2>4. h = k
        BY <2>2, <2>3
    <2>. QED  BY <2>4 DEF k
<1>8. SumsTo(f, s, h)
    BY <1>7 DEF SumsTo
<1>. HIDE DEF h
<1>9. SumsTo(f, s, SumsOver(f, s))
    BY <1>8, Zenon DEF SumsOver
<1>. QED  BY <1>2, <1>9

\* A sum, by the element taken first.
LEMMA SumUnfolds ==
    ASSUME NEW S, IsFiniteSet(S), NEW f
    PROVE  SumOf(f, S) = IF S = {} THEN 0 ELSE f[Some(S)] + SumOf(f, S \ {Some(S)})
<1>1. SumsTo(f, S, SumsOver(f, S))
    BY SumsExist
<1>2. SumsOver(f, S)[S] = IF S = {} THEN 0 ELSE f[Some(S)] + SumsOver(f, S)[S \ {Some(S)}]
    BY <1>1 DEF SumsTo
<1> DEFINE R == S \ {Some(S)}
<1>3. SumsTo(f, R, SumsOver(f, R)) /\ R \in SUBSET S /\ S \in SUBSET S /\ R \in SUBSET (R \cap S)
    BY SumsExist
<1>. HIDE DEF R
<1>4. SumsOver(f, R)[R] = SumsOver(f, S)[R]
    BY <1>1, <1>3, SumsAgree
<1>. QED  BY <1>2, <1>4, SumIsChosen DEF R
\* Sums of integers are integers, those of numbers numbers.
LEMMA SumIsInt ==
    ASSUME NEW S, IsFiniteSet(S), NEW f, \A x \in S : f[x] \in Int
    PROVE  SumOf(f, S) \in Int
<1> DEFINE T == {s \in SUBSET S : SumOf(f, s) \notin Int}
<1>1. SUFFICES ASSUME T # {} PROVE FALSE
    OBVIOUS
<1>2. PICK s \in T : \A r \in T : r \subseteq s => r = s
    <2>1. T \in SUBSET SUBSET S
        OBVIOUS
    <2>. HIDE DEF T
    <2>. QED  BY <1>1, <2>1, LeastSubset
<1>3. IsFiniteSet(s)
    BY FS_Subset
<1>4. SumOf(f, s) = IF s = {} THEN 0 ELSE f[Some(s)] + SumOf(f, s \ {Some(s)})
    BY <1>3, SumUnfolds
<1>5. s # {}
    BY <1>4
<1>6. Some(s) \in s
    BY <1>5, SomeIsIn
<1>7. SumOf(f, s \ {Some(s)}) \in Int
    BY <1>2, <1>6
<1>. QED  BY <1>4, <1>5, <1>6, <1>7

LEMMA SumIsNat ==
    ASSUME NEW S, IsFiniteSet(S), NEW f, \A x \in S : f[x] \in Nat
    PROVE  SumOf(f, S) \in Nat
<1> DEFINE T == {s \in SUBSET S : SumOf(f, s) \notin Nat}
<1>1. SUFFICES ASSUME T # {} PROVE FALSE
    OBVIOUS
<1>2. PICK s \in T : \A r \in T : r \subseteq s => r = s
    <2>1. T \in SUBSET SUBSET S
        OBVIOUS
    <2>. HIDE DEF T
    <2>. QED  BY <1>1, <2>1, LeastSubset
<1>3. IsFiniteSet(s)
    BY FS_Subset
<1>4. SumOf(f, s) = IF s = {} THEN 0 ELSE f[Some(s)] + SumOf(f, s \ {Some(s)})
    BY <1>3, SumUnfolds
<1>5. s # {}
    BY <1>4
<1>6. Some(s) \in s
    BY <1>5, SomeIsIn
<1>7. SumOf(f, s \ {Some(s)}) \in Nat
    BY <1>2, <1>6
<1>. QED  BY <1>4, <1>5, <1>6, <1>7

\* A sum depends on what is added only.
LEMMA SumSame ==
    ASSUME NEW S, IsFiniteSet(S), NEW f, NEW g, \A x \in S : f[x] = g[x]
    PROVE  SumOf(f, S) = SumOf(g, S)
<1> DEFINE T == {s \in SUBSET S : SumOf(f, s) # SumOf(g, s)}
<1>1. SUFFICES ASSUME T # {} PROVE FALSE
    OBVIOUS
<1>2. PICK s \in T : \A r \in T : r \subseteq s => r = s
    <2>1. T \in SUBSET SUBSET S
        OBVIOUS
    <2>. HIDE DEF T
    <2>. QED  BY <1>1, <2>1, LeastSubset
<1>3. IsFiniteSet(s)
    BY FS_Subset
<1>4. /\ SumOf(f, s) = IF s = {} THEN 0 ELSE f[Some(s)] + SumOf(f, s \ {Some(s)})
      /\ SumOf(g, s) = IF s = {} THEN 0 ELSE g[Some(s)] + SumOf(g, s \ {Some(s)})
    BY <1>3, SumUnfolds
<1>5. s # {}
    BY <1>4
<1>6. Some(s) \in s
    BY <1>5, SomeIsIn
<1>7. SumOf(f, s \ {Some(s)}) = SumOf(g, s \ {Some(s)})
    BY <1>2, <1>6
<1>. QED  BY <1>4, <1>5, <1>6, <1>7

\* Any element may be added last.
LEMMA SumPicks ==
    ASSUME NEW S, IsFiniteSet(S), NEW f, \A x \in S : f[x] \in Int, NEW y \in S
    PROVE  SumOf(f, S) = f[y] + SumOf(f, S \ {y})
<1> DEFINE T == {s \in SUBSET S : \E x \in s : SumOf(f, s) # f[x] + SumOf(f, s \ {x})}
<1>1. SUFFICES ASSUME T # {} PROVE FALSE
    OBVIOUS
<1>2. PICK s \in T : \A r \in T : r \subseteq s => r = s
    <2>1. T \in SUBSET SUBSET S
        OBVIOUS
    <2>. HIDE DEF T
    <2>. QED  BY <1>1, <2>1, LeastSubset
<1>3. PICK x \in s : SumOf(f, s) # f[x] + SumOf(f, s \ {x})
    OBVIOUS
<1>4. PICK c \in s : c = Some(s)
    BY SomeIsIn
<1>5. SumOf(f, s) = f[c] + SumOf(f, s \ {c})
    BY <1>3, <1>4, SumUnfolds, FS_Subset
<1>6. x # c
    BY <1>3, <1>5
<1>7. ASSUME NEW p \in s, NEW q \in s, p # q
      PROVE  SumOf(f, s \ {p}) = f[q] + SumOf(f, (s \ {p}) \ {q})
    <2>1. s \ {p} \in SUBSET S /\ s \ {p} \subseteq s /\ s \ {p} # s /\ q \in s \ {p}
        BY <1>7
    <2>2. s \ {p} \notin T
        BY <1>2, <2>1
    <2>. QED  BY <2>1, <2>2
<1>8. /\ SumOf(f, s \ {c}) = f[x] + SumOf(f, (s \ {c}) \ {x})
      /\ SumOf(f, s \ {x}) = f[c] + SumOf(f, (s \ {x}) \ {c})
    BY <1>6, <1>7
<1>9. PICK r : r = (s \ {c}) \ {x} /\ r = (s \ {x}) \ {c}
    OBVIOUS
<1>10. SumOf(f, r) \in Int /\ f[c] \in Int /\ f[x] \in Int
    <2>1. r \in SUBSET S /\ IsFiniteSet(r)
        BY <1>9, FS_Subset
    <2>. QED  BY <2>1, SumIsInt
<1>11. SumOf(f, s) = f[c] + (f[x] + SumOf(f, r)) /\ SumOf(f, s \ {x}) = f[c] + SumOf(f, r)
    BY <1>5, <1>8, <1>9
<1>. QED  BY <1>3, <1>10, <1>11

\* A part of a sum is no more than the whole.
LEMMA SumOfPart ==
    ASSUME NEW S, IsFiniteSet(S), NEW f, \A x \in S : f[x] \in Nat, NEW R \in SUBSET S
    PROVE  SumOf(f, R) <= SumOf(f, S)
<1> DEFINE T == {s \in SUBSET S : R \subseteq s /\ ~(SumOf(f, R) <= SumOf(f, s))}
<1>1. SUFFICES ASSUME T # {} PROVE FALSE
    OBVIOUS
<1>2. PICK s \in T : \A r \in T : r \subseteq s => r = s
    <2>1. T \in SUBSET SUBSET S
        OBVIOUS
    <2>. HIDE DEF T
    <2>. QED  BY <1>1, <2>1, LeastSubset
<1>3. \A r \in SUBSET S : SumOf(f, r) \in Nat
    BY SumIsNat, FS_Subset
<1>4. PICK x \in s : x \notin R
    BY <1>3
<1>5. SumOf(f, s) = f[x] + SumOf(f, s \ {x})
    BY SumPicks, FS_Subset
<1>6. SumOf(f, R) <= SumOf(f, s \ {x})
    BY <1>2, <1>4
<1>. QED  BY <1>3, <1>5, <1>6

=============================================================================
