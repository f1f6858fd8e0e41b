------------------------------ MODULE ReplicaProofs ------------------------------
(***************************************************************************)
(* Lemmas about the operators of a replica, for the proofs of every module *)
(* that runs one: what they do to the sum of the balances, to the nonces,  *)
(* to the emission schedule, to the graph and to the record of conflicts.  *)
(* First the facts about natural numbers, finite sets and folds on which   *)
(* these rest, all of them by induction.  An induction is stated with the  *)
(* set of the numbers for which something holds.                           *)
(***************************************************************************)
EXTENDS ReplicaFacts, Selection, FiniteSetTheorems, SequenceTheorems, WellFoundedInduction, TLAPS

-----------------------------------------------------------------------------
(* Natural numbers.                                                        *)

LEMMA LessThanWellFounded == IsWellFoundedOn({p \in Nat \X Nat : p[1] < p[2]}, Nat)
  BY NatLessThanWellFounded DEF OpToRel

(* A non-empty set of naturals has a least element.                         *)
LEMMA LeastNat ==
    ASSUME NEW T, T \subseteq Nat, T # {}
    PROVE  \E x \in T : \A y \in T : x <= y
  <1> DEFINE R == {p \in Nat \X Nat : p[1] < p[2]}
  <1>1. IsWellFoundedOn(R, Nat)
    BY LessThanWellFounded
  <1>2. PICK x \in T : \A y \in T : <<y, x>> \notin R
    <2> HIDE DEF R
    <2> QED BY <1>1, WFMin
  <1>3. ASSUME NEW y \in T PROVE x <= y
    <2>1. <<y, x>> \notin R
      BY <1>2
    <2>2. ~(y < x)
      BY <2>1
    <2> QED BY <2>2
  <1> QED BY <1>3

(* Induction over the naturals.                                             *)
LEMMA NatSetInduction ==
    ASSUME NEW T, 0 \in T, \A n \in Nat : n \in T => n + 1 \in T
    PROVE  \A n \in Nat : n \in T
  <1> SUFFICES ASSUME Nat \ T # {} PROVE FALSE
    OBVIOUS
  <1>1. PICK x \in Nat \ T : \A y \in Nat \ T : x <= y
    BY LeastNat
  <1>2. x # 0 /\ x - 1 \in Nat /\ x - 1 \notin T
    BY <1>1
  <1> QED BY <1>1, <1>2

(* Induction over the indices of a sequence.                                *)
LEMMA IndexSetInduction ==
    ASSUME NEW N \in Nat, NEW T, 0 \in T, \A n \in 1 .. N : n - 1 \in T => n \in T
    PROVE  \A n \in 0 .. N : n \in T
  <1> DEFINE U == {n \in Nat : n <= N => n \in T}
  <1>1. 0 \in U
    OBVIOUS
  <1>2. ASSUME NEW n \in Nat, n \in U PROVE n + 1 \in U
    <2>1. n + 1 <= N => n + 1 \in 1 .. N /\ (n + 1) - 1 \in T
      BY <1>2
    <2> QED BY <2>1
  <1>3. \A n \in Nat : n \in U
    <2> HIDE DEF U
    <2> QED BY <1>1, <1>2, NatSetInduction
  <1> QED BY <1>3

(* A function on the naturals is defined by recursion.                      *)
IsRecursion(V, b, step, f) ==
    f \in [Nat -> V] /\ f[0] = b /\ \A n \in Nat : f[n + 1] = step[<<n, f[n]>>]

(* ... whatever the step, as long as it stays within a set V.               *)
LEMMA NatRecursion ==
    ASSUME NEW V, NEW b \in V, NEW step, \A p \in Nat \X V : step[p] \in V
    PROVE  \E f : IsRecursion(V, b, step, f)
  <1> DEFINE Upto(g, n) == /\ g \in [0 .. n -> V] /\ g[0] = b
                           /\ \A m \in 0 .. n - 1 : g[m + 1] = step[<<m, g[m]>>]
             T == {n \in Nat : \E g : Upto(g, n)}
  <1>1. 0 \in T
    <2>1. Upto([m \in 0 .. 0 |-> b], 0)
      OBVIOUS
    <2>2. \E g : Upto(g, 0)
      <3> HIDE DEF Upto
      <3> QED BY <2>1
    <2> QED BY <2>2
  <1>2. ASSUME NEW n \in Nat, n \in T PROVE n + 1 \in T
    <2>1. PICK g : Upto(g, n)
      BY <1>2
    <2> DEFINE h == [m \in 0 .. n + 1 |-> IF m = n + 1 THEN step[<<n, g[n]>>] ELSE g[m]]
    <2>2. /\ h[0] = b /\ h[n + 1] = step[<<n, g[n]>>]
          /\ \A m \in 0 .. n : h[m] = g[m]
      BY <2>1
    <2>3. h \in [0 .. n + 1 -> V]
      <3>1. <<n, g[n]>> \in Nat \X V
        BY <2>1
      <3>2. step[<<n, g[n]>>] \in V
        BY <3>1
      <3>3. \A m \in 0 .. n + 1 : m # n + 1 => m \in 0 .. n
        OBVIOUS
      <3> QED BY <2>1, <3>2, <3>3
    <2>4. ASSUME NEW m \in 0 .. (n + 1) - 1 PROVE h[m + 1] = step[<<m, h[m]>>]
      <3>1. CASE m = n
        <4>1. h[m] = g[n] /\ h[m + 1] = step[<<n, g[n]>>]
          BY <2>2, <3>1
        <4> QED BY <3>1, <4>1
      <3>2. CASE m # n
        <4>1. m \in 0 .. n - 1 /\ m \in 0 .. n /\ m + 1 \in 0 .. n
          BY <3>2
        <4>2. g[m + 1] = step[<<m, g[m]>>] /\ h[m] = g[m] /\ h[m + 1] = g[m + 1]
          BY <2>1, <2>2, <4>1
        <4> QED BY <4>2
      <3> QED BY <3>1, <3>2
    <2>5. Upto(h, n + 1)
      <3> HIDE DEF h
      <3> QED BY <2>2, <2>3, <2>4
    <2>6. \E j : Upto(j, n + 1)
      <3> HIDE DEF Upto, h
      <3> QED BY <2>5
    <2> HIDE DEF Upto
    <2> QED BY <2>6
  <1>3. \A n \in Nat : \E g : Upto(g, n)
    <2>1. \A n \in Nat : n \in T
      <3> HIDE DEF T
      <3> QED BY <1>1, <1>2, NatSetInduction
    <2> QED BY <2>1
  <1>4. ASSUME NEW n \in Nat, NEW k \in Nat, NEW g, NEW h, Upto(g, n), Upto(h, k), n <= k
        PROVE  g[n] = h[n]
    <2> DEFINE U == {m \in 0 .. n : g[m] = h[m]}
    <2>1. 0 \in U
      BY <1>4
    <2>2. ASSUME NEW m \in 1 .. n, m - 1 \in U PROVE m \in U
      <3>1. m - 1 \in 0 .. n - 1 /\ m - 1 \in 0 .. k - 1 /\ (m - 1) + 1 = m
        BY <1>4
      <3>2. g[m] = step[<<m - 1, g[m - 1]>>] /\ h[m] = step[<<m - 1, h[m - 1]>>]
        BY <1>4, <3>1
      <3> QED BY <2>2, <3>2
    <2>3. \A m \in 0 .. n : m \in U
      <3> HIDE DEF U
      <3> QED BY <2>1, <2>2, IndexSetInduction
    <2> QED BY <2>3
  <1> DEFINE At(n) == CHOOSE g : Upto(g, n)
             f     == [n \in Nat |-> At(n)[n]]
  <1>5. \A n \in Nat : Upto(At(n), n)
    <2> HIDE DEF Upto
    <2> QED BY <1>3
  <1> HIDE DEF At
  <1>6. f \in [Nat -> V] /\ f[0] = b
    BY <1>5
  <1>7. ASSUME NEW n \in Nat PROVE f[n + 1] = step[<<n, f[n]>>]
    <2>1. Upto(At(n), n) /\ Upto(At(n + 1), n + 1) /\ n \in 0 .. (n + 1) - 1
      BY <1>5
    <2>2. At(n + 1)[n + 1] = step[<<n, At(n + 1)[n]>>]
      BY <2>1
    <2>3. At(n)[n] = At(n + 1)[n]
      <3> HIDE DEF Upto
      <3> QED BY <1>4, <2>1
    <2> QED BY <2>2, <2>3
  <1> HIDE DEF f
  <1> QED BY <1>6, <1>7 DEF IsRecursion

-----------------------------------------------------------------------------
(* Finite sets.                                                            *)

(* Induction over the subsets of a finite set, by their size.               *)
LEMMA SubsetInduction ==
    ASSUME NEW S, IsFiniteSet(S), NEW T, {} \in T,
           \A s \in SUBSET S : (s # {} /\ \A x \in s : s \ {x} \in T) => s \in T
    PROVE  \A s \in SUBSET S : s \in T
  <1> DEFINE U == {n \in Nat : \A s \in SUBSET S : Cardinality(s) = n => s \in T}
  <1>0. \A s \in SUBSET S : IsFiniteSet(s) /\ Cardinality(s) \in Nat
    BY FS_Subset, FS_CardinalityType
  <1>1. 0 \in U
    BY <1>0, FS_EmptySet
  <1>2. ASSUME NEW n \in Nat, n \in U PROVE n + 1 \in U
    <2> SUFFICES ASSUME NEW s \in SUBSET S, Cardinality(s) = n + 1 PROVE s \in T
      OBVIOUS
    <2>1. s # {}
      <3>1. Cardinality({}) = 0
        BY FS_EmptySet
      <3> QED BY <3>1
    <2>2. ASSUME NEW x \in s PROVE s \ {x} \in T
      <3>1. Cardinality(s \ {x}) = n
        BY <1>0, FS_RemoveElement
      <3> QED BY <3>1, <1>2
    <2> QED BY <2>1, <2>2
  <1>3. \A n \in Nat : n \in U
    <2> HIDE DEF U
    <2> QED BY <1>1, <1>2, NatSetInduction
  <1> QED BY <1>0, <1>3

(* A non-empty finite set of naturals has a greatest element, and Max is it.*)
LEMMA GreatestNat ==
    ASSUME NEW S, S \subseteq Nat, IsFiniteSet(S), S # {}
    PROVE  Max(S) \in S /\ \A y \in S : y <= Max(S)
  <1> DEFINE T == {s \in SUBSET S : s # {} => \E x \in s : \A y \in s : y <= x}
  <1>1. {} \in T
    OBVIOUS
  <1>2. ASSUME NEW s \in SUBSET S, s # {}, \A x \in s : s \ {x} \in T
        PROVE  s \in T
    <2>1. PICK a \in s : TRUE
      BY <1>2
    <2>2. CASE s \ {a} = {}
      <3>1. \A y \in s : y = a
        BY <2>2
      <3> QED BY <3>1
    <2>3. CASE s \ {a} # {}
      <3>1. PICK b \in s \ {a} : \A y \in s \ {a} : y <= b
        BY <1>2, <2>1, <2>3
      <3>2. CASE a <= b
        BY <3>1, <3>2
      <3>3. CASE b <= a
        BY <3>1, <3>3
      <3> QED BY <3>2, <3>3
    <2> QED BY <2>2, <2>3
  <1>3. S \in T
    <2> HIDE DEF T
    <2> QED BY <1>1, <1>2, SubsetInduction
  <1>4. \E x \in S : \A y \in S : x >= y
    BY <1>3
  <1>5. Max(S) \in S /\ \A y \in S : Max(S) >= y
    BY <1>4 DEF Max
  <1> QED BY <1>5

-----------------------------------------------------------------------------
(* Sums.  FoldSet(LAMBDA x, n : f[x] + n, 0, S) is sum[S] for the recursive *)
(* function sum of which MapThenFoldSet takes the value.                    *)

SumsOf(f, S, sum) ==
    sum = [s \in SUBSET S |->
              IF s = {} THEN 0
              ELSE f[CHOOSE x \in s : TRUE] + sum[s \ {CHOOSE x \in s : TRUE}]]

(* There is such a function.                                                *)
LEMMA SumExists ==
    ASSUME NEW S, IsFiniteSet(S), NEW f
    PROVE  \E sum : SumsOf(f, S, sum)
  <1> DEFINE First(s) == CHOOSE x \in s : TRUE
             D(n)     == {s \in SUBSET S : Cardinality(s) <= n}
             Eq(g, n) == g = [s \in D(n) |->
                                IF s = {} THEN 0 ELSE f[First(s)] + g[s \ {First(s)}]]
             T        == {n \in Nat : \E g : Eq(g, n)}
  <1>0. \A s \in SUBSET S : IsFiniteSet(s) /\ Cardinality(s) \in Nat
    BY FS_Subset, FS_CardinalityType
  <1>e. Cardinality({}) = 0
    BY FS_EmptySet
  <1>f. \A s : s # {} => First(s) \in s
    OBVIOUS
  <1>r. ASSUME NEW s \in SUBSET S, s # {}
        PROVE  Cardinality(s \ {First(s)}) = Cardinality(s) - 1
    BY <1>0, <1>f, <1>r, FS_RemoveElement
  <1>1. 0 \in T
    <2> DEFINE g == [s \in D(0) |-> 0]
    <2>1. \A s \in D(0) : s = {}
      <3> SUFFICES ASSUME NEW s \in D(0), s # {} PROVE FALSE
        OBVIOUS
      <3>1. Cardinality(s \ {First(s)}) = Cardinality(s) - 1
        BY <1>r
      <3>2. Cardinality(s \ {First(s)}) \in Nat /\ Cardinality(s) \in Nat
        BY <1>0
      <3> QED BY <3>1, <3>2
    <2>2. Eq(g, 0)
      BY <2>1
    <2> QED BY <2>2
  <1>2. ASSUME NEW n \in Nat, n \in T PROVE n + 1 \in T
    <2>1. PICK g : Eq(g, n)
      BY <1>2
    <2> DEFINE h == [s \in D(n + 1) |->
                        IF s = {} THEN 0 ELSE f[First(s)] + g[s \ {First(s)}]]
    <2>2. ASSUME NEW s \in D(n) PROVE h[s] = g[s]
      <3>1. s \in D(n + 1)
        BY <1>0
      <3>2. g[s] = IF s = {} THEN 0 ELSE f[First(s)] + g[s \ {First(s)}]
        BY <2>1
      <3> QED BY <3>1, <3>2
    <2>3. ASSUME NEW s \in D(n + 1), s # {} PROVE s \ {First(s)} \in D(n)
      BY <1>0, <1>r, <2>3
    <2>4. Eq(h, n + 1)
      <3>1. ASSUME NEW s \in D(n + 1)
            PROVE  h[s] = IF s = {} THEN 0 ELSE f[First(s)] + h[s \ {First(s)}]
        <4>1. CASE s = {}
          BY <4>1
        <4>2. CASE s # {}
          <5>1. h[s \ {First(s)}] = g[s \ {First(s)}]
            BY <4>2, <2>2, <2>3
          <5> QED BY <4>2, <5>1
        <4> QED BY <4>1, <4>2
      <3> QED BY <3>1, Zenon
    <2>5. \E j : Eq(j, n + 1)
      <3> HIDE DEF Eq, h
      <3> QED BY <2>4
    <2> HIDE DEF Eq
    <2> QED BY <2>5
  <1>3. Cardinality(S) \in Nat /\ Cardinality(S) \in T
    <2>1. \A n \in Nat : n \in T
      <3> HIDE DEF T
      <3> QED BY <1>1, <1>2, NatSetInduction
    <2> QED BY <2>1, <1>0
  <1>4. D(Cardinality(S)) = SUBSET S
    BY <1>0, FS_Subset
  <1>5. PICK g : Eq(g, Cardinality(S))
    BY <1>3
  <1> QED BY <1>4, <1>5 DEF SumsOf

(* The sum does not depend on the order in which elements are taken.        *)
LEMMA SumAnyElement ==
    ASSUME NEW S, IsFiniteSet(S), NEW f, \A x \in S : f[x] \in Int,
           NEW sum, SumsOf(f, S, sum)
    PROVE  /\ sum[{}] = 0
           /\ \A s \in SUBSET S :
                 sum[s] \in Int /\ \A x \in s : sum[s] = f[x] + sum[s \ {x}]
  <1> DEFINE First(s) == CHOOSE x \in s : TRUE
             T == {s \in SUBSET S :
                      sum[s] \in Int /\ \A x \in s : sum[s] = f[x] + sum[s \ {x}]}
  <1>0. \A s : s # {} => First(s) \in s
    OBVIOUS
  <1>1. sum[{}] = 0
    BY DEF SumsOf
  <1>2. \A s \in SUBSET S : s # {} => sum[s] = f[First(s)] + sum[s \ {First(s)}]
    BY DEF SumsOf
  <1> HIDE DEF First
  <1>3. \A s \in SUBSET S : sum[s] \in Int
    <2> DEFINE U == {s \in SUBSET S : sum[s] \in Int}
    <2>1. {} \in U
      BY <1>1
    <2>2. ASSUME NEW s \in SUBSET S, s # {}, \A x \in s : s \ {x} \in U
          PROVE  s \in U
      <3>1. First(s) \in s
        BY <1>0, <2>2
      <3>2. sum[s \ {First(s)}] \in Int /\ f[First(s)] \in Int
        BY <2>2, <3>1
      <3>3. sum[s] = f[First(s)] + sum[s \ {First(s)}]
        BY <1>2, <2>2
      <3> QED BY <3>2, <3>3
    <2>3. \A s \in SUBSET S : s \in U
      <3> HIDE DEF U
      <3> QED BY <2>1, <2>2, SubsetInduction
    <2> QED BY <2>3
  <1>4. {} \in T
    BY <1>1
  <1>5. ASSUME NEW s \in SUBSET S, s # {}, \A x \in s : s \ {x} \in T
        PROVE  s \in T
    <2> DEFINE y == First(s)
    <2>1. y \in s /\ sum[s] = f[y] + sum[s \ {y}]
      BY <1>0, <1>2, <1>5
    <2> HIDE DEF y
    <2>2. ASSUME NEW x \in s, x # y PROVE sum[s] = f[x] + sum[s \ {x}]
      <3>1. s \ {x} \in T /\ s \ {y} \in T
        BY <1>5, <2>1
      <3>2. sum[s \ {y}] = f[x] + sum[(s \ {y}) \ {x}]
        BY <3>1, <2>2
      <3>3. sum[s \ {x}] = f[y] + sum[(s \ {x}) \ {y}]
        BY <3>1, <2>1, <2>2
      <3>4. (s \ {y}) \ {x} = (s \ {x}) \ {y}
        OBVIOUS
      <3>5. PICK rest \in Int : rest = sum[(s \ {x}) \ {y}]
        BY <1>3
      <3>6. f[x] \in Int /\ f[y] \in Int
        BY <2>1
      <3>7. sum[s] = f[y] + (f[x] + rest)
        BY <2>1, <3>2, <3>4, <3>5, Zenon
      <3>8. sum[s \ {x}] = f[y] + rest
        BY <3>3, <3>5, Zenon
      <3> QED BY <3>6, <3>7, <3>8
    <2> QED BY <1>3, <2>1, <2>2
  <1>6. \A s \in SUBSET S : s \in T
    <2> HIDE DEF T
    <2> QED BY <1>4, <1>5, SubsetInduction
  <1> QED BY <1>1, <1>6

(* Changing one term changes the sum by as much; the rest is untouched.     *)
LEMMA SumUpdate ==
    ASSUME NEW S, IsFiniteSet(S), NEW a \in S,
           NEW f, NEW g, \A x \in S : f[x] \in Int /\ g[x] \in Int,
           \A x \in S \ {a} : f[x] = g[x],
           NEW sumf, SumsOf(f, S, sumf), NEW sumg, SumsOf(g, S, sumg)
    PROVE  sumg[S] = sumf[S] - f[a] + g[a]
  <1> DEFINE T == {s \in SUBSET S : a \notin s => sumf[s] = sumg[s]}
  <1>1. /\ sumf[{}] = 0 /\ sumg[{}] = 0
        /\ \A s \in SUBSET S : sumf[s] \in Int /\ sumg[s] \in Int
        /\ \A s \in SUBSET S : \A x \in s : sumf[s] = f[x] + sumf[s \ {x}]
        /\ \A s \in SUBSET S : \A x \in s : sumg[s] = g[x] + sumg[s \ {x}]
    BY SumAnyElement
  <1>2. {} \in T
    BY <1>1
  <1>3. ASSUME NEW s \in SUBSET S, s # {}, \A x \in s : s \ {x} \in T
        PROVE  s \in T
    <2>1. PICK x \in s : TRUE
      BY <1>3
    <2>2. sumf[s] = f[x] + sumf[s \ {x}] /\ sumg[s] = g[x] + sumg[s \ {x}]
      BY <1>1
    <2> QED BY <2>1, <2>2, <1>3
  <1>4. S \ {a} \in T
    <2>1. \A s \in SUBSET S : s \in T
      <3> HIDE DEF T
      <3> QED BY <1>2, <1>3, SubsetInduction
    <2> QED BY <2>1
  <1>5. sumf[S] = f[a] + sumf[S \ {a}] /\ sumg[S] = g[a] + sumg[S \ {a}]
    BY <1>1
  <1>6. sumf[S \ {a}] = sumg[S \ {a}] /\ sumf[S \ {a}] \in Int
    BY <1>1, <1>4
  <1> QED BY <1>5, <1>6

(* No term exceeds a sum of naturals, and a sum of bounded terms is bounded.*)
LEMMA SumBounds ==
    ASSUME NEW S, IsFiniteSet(S), NEW f, \A x \in S : f[x] \in Nat,
           NEW sum, SumsOf(f, S, sum), NEW b \in Nat
    PROVE  /\ sum[S] \in Nat
           /\ \A x \in S : f[x] <= sum[S]
           /\ (\A x \in S : f[x] <= b) => sum[S] <= Cardinality(S) * b
  <1> DEFINE T == {s \in SUBSET S :
                     /\ sum[s] \in Nat
                     /\ (\A x \in S : f[x] <= b) => sum[s] <= Cardinality(s) * b}
  <1>0. \A s \in SUBSET S : IsFiniteSet(s) /\ Cardinality(s) \in Nat
    BY FS_Subset, FS_CardinalityType
  <1>1. /\ sum[{}] = 0
        /\ \A s \in SUBSET S : \A x \in s : sum[s] = f[x] + sum[s \ {x}]
    <2>1. \A x \in S : f[x] \in Int
      OBVIOUS
    <2> QED BY <2>1, SumAnyElement
  <1>2. {} \in T
    <2>1. Cardinality({}) = 0
      BY FS_EmptySet
    <2> QED BY <2>1, <1>1
  <1>3. ASSUME NEW s \in SUBSET S, s # {}, \A x \in s : s \ {x} \in T
        PROVE  s \in T
    <2>1. PICK x \in s : TRUE
      BY <1>3
    <2>2. PICK n \in Nat : Cardinality(s \ {x}) = n /\ Cardinality(s) = n + 1
      <3>1. Cardinality(s \ {x}) = Cardinality(s) - 1
        BY <1>0, FS_RemoveElement
      <3>2. Cardinality(s \ {x}) \in Nat /\ Cardinality(s) \in Nat
        BY <1>0
      <3> QED BY <3>1, <3>2
    <2>3. sum[s] = f[x] + sum[s \ {x}] /\ sum[s \ {x}] \in Nat /\ f[x] \in Nat
      BY <1>1, <1>3
    <2>4. (\A y \in S : f[y] <= b) => f[x] <= b /\ sum[s \ {x}] <= n * b
      BY <1>3, <2>2
    <2>5. (n + 1) * b = n * b + b
      OBVIOUS
    <2>6. n * b \in Nat
      OBVIOUS
    <2>7. (\A y \in S : f[y] <= b) => sum[s] <= (n + 1) * b
      BY <2>3, <2>4, <2>5, <2>6
    <2> QED BY <2>2, <2>3, <2>7
  <1>4. \A s \in SUBSET S : s \in T
    <2> HIDE DEF T
    <2> QED BY <1>2, <1>3, SubsetInduction
  <1>5. ASSUME NEW x \in S PROVE f[x] <= sum[S]
    <2>1. sum[S] = f[x] + sum[S \ {x}] /\ sum[S \ {x}] \in Nat
      BY <1>1, <1>4
    <2> QED BY <2>1
  <1> QED BY <1>4, <1>5

-----------------------------------------------------------------------------
(* Folds of a sequence from the left take the greatest index of a set of    *)
(* indices last.                                                            *)

LEMMA MaxOfIndices ==
    ASSUME NEW n \in Nat, NEW s \in SUBSET (1 .. n), s # {}
    PROVE  Max(s) \in s /\ Max(s) \in 1 .. n /\ \A y \in s : y <= Max(s)
  <1>1. IsFiniteSet(s)
    <2>1. IsFiniteSet(1 .. n)
      BY FS_Interval
    <2> QED BY <2>1, FS_Subset
  <1>2. s \subseteq Nat
    OBVIOUS
  <1> QED BY <1>1, <1>2, GreatestNat

(* A set of indices with n + 1 in it, and one without.                      *)
LEMMA MaxOfNextIndices ==
    ASSUME NEW n \in Nat, NEW s \in SUBSET (1 .. n + 1)
    PROVE  /\ n + 1 \in s => Max(s) = n + 1 /\ s \ {n + 1} \in SUBSET (1 .. n)
           /\ n + 1 \notin s => s \in SUBSET (1 .. n)
  <1>1. CASE n + 1 \in s
    <2>1. Max(s) \in 1 .. n + 1 /\ n + 1 <= Max(s)
      BY <1>1, MaxOfIndices
    <2> QED BY <1>1, <2>1
  <1>2. CASE n + 1 \notin s
    BY <1>2
  <1> QED BY <1>1, <1>2

(* An interval without its maximum is the interval before it.               *)
LEMMA MaxOfPrefix ==
    ASSUME NEW n \in Nat, n # 0
    PROVE  1 .. n # {} /\ Max(1 .. n) = n /\ (1 .. n) \ {n} = 1 .. n - 1
  <1>1. Max(1 .. n) \in 1 .. n /\ n <= Max(1 .. n)
    <2>1. n \in 1 .. n
      OBVIOUS
    <2> QED BY <2>1, MaxOfIndices
  <1> QED BY <1>1

(* The recursive function over sets of indices that a fold from the left    *)
(* evaluates, when the step stays within V.                                 *)
IsFold(V, b, step, n, it) ==
    /\ it \in [SUBSET (1 .. n) -> V]
    /\ \A s \in SUBSET (1 .. n) :
          it[s] = IF s = {} THEN b ELSE step[<<it[s \ {Max(s)}], Max(s)>>]

(* Such a function exists: a fold computes what its recursion says.         *)
LEMMA FoldExists ==
    ASSUME NEW V, NEW b \in V, NEW N \in Nat,
           NEW step, \A p \in V \X (1 .. N) : step[p] \in V
    PROVE  \E it : IsFold(V, b, step, N, it)
  <1> DEFINE T == {n \in 0 .. N : \E it : IsFold(V, b, step, n, it)}
  <1>1. 0 \in T
    <2> DEFINE it == [s \in SUBSET (1 .. 0) |-> b]
    <2>1. \A s \in SUBSET (1 .. 0) : s = {}
      OBVIOUS
    <2>2. IsFold(V, b, step, 0, it)
      BY <2>1 DEF IsFold
    <2> HIDE DEF it
    <2> QED BY <2>2
  <1>2. ASSUME NEW n \in 1 .. N, n - 1 \in T PROVE n \in T
    <2>0. n - 1 \in Nat /\ (n - 1) + 1 = n
      OBVIOUS
    <2>1. PICK it : IsFold(V, b, step, n - 1, it)
      BY <1>2
    <2>t. /\ it \in [SUBSET (1 .. n - 1) -> V]
          /\ \A s \in SUBSET (1 .. n - 1) :
                it[s] = IF s = {} THEN b ELSE step[<<it[s \ {Max(s)}], Max(s)>>]
      BY <2>1 DEF IsFold
    <2> DEFINE next == [s \in SUBSET (1 .. n) |->
                           IF s = {} THEN b ELSE step[<<it[s \ {Max(s)}], Max(s)>>]]
    <2>2. ASSUME NEW s \in SUBSET (1 .. n - 1) PROVE next[s] = it[s]
      <3>1. s \in SUBSET (1 .. n)
        OBVIOUS
      <3> QED BY <2>t, <3>1
    <2>3. ASSUME NEW s \in SUBSET (1 .. n), s # {}
          PROVE  s \ {Max(s)} \in SUBSET (1 .. n - 1) /\ Max(s) \in 1 .. n
      <3>1. Max(s) \in s /\ Max(s) \in 1 .. n /\ \A y \in s : y <= Max(s)
        <4>1. n \in Nat
          OBVIOUS
        <4> QED BY <2>3, <4>1, MaxOfIndices, Zenon
      <3>2. ASSUME NEW y \in s, y # Max(s) PROVE y \in 1 .. n - 1
        <4>1. y \in 1 .. n /\ y <= Max(s)
          BY <3>1
        <4> QED BY <3>1, <3>2, <4>1
      <3> QED BY <3>1, <3>2
    <2>4. ASSUME NEW s \in SUBSET (1 .. n), s # {}
          PROVE  /\ next[s] = step[<<next[s \ {Max(s)}], Max(s)>>]
                 /\ next[s] \in V
      <3>1. s \ {Max(s)} \in SUBSET (1 .. n - 1) /\ Max(s) \in 1 .. N
        BY <2>3, <2>4
      <3>2. next[s \ {Max(s)}] = it[s \ {Max(s)}] /\ it[s \ {Max(s)}] \in V
        BY <2>t, <2>2, <3>1
      <3>3. next[s] = step[<<it[s \ {Max(s)}], Max(s)>>]
        BY <2>4
      <3> QED BY <3>1, <3>2, <3>3
    <2>5. next[{}] = b
      OBVIOUS
    <2>6. DOMAIN next = SUBSET (1 .. n) /\ next = [s \in SUBSET (1 .. n) |-> next[s]]
      OBVIOUS
    <2> HIDE DEF next
    <2>7. IsFold(V, b, step, n, next)
      BY <2>4, <2>5, <2>6 DEF IsFold
    <2> QED BY <2>7
  <1>3. N \in T
    <2>1. \A n \in 0 .. N : n \in T
      <3> HIDE DEF T
      <3> QED BY <1>1, <1>2, IndexSetInduction
    <2> QED BY <2>1
  <1> QED BY <1>3

-----------------------------------------------------------------------------
(* Sums over the accounts.                                                 *)

LEMMA TotalSums ==
    ASSUME NEW f
    PROVE  \E sum : SumsOf(f, Address, sum) /\ Total(f) = sum[Address]
  <1> DEFINE sum == CHOOSE s : SumsOf(f, Address, s)
  <1>1. SumsOf(f, Address, sum)
    BY SumExists, DagLedgerAssumption
  <1>2. Total(f) = sum[Address]
    BY DEF Total, FoldSet, MapThenFoldSet, SumsOf
  <1> HIDE DEF sum
  <1> QED BY <1>1, <1>2

(* A total of naturals bounds its terms, singly and in pairs.               *)
LEMMA TotalBounds ==
    ASSUME NEW f \in [Address -> Nat], NEW b \in Nat
    PROVE  /\ Total(f) \in Nat
           /\ \A a \in Address : f[a] <= Total(f)
           /\ (\A a \in Address : f[a] <= b) => Total(f) <= Cardinality(Address) * b
  <1>1. PICK sum : SumsOf(f, Address, sum) /\ Total(f) = sum[Address]
    BY TotalSums
  <1>2. \A a \in Address : f[a] \in Nat
    OBVIOUS
  <1> QED BY <1>1, <1>2, SumBounds, DagLedgerAssumption

(* Changing one account changes the total by as much.                       *)
LEMMA TotalUpdate ==
    ASSUME NEW f \in [Address -> Int], NEW g \in [Address -> Int], NEW a \in Address,
           \A x \in Address \ {a} : f[x] = g[x]
    PROVE  Total(g) = Total(f) - f[a] + g[a]
  <1>1. PICK sf : SumsOf(f, Address, sf) /\ Total(f) = sf[Address]
    BY TotalSums
  <1>2. PICK sg : SumsOf(g, Address, sg) /\ Total(g) = sg[Address]
    BY TotalSums
  <1>3. \A x \in Address : f[x] \in Int /\ g[x] \in Int
    OBVIOUS
  <1> QED BY <1>1, <1>2, <1>3, SumUpdate, DagLedgerAssumption

(* Two accounts together hold no more than all of them.                     *)
LEMMA TotalOfTwo ==
    ASSUME NEW f \in [Address -> Nat], NEW a \in Address, NEW b \in Address, a # b
    PROVE  f[a] + f[b] <= Total(f)
  <1> DEFINE g == [f EXCEPT ![a] = 0]
  <1>1. g \in [Address -> Nat] /\ g[a] = 0 /\ \A x \in Address \ {a} : f[x] = g[x]
    OBVIOUS
  <1> HIDE DEF g
  <1>2. f \in [Address -> Int] /\ g \in [Address -> Int]
    BY <1>1
  <1>3. Total(g) = Total(f) - f[a] + g[a]
    BY <1>1, <1>2, TotalUpdate
  <1>4. g[b] <= Total(g) /\ Total(f) \in Nat
    BY <1>1, TotalBounds, 0 \in Nat
  <1> QED BY <1>1, <1>3, <1>4

-----------------------------------------------------------------------------
(* The emission schedule.                                                  *)

LEMMA EraSubsidyBound ==
    \A h \in 0 .. MAX_HALVINGS :
        EraSubsidy[h] \in Nat /\ EraSubsidy[h] <= INITIAL_TX_SUBSIDY
  <1> DEFINE V    == 0 .. INITIAL_TX_SUBSIDY
             Eq(g) == g = [n \in 0 .. MAX_HALVINGS |->
                              IF n = 0 THEN INITIAL_TX_SUBSIDY ELSE g[n - 1] \div 2]
             step == [p \in Nat \X V |-> p[2] \div 2]
  <1>1. /\ MAX_HALVINGS \in Nat /\ INITIAL_TX_SUBSIDY \in V
        /\ \A x \in V : x \div 2 \in V
    BY EconomicsAssumption
  <1>2. \E g : Eq(g)
    <2>0. INITIAL_TX_SUBSIDY \in V
      BY <1>1
    <2>1. \A p \in Nat \X V : step[p] \in V
      BY <1>1
    <2>2. \A n \in Nat : \A x \in V : step[<<n, x>>] = x \div 2
      OBVIOUS
    <2> HIDE DEF step, V
    <2>3. PICK f : IsRecursion(V, INITIAL_TX_SUBSIDY, step, f)
      BY <2>0, <2>1, NatRecursion
    <2> DEFINE g == [n \in 0 .. MAX_HALVINGS |-> f[n]]
    <2>4. ASSUME NEW n \in 0 .. MAX_HALVINGS
          PROVE  g[n] = IF n = 0 THEN INITIAL_TX_SUBSIDY ELSE g[n - 1] \div 2
      <3>1. CASE n = 0
        BY <3>1, <2>3 DEF IsRecursion
      <3>2. CASE n # 0
        <4>1. n - 1 \in Nat /\ n - 1 \in 0 .. MAX_HALVINGS /\ (n - 1) + 1 = n
          BY <3>2, <1>1
        <4> QED BY <3>2, <4>1, <2>2, <2>3 DEF IsRecursion
      <3> QED BY <3>1, <3>2
    <2>5. Eq(g)
      BY <2>4, Zenon
    <2>6. \E j : Eq(j)
      <3> HIDE DEF g, Eq
      <3> QED BY <2>5
    <2> QED BY <2>6
  <1>3. Eq(EraSubsidy)
    <2>1. EraSubsidy = CHOOSE g : Eq(g)
      BY DEF EraSubsidy
    <2> HIDE DEF Eq
    <2> QED BY <1>2, <2>1
  <1> DEFINE T == {n \in 0 .. MAX_HALVINGS : EraSubsidy[n] \in V}
  <1>4. 0 \in T
    BY <1>1, <1>3
  <1>5. ASSUME NEW n \in 1 .. MAX_HALVINGS, n - 1 \in T PROVE n \in T
    <2>1. n \in 0 .. MAX_HALVINGS /\ n # 0
      BY <1>1
    <2>2. EraSubsidy[n] = EraSubsidy[n - 1] \div 2
      BY <1>3, <2>1, Zenon
    <2> QED BY <1>1, <1>5, <2>1, <2>2
  <1>6. \A n \in 0 .. MAX_HALVINGS : n \in T
    <2> HIDE DEF T
    <2> QED BY <1>1, <1>4, <1>5, IndexSetInduction
  <1> QED BY <1>6

(* A subsidy fits under the cap.                                            *)
LEMMA SubsidyBound ==
    ASSUME NEW count \in Nat, NEW supply \in 0 .. HARD_CAP
    PROVE  /\ get_current_tx_subsidy(count, supply) \in 0 .. INITIAL_TX_SUBSIDY
           /\ supply + get_current_tx_subsidy(count, supply) \in 0 .. HARD_CAP
  <1> DEFINE era == count \div TX_HALVING_INTERVAL
  <1>1. era \in Nat
    BY EconomicsAssumption
  <1> HIDE DEF era
  <1>2. era < MAX_HALVINGS => EraSubsidy[era] \in Nat /\ EraSubsidy[era] <= INITIAL_TX_SUBSIDY
    BY <1>1, EraSubsidyBound, EconomicsAssumption
  <1>3. get_current_tx_subsidy(count, supply) =
          IF era >= MAX_HALVINGS \/ supply >= HARD_CAP THEN 0
          ELSE IF EraSubsidy[era] > HARD_CAP - supply THEN HARD_CAP - supply
          ELSE EraSubsidy[era]
    BY DEF get_current_tx_subsidy, era
  <1> QED BY <1>1, <1>2, <1>3, EconomicsAssumption

(* The split hands out the pool, whole.                                     *)
LEMMA SplitOfPool ==
    ASSUME NEW pool \in Nat
    PROVE  /\ dag_miner_share_of(pool) \in Nat
           /\ dag_relay_total_of(pool) \in Nat
           /\ dag_miner_share_of(pool) + dag_relay_total_of(pool) = pool
  <1>1. U64_MAX \in Nat
    BY EconomicsAssumption
  <1> DEFINE share == dag_miner_share_of(pool)
  <1>2. share \in Nat /\ share <= pool
    <2>1. CASE pool * 80 > U64_MAX
      <3>1. share = U64_MAX \div 100
        BY <2>1 DEF dag_miner_share_of, SaturatingMul, DAG_MINER_SHARE_PERCENT
      <3> QED BY <1>1, <2>1, <3>1
    <2>2. CASE ~(pool * 80 > U64_MAX)
      <3>1. share = (pool * 80) \div 100
        BY <2>2 DEF dag_miner_share_of, SaturatingMul, DAG_MINER_SHARE_PERCENT
      <3> QED BY <3>1
    <2> QED BY <2>1, <2>2
  <1>3. dag_relay_total_of(pool) = pool - share
    BY <1>2 DEF dag_relay_total_of, SaturatingSub
  <1> HIDE DEF share
  <1>4. pool - share \in Nat /\ share + (pool - share) = pool
    BY <1>2
  <1> QED BY <1>2, <1>3, <1>4 DEF share

(* The payouts of the relays: an equal part each, the dust to the first.    *)
LEMMA PayoutFacts ==
    ASSUME NEW relays \in Seq(Address), relays # <<>>, NEW total \in Nat
    PROVE  /\ DOMAIN RelayPayouts(relays, total) = 1 .. Len(relays)
           /\ \E each \in Nat, dust \in Nat :
                 /\ Len(relays) * each + dust = total
                 /\ \A n \in 1 .. Len(relays) :
                       /\ RelayPayouts(relays, total)[n].to \in Address
                       /\ RelayPayouts(relays, total)[n].amount =
                             IF n = 1 THEN each + dust ELSE each
  <1> DEFINE k == Len(relays)
             each == total \div k
             dust == total % k
  <1>1. k \in Nat /\ k > 0 /\ DOMAIN relays = 1 .. k /\ \A n \in 1 .. k : relays[n] \in Address
    OBVIOUS
  <1>2. RelayPayouts(relays, total) =
           [n \in 1 .. k |-> [to |-> relays[n], amount |-> IF n = 1 THEN each + dust ELSE each]]
    BY <1>1 DEF RelayPayouts
  <1>3. each \in Nat /\ dust \in Nat /\ k * each + dust = total
    <2> HIDE DEF k
    <2> QED BY <1>1
  <1> HIDE DEF each, dust
  <1> QED BY <1>1, <1>2, <1>3

-----------------------------------------------------------------------------
(* The ledger.                                                             *)

Ledgers ==
    [balances       : [Address -> 0 .. U64_MAX],
     next_nonce     : [Address -> 0 .. U64_MAX],
     relay_credits  : [Address -> 0 .. U64_MAX],
     current_supply : 0 .. HARD_CAP,
     dag_tx_count   : Nat]

Mints == [ok : BOOLEAN, ledger : Ledgers]

(* What the ledger reads of a vertex.                                       *)
IsTransaction(t) ==
    /\ {t.sender, t.recipient} \subseteq Address
    /\ {t.amount, t.nonce} \subseteq Nat
    /\ t.relays \in Seq(Address)

(* The ledger a rebuild starts from is one.                                 *)
LEMMA BaselineTyped ==
    ASSUME NEW faucet \in [Address -> 0 .. U64_MAX]
    PROVE  BaselineLedger(faucet) \in Ledgers
  BY EconomicsAssumption DEF BaselineLedger, Ledgers

(* What the fields of a ledger are.                                         *)
LEMMA LedgerFields ==
    ASSUME NEW L \in Ledgers
    PROVE  /\ L.balances \in [Address -> 0 .. U64_MAX]
           /\ L.balances \in [Address -> Nat] /\ L.balances \in [Address -> Int]
           /\ L.next_nonce \in [Address -> 0 .. U64_MAX]
           /\ L.relay_credits \in [Address -> 0 .. U64_MAX]
           /\ L.current_supply \in 0 .. HARD_CAP
           /\ L.dag_tx_count \in Nat
           /\ Total(L.balances) \in Nat
           /\ \A a \in Address : L.balances[a] <= Total(L.balances)
  <1>1. /\ L.balances \in [Address -> 0 .. U64_MAX]
        /\ L.next_nonce \in [Address -> 0 .. U64_MAX]
        /\ L.relay_credits \in [Address -> 0 .. U64_MAX]
        /\ L.current_supply \in 0 .. HARD_CAP
        /\ L.dag_tx_count \in Nat
    BY DEF Ledgers
  <1>2. L.balances \in [Address -> Nat] /\ L.balances \in [Address -> Int]
    BY <1>1, EconomicsAssumption
  <1> QED BY <1>1, <1>2, TotalBounds, 0 \in Nat

(* A spend burns its fee; nothing else leaves the accounts.                 *)
LEMMA SpendFacts ==
    ASSUME NEW L \in Ledgers, NEW t, IsTransaction(t), SpendVerdict(L, t) = "Ok",
           NEW S, S = Spend(L, t)
    PROVE  /\ S \in Ledgers
           /\ Fee(t) \in Nat /\ Fee(t) <= Total(L.balances)
           /\ Total(S.balances) = Total(L.balances) - Fee(t)
           /\ t.nonce = L.next_nonce[t.sender]
           /\ S.next_nonce = [L.next_nonce EXCEPT ![t.sender] = SaturatingAdd(@, 1)]
           /\ S.current_supply = L.current_supply
           /\ S.dag_tx_count = L.dag_tx_count
           /\ S.relay_credits = L.relay_credits
  <1> DEFINE bal == L.balances
             fee == Fee(t)
  <1>1. fee \in Nat /\ U64_MAX \in Nat
    BY EconomicsAssumption DEF Fee
  <1>2. /\ t.sender \in Address /\ t.recipient \in Address
        /\ t.amount \in Nat /\ t.nonce \in Nat
    BY DEF IsTransaction
  <1>3. /\ bal \in [Address -> 0 .. U64_MAX] /\ bal \in [Address -> Int]
        /\ L.next_nonce \in [Address -> 0 .. U64_MAX]
        /\ Total(bal) \in Nat
        /\ \A a \in Address : bal[a] <= Total(bal)
    BY LedgerFields
  <1>4. /\ t.nonce = L.next_nonce[t.sender]
        /\ bal[t.sender] >= t.amount + fee
        /\ t.sender # t.recipient => bal[t.recipient] + t.amount <= U64_MAX
    BY <1>1, <1>2, <1>3 DEF SpendVerdict
  <1> DEFINE self == [bal EXCEPT ![t.sender] = @ - fee]
             paid == [bal EXCEPT ![t.sender] = @ - (t.amount + fee)]
             both == [paid EXCEPT ![t.recipient] = @ + t.amount]
             nonces == [L.next_nonce EXCEPT ![t.sender] = SaturatingAdd(@, 1)]
  <1> HIDE DEF fee, bal
  <1>5. nonces \in [Address -> 0 .. U64_MAX]
    BY <1>1, <1>2, <1>3 DEF SaturatingAdd
  <1>6. CASE t.sender = t.recipient
    <2>1. S = [L EXCEPT !.balances = self, !.next_nonce = nonces]
      BY <1>6 DEF Spend, bal, fee
    <2>2. self \in [Address -> 0 .. U64_MAX] /\ self \in [Address -> Int]
      BY <1>1, <1>2, <1>3, <1>4
    <2>3. Total(self) = Total(bal) - fee
      <3>1. self[t.sender] = bal[t.sender] - fee
        BY <1>2, <1>3
      <3>2. \A x \in Address \ {t.sender} : bal[x] = self[x]
        BY <1>3
      <3> HIDE DEF self
      <3>3. Total(self) = Total(bal) - bal[t.sender] + self[t.sender]
        BY <1>2, <1>3, <2>2, <3>2, TotalUpdate
      <3>4. bal[t.sender] \in Int
        BY <1>2, <1>3
      <3> QED BY <1>1, <1>3, <3>1, <3>3, <3>4
    <2> HIDE DEF self, nonces
    <2>4. S \in Ledgers /\ S.balances = self /\ S.next_nonce = nonces
          /\ S.current_supply = L.current_supply /\ S.dag_tx_count = L.dag_tx_count
          /\ S.relay_credits = L.relay_credits
      BY <1>5, <2>1, <2>2 DEF Ledgers
    <2>5. fee <= Total(bal)
      BY <1>1, <1>2, <1>3, <1>4
    <2> QED BY <1>1, <1>4, <2>3, <2>4, <2>5 DEF fee, bal, nonces
  <1>7. CASE t.sender # t.recipient
    <2>1. S = [L EXCEPT !.balances = both, !.next_nonce = nonces]
      BY <1>7 DEF Spend, bal, fee
    <2>2. paid \in [Address -> 0 .. U64_MAX] /\ paid \in [Address -> Int]
      BY <1>1, <1>2, <1>3, <1>4
    <2>3. /\ paid[t.sender] = bal[t.sender] - (t.amount + fee)
          /\ \A x \in Address \ {t.sender} : bal[x] = paid[x]
      BY <1>2, <1>3
    <2>4. Total(paid) = Total(bal) - (t.amount + fee)
      <3> HIDE DEF paid
      <3>3. Total(paid) = Total(bal) - bal[t.sender] + paid[t.sender]
        BY <1>2, <1>3, <2>2, <2>3, TotalUpdate
      <3>4. bal[t.sender] \in Int
        BY <1>2, <1>3
      <3> QED BY <1>1, <1>2, <1>3, <2>3, <3>3, <3>4
    <2>5. paid[t.recipient] + t.amount \in 0 .. U64_MAX
      <3>1. paid[t.recipient] = bal[t.recipient] /\ bal[t.recipient] \in 0 .. U64_MAX
        BY <1>2, <1>3, <1>7, <2>3
      <3> QED BY <1>1, <1>2, <1>4, <1>7, <3>1
    <2> HIDE DEF paid
    <2>6. both \in [Address -> 0 .. U64_MAX] /\ both \in [Address -> Int]
      BY <1>1, <1>2, <2>2, <2>5
    <2>7. Total(both) = Total(bal) - fee
      <3>1. both[t.recipient] = paid[t.recipient] + t.amount
        BY <1>2, <2>2
      <3>2. \A x \in Address \ {t.recipient} : paid[x] = both[x]
        BY <2>2
      <3> HIDE DEF both
      <3>3. Total(both) = Total(paid) - paid[t.recipient] + both[t.recipient]
        BY <1>2, <2>2, <2>6, <3>2, TotalUpdate
      <3>4. paid[t.recipient] \in Int
        BY <1>2, <2>2
      <3> QED BY <1>1, <1>2, <1>3, <2>4, <3>1, <3>3, <3>4
    <2> HIDE DEF both, nonces
    <2>8. S \in Ledgers /\ S.balances = both /\ S.next_nonce = nonces
          /\ S.current_supply = L.current_supply /\ S.dag_tx_count = L.dag_tx_count
          /\ S.relay_credits = L.relay_credits
      BY <1>5, <2>1, <2>6 DEF Ledgers
    <2>9. fee <= Total(bal)
      BY <1>1, <1>2, <1>3, <1>4
    <2> QED BY <1>1, <1>4, <2>7, <2>8, <2>9 DEF fee, bal, nonces
  <1> QED BY <1>6, <1>7

(* One credit of a mint: made in full, or refused without a trace.          *)
LEMMA CreditMinerFacts ==
    ASSUME NEW m \in Mints, NEW to \in Address, NEW amount \in Nat,
           NEW r, r = CreditMiner(m, to, amount)
    PROVE  /\ r \in Mints
           /\ r.ledger.next_nonce = m.ledger.next_nonce
           /\ r.ledger.current_supply = m.ledger.current_supply
           /\ r.ledger.dag_tx_count = m.ledger.dag_tx_count
           /\ r.ledger.relay_credits = m.ledger.relay_credits
           /\ r.ok => /\ m.ok
                      /\ Total(r.ledger.balances) = Total(m.ledger.balances) + amount
           /\ m.ok /\ m.ledger.balances[to] + amount <= U64_MAX => r.ok
  <1> DEFINE bal == m.ledger.balances
  <1>0. m.ledger \in Ledgers /\ m.ok \in BOOLEAN /\ U64_MAX \in Nat
    BY EconomicsAssumption DEF Mints
  <1>1. /\ bal \in [Address -> 0 .. U64_MAX] /\ bal \in [Address -> Int]
        /\ Total(bal) \in Nat
    BY <1>0, LedgerFields
  <1>2. CASE bal[to] + amount > U64_MAX
    <2>1. r = [m EXCEPT !.ok = FALSE]
      BY <1>2 DEF CreditMiner
    <2>2. r \in Mints /\ r.ledger = m.ledger /\ r.ok = FALSE
      BY <2>1 DEF Mints
    <2>3. bal[to] \in 0 .. U64_MAX
      BY <1>1
    <2> QED BY <1>0, <1>2, <2>2, <2>3
  <1>3. CASE ~(bal[to] + amount > U64_MAX)
    <2> DEFINE new == [bal EXCEPT ![to] = @ + amount]
    <2>1. r = [m EXCEPT !.ledger = [m.ledger EXCEPT !.balances = new]]
      BY <1>3 DEF CreditMiner
    <2>2. new \in [Address -> 0 .. U64_MAX] /\ new \in [Address -> Int]
      BY <1>0, <1>1, <1>3
    <2>3. new[to] = bal[to] + amount /\ \A x \in Address \ {to} : bal[x] = new[x]
      BY <1>1
    <2> HIDE DEF new, bal
    <2>4. Total(new) = Total(bal) + amount
      <3>1. Total(new) = Total(bal) - bal[to] + new[to]
        BY <1>1, <2>2, <2>3, TotalUpdate
      <3>2. bal[to] \in Int
        BY <1>1
      <3> QED BY <1>1, <2>3, <3>1, <3>2
    <2>5. r \in Mints /\ r.ok = m.ok
      BY <1>0, <2>1, <2>2 DEF Mints, Ledgers
    <2>6. /\ r.ledger.balances = new
          /\ r.ledger.next_nonce = m.ledger.next_nonce
          /\ r.ledger.current_supply = m.ledger.current_supply
          /\ r.ledger.dag_tx_count = m.ledger.dag_tx_count
          /\ r.ledger.relay_credits = m.ledger.relay_credits
      BY <1>0, <2>1 DEF Mints, Ledgers
    <2> QED BY <2>4, <2>5, <2>6 DEF bal
  <1> QED BY <1>2, <1>3

(* A relay's credit counts twice: among the balances and as relay income.   *)
LEMMA CreditRelayFacts ==
    ASSUME NEW m \in Mints, NEW payout, payout.to \in Address, payout.amount \in Nat,
           NEW r, r = CreditRelay(m, payout)
    PROVE  /\ r \in Mints
           /\ r.ledger.next_nonce = m.ledger.next_nonce
           /\ r.ledger.current_supply = m.ledger.current_supply
           /\ r.ledger.dag_tx_count = m.ledger.dag_tx_count
           /\ r.ok => /\ m.ok
                      /\ Total(r.ledger.balances) = Total(m.ledger.balances) + payout.amount
                      /\ \A a \in Address : r.ledger.relay_credits[a]
                                              <= m.ledger.relay_credits[a] + payout.amount
           /\ /\ m.ok
              /\ m.ledger.balances[payout.to] + payout.amount <= U64_MAX
              /\ m.ledger.relay_credits[payout.to] + payout.amount <= U64_MAX
              => r.ok
  <1> DEFINE to     == payout.to
             amount == payout.amount
             paid   == CreditMiner(m, to, amount)
  <1>0. to \in Address /\ amount \in Nat /\ U64_MAX \in Nat
    BY EconomicsAssumption
  <1>1. /\ paid \in Mints
        /\ paid.ledger.next_nonce = m.ledger.next_nonce
        /\ paid.ledger.current_supply = m.ledger.current_supply
        /\ paid.ledger.dag_tx_count = m.ledger.dag_tx_count
        /\ paid.ledger.relay_credits = m.ledger.relay_credits
        /\ paid.ok => /\ m.ok
                      /\ Total(paid.ledger.balances) = Total(m.ledger.balances) + amount
        /\ m.ok /\ m.ledger.balances[to] + amount <= U64_MAX => paid.ok
    BY <1>0, CreditMinerFacts
  <1>d. r = IF ~m.ok \/ ~paid.ok THEN [m EXCEPT !.ok = FALSE]
            ELSE IF paid.ledger.relay_credits[to] + amount > U64_MAX
            THEN [paid EXCEPT !.ok = FALSE]
            ELSE [paid EXCEPT !.ledger.relay_credits[to] = @ + amount]
    BY DEF CreditRelay
  <1>t. /\ m.ledger \in Ledgers /\ m.ok \in BOOLEAN
        /\ paid.ledger \in Ledgers /\ paid.ok \in BOOLEAN
    BY <1>1 DEF Mints
  <1>c. /\ paid.ledger.relay_credits \in [Address -> 0 .. U64_MAX]
        /\ m.ledger.relay_credits \in [Address -> 0 .. U64_MAX]
    BY <1>t, LedgerFields
  <1> HIDE DEF paid, to, amount
  <1>2. CASE ~m.ok \/ ~paid.ok
    <2>1. r = [m EXCEPT !.ok = FALSE]
      BY <1>2, <1>d
    <2>2. r \in Mints /\ r.ledger = m.ledger /\ r.ok = FALSE
      BY <2>1 DEF Mints
    <2> QED BY <2>2, <1>1, <1>2 DEF to, amount
  <1>3. CASE m.ok /\ paid.ok /\ paid.ledger.relay_credits[to] + amount > U64_MAX
    <2>1. r = [paid EXCEPT !.ok = FALSE]
      BY <1>3, <1>d
    <2>2. r \in Mints /\ r.ledger = paid.ledger /\ r.ok = FALSE
      BY <2>1, <1>1 DEF Mints
    <2>3. m.ledger.relay_credits[to] \in 0 .. U64_MAX
      BY <1>0, <1>c
    <2>4. ~(m.ledger.relay_credits[to] + amount <= U64_MAX)
      BY <1>0, <1>1, <1>3, <2>3
    <2> QED BY <2>2, <2>4, <1>1 DEF to, amount
  <1>4. CASE m.ok /\ paid.ok /\ ~(paid.ledger.relay_credits[to] + amount > U64_MAX)
    <2> DEFINE old == paid.ledger.relay_credits
               new == [old EXCEPT ![to] = @ + amount]
    <2>1. r = [paid EXCEPT !.ledger = [paid.ledger EXCEPT !.relay_credits = new]]
      BY <1>4, <1>d
    <2>2. new \in [Address -> 0 .. U64_MAX]
      BY <1>0, <1>c, <1>4
    <2>3. \A a \in Address : new[a] <= old[a] + amount
      BY <1>0, <1>c
    <2> HIDE DEF new
    <2>4. r \in Mints /\ r.ok = paid.ok
      BY <1>1, <1>t, <2>1, <2>2 DEF Mints, Ledgers
    <2>5. /\ r.ledger.relay_credits = new
          /\ r.ledger.balances = paid.ledger.balances
          /\ r.ledger.next_nonce = paid.ledger.next_nonce
          /\ r.ledger.current_supply = paid.ledger.current_supply
          /\ r.ledger.dag_tx_count = paid.ledger.dag_tx_count
      BY <1>1, <1>t, <2>1 DEF Mints, Ledgers
    <2> QED BY <1>1, <1>4, <2>3, <2>4, <2>5 DEF to, amount
  <1> QED BY <1>2, <1>3, <1>4, <1>t

(* The mint pays one relay after the other.                                 *)
IsPayoutRun(base, payouts, N, run) ==
    /\ run[0] = base
    /\ \A n \in 0 .. N : run[n] \in Mints
    /\ \A n \in 1 .. N : run[n] = CreditRelay(run[n - 1], payouts[n])
    /\ FoldLeft(CreditRelay, base, payouts) = run[N]

(* The payouts of a mint have such a run.                                   *)
LEMMA PayoutRun ==
    ASSUME NEW base \in Mints, NEW payouts, NEW N \in Nat, DOMAIN payouts = 1 .. N,
           \A n \in 1 .. N : payouts[n].to \in Address /\ payouts[n].amount \in Nat
    PROVE  \E run : IsPayoutRun(base, payouts, N, run)
  <1> DEFINE Eq(g) == g = [s \in SUBSET (1 .. N) |->
                             IF s = {} THEN base
                             ELSE CreditRelay(g[s \ {Max(s)}], payouts[Max(s)])]
             step  == [p \in Mints \X (1 .. N) |-> CreditRelay(p[1], payouts[p[2]])]
             iter  == CHOOSE g : Eq(g)
             run   == [n \in 0 .. N |-> iter[1 .. n]]
  <1>1. \E g : Eq(g)
    <2>1. \A p \in Mints \X (1 .. N) : step[p] \in Mints
      BY CreditRelayFacts
    <2>2. \A x \in Mints : \A n \in 1 .. N : step[<<x, n>>] = CreditRelay(x, payouts[n])
      OBVIOUS
    <2> HIDE DEF step
    <2>3. PICK it : IsFold(Mints, base, step, N, it)
      BY <2>1, FoldExists
    <2>4. ASSUME NEW s \in SUBSET (1 .. N)
          PROVE  it[s] = IF s = {} THEN base
                         ELSE CreditRelay(it[s \ {Max(s)}], payouts[Max(s)])
      <3>1. CASE s = {}
        BY <2>3, <3>1 DEF IsFold
      <3>2. CASE s # {}
        <4>1. Max(s) \in 1 .. N
          BY <3>2, MaxOfIndices
        <4>2. it[s \ {Max(s)}] \in Mints
          BY <2>3 DEF IsFold
        <4>3. it[s] = step[<<it[s \ {Max(s)}], Max(s)>>]
          BY <2>3, <3>2 DEF IsFold
        <4> QED BY <2>2, <3>2, <4>1, <4>2, <4>3
      <3> QED BY <3>1, <3>2
    <2>5. it = [s \in SUBSET (1 .. N) |-> it[s]]
      BY <2>3 DEF IsFold
    <2>6. Eq(it)
      BY <2>4, <2>5, Zenon
    <2> HIDE DEF Eq
    <2> QED BY <2>6
  <1>2. Eq(iter)
    <2> HIDE DEF Eq
    <2> QED BY <1>1
  <1>3. FoldLeft(CreditRelay, base, payouts) = run[N]
    BY DEF FoldLeft, MapThenFoldSet
  <1>4. \A s \in SUBSET (1 .. N) :
          iter[s] = IF s = {} THEN base
                    ELSE CreditRelay(iter[s \ {Max(s)}], payouts[Max(s)])
    BY <1>2, Zenon
  <1> HIDE DEF iter
  <1>5. run[0] = base
    <2>1. 1 .. 0 = {} /\ 0 \in 0 .. N
      OBVIOUS
    <2> QED BY <1>4, <2>1, Zenon
  <1>6. ASSUME NEW n \in 1 .. N PROVE run[n] = CreditRelay(run[n - 1], payouts[n])
    <2>1. n \in 0 .. N /\ n - 1 \in 0 .. N /\ 1 .. n \in SUBSET (1 .. N)
      OBVIOUS
    <2>2. n \in Nat /\ n # 0
      OBVIOUS
    <2>3. 1 .. n # {} /\ Max(1 .. n) = n /\ (1 .. n) \ {n} = 1 .. n - 1
      BY <2>2, MaxOfPrefix
    <2> QED BY <1>4, <2>1, <2>3, Zenon
  <1> HIDE DEF run
  <1>7. \A n \in 0 .. N : run[n] \in Mints
    <2> DEFINE T == {n \in 0 .. N : run[n] \in Mints}
    <2>1. 0 \in T
      BY <1>5
    <2>2. ASSUME NEW n \in 1 .. N, n - 1 \in T PROVE n \in T
      BY <1>6, <2>2, CreditRelayFacts
    <2>3. \A n \in 0 .. N : n \in T
      <3> HIDE DEF T
      <3> QED BY <2>1, <2>2, IndexSetInduction
    <2> QED BY <2>3
  <1> QED BY <1>3, <1>5, <1>6, <1>7 DEF IsPayoutRun

(* The relays of a vertex are paid what RelayPayouts splits, to the unit.   *)
LEMMA RelaysPaid ==
    ASSUME NEW base \in Mints, NEW relays \in Seq(Address), NEW total \in Nat,
           NEW r, r = FoldLeft(CreditRelay, base, RelayPayouts(relays, total)),
           NEW paid, paid = IF relays = <<>> THEN 0 ELSE total
    PROVE  /\ r \in Mints
           /\ r.ledger.next_nonce = base.ledger.next_nonce
           /\ r.ledger.current_supply = base.ledger.current_supply
           /\ r.ledger.dag_tx_count = base.ledger.dag_tx_count
           /\ r.ok => /\ base.ok
                      /\ Total(r.ledger.balances) = Total(base.ledger.balances) + paid
                      /\ \A a \in Address : r.ledger.relay_credits[a]
                                              <= base.ledger.relay_credits[a] + paid
           /\ /\ base.ok
              /\ Total(base.ledger.balances) + paid <= U64_MAX
              /\ \A a \in Address : base.ledger.relay_credits[a] + paid <= U64_MAX
              => r.ok
  <1>0. /\ U64_MAX \in Nat /\ base.ledger \in Ledgers /\ base.ok \in BOOLEAN
    BY EconomicsAssumption DEF Mints
  <1>b. /\ Total(base.ledger.balances) \in Nat
        /\ base.ledger.relay_credits \in [Address -> 0 .. U64_MAX]
    BY <1>0, LedgerFields
  <1>1. CASE relays = <<>>
    <2>1. DOMAIN RelayPayouts(relays, total) = 1 .. 0
      BY <1>1 DEF RelayPayouts
    <2> DEFINE payouts == RelayPayouts(relays, total)
    <2> HIDE DEF payouts
    <2>2. \A n \in 1 .. 0 : payouts[n].to \in Address /\ payouts[n].amount \in Nat
      OBVIOUS
    <2>3. DOMAIN payouts = 1 .. 0 /\ 0 \in Nat
      BY <2>1 DEF payouts
    <2>4. PICK run : IsPayoutRun(base, payouts, 0, run)
      BY <2>2, <2>3, PayoutRun
    <2>5. r = base
      BY <2>4 DEF payouts, IsPayoutRun
    <2> QED BY <1>0, <1>1, <1>b, <2>5
  <1>2. CASE relays # <<>>
    <2> DEFINE payouts == RelayPayouts(relays, total)
               k == Len(relays)
    <2>1. DOMAIN payouts = 1 .. k /\ k \in Nat /\ k # 0
      BY <1>2, PayoutFacts
    <2>2. PICK each \in Nat, dust \in Nat :
             /\ k * each + dust = total
             /\ \A n \in 1 .. k : /\ payouts[n].to \in Address
                                  /\ payouts[n].amount = IF n = 1 THEN each + dust ELSE each
      BY <1>2, PayoutFacts
    <2>3. \A n \in 1 .. k : payouts[n].to \in Address /\ payouts[n].amount \in Nat
      BY <2>2
    <2> HIDE DEF payouts, k
    <2>r. PICK run : IsPayoutRun(base, payouts, k, run)
      BY <2>1, <2>3, PayoutRun
    <2>4. /\ run[0] = base
          /\ \A n \in 0 .. k : run[n] \in Mints
          /\ \A n \in 1 .. k : run[n] = CreditRelay(run[n - 1], payouts[n])
          /\ FoldLeft(CreditRelay, base, payouts) = run[k]
      BY <2>r DEF IsPayoutRun
    <2> DEFINE given == [n \in 0 .. k |-> IF n = 0 THEN 0 ELSE n * each + dust]
    <2>5. /\ given[0] = 0 /\ given[k] = total
          /\ \A n \in 1 .. k : given[n] = given[n - 1] + payouts[n].amount
          /\ \A n \in 0 .. k : given[n] \in Nat
      <3>1. given[0] = 0 /\ given[k] = total
        BY <2>1, <2>2
      <3>2. ASSUME NEW n \in 0 .. k PROVE given[n] \in Nat
        <4>1. n * each \in Nat
          BY <2>1
        <4> QED BY <4>1
      <3>3. ASSUME NEW n \in 1 .. k PROVE given[n] = given[n - 1] + payouts[n].amount
        <4>1. CASE n = 1
          BY <2>1, <2>2, <4>1
        <4>2. CASE n # 1
          <5>1. n \in 0 .. k /\ n - 1 \in 0 .. k /\ n # 0 /\ n - 1 # 0
            BY <2>1, <4>2
          <5>2. given[n] = n * each + dust /\ given[n - 1] = (n - 1) * each + dust
            BY <5>1
          <5>3. n * each = (n - 1) * each + each /\ (n - 1) * each \in Int
            BY <2>1
          <5> QED BY <2>2, <4>2, <5>2, <5>3
        <4> QED BY <4>1, <4>2
      <3> QED BY <3>1, <3>2, <3>3
    <2> HIDE DEF given
    <2>6. \A n \in 0 .. k : given[n] <= total
      <3> DEFINE T == {m \in 0 .. k : given[k - m] <= total}
      <3>1. 0 \in T
        BY <2>1, <2>2, <2>5
      <3>2. ASSUME NEW m \in 1 .. k, m - 1 \in T PROVE m \in T
        <4>1. k - m \in 0 .. k /\ (k - m) + 1 \in 1 .. k /\ ((k - m) + 1) - 1 = k - m
              /\ k - (m - 1) = (k - m) + 1
          BY <2>1
        <4>2. given[(k - m) + 1] = given[k - m] + payouts[(k - m) + 1].amount
          BY <2>5, <4>1
        <4>3. payouts[(k - m) + 1].amount \in Nat /\ given[k - m] \in Nat
              /\ given[(k - m) + 1] <= total
          BY <2>3, <2>5, <3>2, <4>1
        <4>4. given[k - m] <= total
          BY <4>2, <4>3
        <4> QED BY <2>1, <4>4
      <3>3. \A m \in 0 .. k : m \in T
        <4> HIDE DEF T
        <4> QED BY <2>1, <3>1, <3>2, IndexSetInduction
      <3>4. ASSUME NEW n \in 0 .. k PROVE given[n] <= total
        <4>1. k - n \in 0 .. k /\ k - (k - n) = n
          BY <2>1
        <4> QED BY <3>3, <4>1
      <3> QED BY <3>4
    <2> DEFINE Room == /\ base.ok
                       /\ Total(base.ledger.balances) + total <= U64_MAX
                       /\ \A a \in Address : base.ledger.relay_credits[a] + total <= U64_MAX
               P(n) == /\ run[n].ledger.next_nonce = base.ledger.next_nonce
                       /\ run[n].ledger.current_supply = base.ledger.current_supply
                       /\ run[n].ledger.dag_tx_count = base.ledger.dag_tx_count
                       /\ run[n].ok =>
                            /\ base.ok
                            /\ Total(run[n].ledger.balances)
                                 = Total(base.ledger.balances) + given[n]
                            /\ \A a \in Address : run[n].ledger.relay_credits[a]
                                           <= base.ledger.relay_credits[a] + given[n]
                       /\ Room => run[n].ok
               T == {n \in 0 .. k : P(n)}
    <2>7. 0 \in T
      BY <1>0, <1>b, <2>1, <2>4, <2>5
    <2>8. ASSUME NEW n \in 1 .. k, n - 1 \in T PROVE n \in T
      <3> DEFINE m == run[n - 1]
                 p == payouts[n]
      <3>1. /\ n - 1 \in 0 .. k /\ n \in 0 .. k /\ m \in Mints /\ run[n] = CreditRelay(m, p)
            /\ p.to \in Address /\ p.amount \in Nat
            /\ given[n] = given[n - 1] + p.amount
            /\ given[n] \in Nat /\ given[n - 1] \in Nat
            /\ given[n] <= total
        BY <2>1, <2>3, <2>4, <2>5, <2>6
      <3>2. P(n - 1)
        BY <2>8
      <3> HIDE DEF m, p
      <3>3. /\ run[n].ledger.next_nonce = m.ledger.next_nonce
            /\ run[n].ledger.current_supply = m.ledger.current_supply
            /\ run[n].ledger.dag_tx_count = m.ledger.dag_tx_count
            /\ run[n].ok =>
                 /\ m.ok
                 /\ Total(run[n].ledger.balances) = Total(m.ledger.balances) + p.amount
                 /\ \A a \in Address : run[n].ledger.relay_credits[a]
                                         <= m.ledger.relay_credits[a] + p.amount
            /\ /\ m.ok
               /\ m.ledger.balances[p.to] + p.amount <= U64_MAX
               /\ m.ledger.relay_credits[p.to] + p.amount <= U64_MAX
               => run[n].ok
        BY <3>1, CreditRelayFacts
      <3>4. /\ m.ledger \in Ledgers /\ run[n].ledger \in Ledgers
        BY <2>4, <3>1 DEF Mints
      <3>5. /\ m.ledger.balances[p.to] \in Nat
            /\ m.ledger.balances[p.to] <= Total(m.ledger.balances)
            /\ Total(m.ledger.balances) \in Nat
        BY <1>0, <3>1, <3>4, LedgerFields
      <3>c. /\ \A a \in Address : m.ledger.relay_credits[a] \in Nat
            /\ \A a \in Address : run[n].ledger.relay_credits[a] \in Nat
            /\ \A a \in Address : base.ledger.relay_credits[a] \in Nat
        <4>1. /\ m.ledger.relay_credits \in [Address -> 0 .. U64_MAX]
              /\ run[n].ledger.relay_credits \in [Address -> 0 .. U64_MAX]
          BY <3>4, LedgerFields
        <4> QED BY <1>0, <1>b, <4>1
      <3>6. ASSUME run[n].ok
            PROVE  /\ base.ok
                   /\ Total(run[n].ledger.balances) = Total(base.ledger.balances) + given[n]
                   /\ \A a \in Address : run[n].ledger.relay_credits[a]
                                           <= base.ledger.relay_credits[a] + given[n]
        <4>1. /\ m.ok /\ base.ok
              /\ Total(m.ledger.balances) = Total(base.ledger.balances) + given[n - 1]
              /\ \A a \in Address : m.ledger.relay_credits[a]
                                       <= base.ledger.relay_credits[a] + given[n - 1]
              /\ Total(run[n].ledger.balances) = Total(m.ledger.balances) + p.amount
              /\ \A a \in Address : run[n].ledger.relay_credits[a]
                                         <= m.ledger.relay_credits[a] + p.amount
          BY <3>2, <3>3, <3>6 DEF m
        <4>2. Total(run[n].ledger.balances) = Total(base.ledger.balances) + given[n]
          BY <1>b, <3>1, <4>1
        <4>3. ASSUME NEW a \in Address
              PROVE  run[n].ledger.relay_credits[a] <= base.ledger.relay_credits[a] + given[n]
          <5> DEFINE before == base.ledger.relay_credits[a]
                     between == m.ledger.relay_credits[a]
                     after == run[n].ledger.relay_credits[a]
                     upTo == given[n]
                     sofar == given[n - 1]
                     part == p.amount
          <5>1. between \in Nat /\ after \in Nat /\ before \in Nat
            BY <3>c
          <5>2. between <= before + sofar /\ after <= between + part
            BY <4>1
          <5>3. upTo = sofar + part /\ part \in Nat /\ upTo \in Nat /\ sofar \in Nat
            BY <3>1
          <5>4. after <= before + upTo
            <6> HIDE DEF before, between, after, upTo, sofar, part
            <6> QED BY <5>1, <5>2, <5>3
          <5> QED BY <5>4
        <4> QED BY <4>1, <4>2, <4>3
      <3>7. ASSUME Room PROVE run[n].ok
        <4>1. /\ m.ok
              /\ Total(m.ledger.balances) = Total(base.ledger.balances) + given[n - 1]
              /\ m.ledger.relay_credits[p.to] <= base.ledger.relay_credits[p.to] + given[n - 1]
          BY <3>1, <3>2, <3>7 DEF m
        <4>2. /\ Total(base.ledger.balances) + total <= U64_MAX
              /\ base.ledger.relay_credits[p.to] + total <= U64_MAX
          BY <3>1, <3>7
        <4>3. m.ledger.balances[p.to] + p.amount <= U64_MAX
          <5>1. Total(base.ledger.balances) + given[n] <= U64_MAX
            BY <1>0, <1>b, <3>1, <4>2
          <5>2. Total(m.ledger.balances) + p.amount = Total(base.ledger.balances) + given[n]
            BY <1>b, <3>1, <4>1
          <5> QED BY <1>0, <3>1, <3>5, <5>1, <5>2
        <4>4. /\ m.ledger.relay_credits[p.to] \in Nat
              /\ base.ledger.relay_credits[p.to] \in Nat
          BY <3>1, <3>c
        <4>5. m.ledger.relay_credits[p.to] + p.amount <= U64_MAX
          <5> DEFINE before == base.ledger.relay_credits[p.to]
                     between == m.ledger.relay_credits[p.to]
                     upTo == given[n]
                     sofar == given[n - 1]
                     part == p.amount
          <5>1. between \in Nat /\ before \in Nat
            BY <4>4
          <5>2. between <= before + sofar /\ before + total <= U64_MAX
            BY <4>1, <4>2
          <5>3. /\ upTo = sofar + part /\ part \in Nat /\ upTo \in Nat /\ sofar \in Nat
                /\ upTo <= total /\ total \in Nat /\ U64_MAX \in Nat
            BY <1>0, <3>1
          <5>4. between + part <= U64_MAX
            <6> HIDE DEF before, between, upTo, sofar, part
            <6> QED BY <5>1, <5>2, <5>3
          <5> QED BY <5>4
        <4> QED BY <3>3, <4>1, <4>3, <4>5
      <3>8. /\ run[n].ledger.next_nonce = base.ledger.next_nonce
            /\ run[n].ledger.current_supply = base.ledger.current_supply
            /\ run[n].ledger.dag_tx_count = base.ledger.dag_tx_count
        BY <3>2, <3>3 DEF m
      <3>9. P(n)
        <4> HIDE DEF Room
        <4> QED BY <3>6, <3>7, <3>8
      <3> QED BY <3>1, <3>9
    <2>9. \A n \in 0 .. k : n \in T
      <3> HIDE DEF T
      <3> QED BY <2>1, <2>7, <2>8, IndexSetInduction
    <2>10. P(k) /\ run[k] \in Mints /\ r = run[k] /\ paid = total /\ given[k] = total
      BY <1>2, <2>1, <2>4, <2>5, <2>9 DEF payouts
    <2> QED BY <2>10
  <1> QED BY <1>1, <1>2

(* A mint hands out exactly (subsidy + fee), grows the supply by the        *)
(* subsidy and counts one vertex; it fails only for lack of 64-bit room.    *)
LEMMA MintFacts ==
    ASSUME NEW L \in Ledgers, NEW fee \in Nat, NEW miner \in Address,
           NEW relays \in Seq(Address),
           NEW subsidy, subsidy = get_current_tx_subsidy(L.dag_tx_count, L.current_supply),
           NEW r, r = mint_confirmed_tx(L, fee, miner, relays)
    PROVE  /\ r \in Mints
           /\ r.ledger.next_nonce = L.next_nonce
           /\ r.ok => /\ Total(r.ledger.balances) = Total(L.balances) + (subsidy + fee)
                      /\ r.ledger.current_supply = L.current_supply + subsidy
                      /\ r.ledger.dag_tx_count = L.dag_tx_count + 1
                      /\ \A a \in Address : r.ledger.relay_credits[a]
                                              <= L.relay_credits[a] + (subsidy + fee)
           /\ /\ Total(L.balances) + (subsidy + fee) <= U64_MAX
              /\ \A a \in Address : L.relay_credits[a] + (subsidy + fee) <= U64_MAX
              => r.ok
  <1> DEFINE pool  == subsidy + fee
             total == dag_relay_total_of(pool)
             share == MinerPayout(relays, pool)
             start == [ok |-> TRUE, ledger |-> L]
             first == CreditMiner(start, miner, share)
             paid  == FoldLeft(CreditRelay, first, RelayPayouts(relays, total))
             rest  == IF relays = <<>> THEN 0 ELSE total
  <1>0. U64_MAX \in Nat
    BY EconomicsAssumption
  <1>l. /\ L.current_supply \in 0 .. HARD_CAP /\ L.dag_tx_count \in Nat
        /\ Total(L.balances) \in Nat
        /\ L.relay_credits \in [Address -> 0 .. U64_MAX]
        /\ \A a \in Address : L.balances[a] <= Total(L.balances) /\ L.balances[a] \in Nat
    BY LedgerFields
  <1>s. subsidy \in Nat /\ L.current_supply + subsidy \in 0 .. HARD_CAP
    BY <1>l, SubsidyBound
  <1>p. pool \in Nat
    BY <1>s
  <1>1. r = IF pool > U64_MAX THEN [start EXCEPT !.ok = FALSE]
            ELSE IF ~paid.ok THEN paid
            ELSE [paid EXCEPT !.ledger.current_supply = @ + subsidy,
                              !.ledger.dag_tx_count = @ + 1]
    BY DEF mint_confirmed_tx
  <1>2. start \in Mints /\ start.ok /\ start.ledger = L
    BY DEF Mints
  <1> HIDE DEF pool
  <1>3. dag_miner_share_of(pool) \in Nat /\ total \in Nat
        /\ dag_miner_share_of(pool) + total = pool
    BY <1>p, SplitOfPool
  <1>4. CASE pool > U64_MAX
    <2>1. r = [start EXCEPT !.ok = FALSE]
      BY <1>1, <1>4
    <2>2. r \in Mints /\ r.ledger = L /\ r.ok = FALSE
      BY <1>2, <2>1 DEF Mints
    <2>3. ~(Total(L.balances) + pool <= U64_MAX)
      BY <1>0, <1>l, <1>p, <1>4
    <2> QED BY <2>2, <2>3 DEF pool
  <1>5. CASE ~(pool > U64_MAX)
    <2>1. share \in Nat /\ rest \in Nat /\ share + rest = pool
      <3>1. CASE relays = <<>>
        BY <1>0, <1>3, <1>5, <1>p, <3>1 DEF MinerPayout, SaturatingAdd
      <3>2. CASE relays # <<>>
        BY <1>3, <3>2 DEF MinerPayout
      <3> QED BY <3>1, <3>2
    <2> HIDE DEF share, start
    <2>2. /\ first \in Mints
          /\ first.ledger.next_nonce = L.next_nonce
          /\ first.ledger.current_supply = L.current_supply
          /\ first.ledger.dag_tx_count = L.dag_tx_count
          /\ first.ledger.relay_credits = L.relay_credits
          /\ first.ok => Total(first.ledger.balances) = Total(L.balances) + share
          /\ L.balances[miner] + share <= U64_MAX => first.ok
      BY <1>2, <2>1, CreditMinerFacts
    <2> HIDE DEF first, total, rest
    <2>3. /\ paid \in Mints
          /\ paid.ledger.next_nonce = first.ledger.next_nonce
          /\ paid.ledger.current_supply = first.ledger.current_supply
          /\ paid.ledger.dag_tx_count = first.ledger.dag_tx_count
          /\ paid.ok => /\ first.ok
                        /\ Total(paid.ledger.balances) = Total(first.ledger.balances) + rest
                        /\ \A a \in Address : paid.ledger.relay_credits[a]
                                                <= first.ledger.relay_credits[a] + rest
          /\ /\ first.ok
             /\ Total(first.ledger.balances) + rest <= U64_MAX
             /\ \A a \in Address : first.ledger.relay_credits[a] + rest <= U64_MAX
             => paid.ok
      <3>1. total \in Nat /\ rest = IF relays = <<>> THEN 0 ELSE total
        BY <1>3 DEF total, rest
      <3>2. paid = FoldLeft(CreditRelay, first, RelayPayouts(relays, total))
        OBVIOUS
      <3> HIDE DEF paid
      <3>3. first \in Mints
        BY <2>2
      <3> QED BY <3>1, <3>2, <3>3, RelaysPaid
    <2> HIDE DEF paid
    <2>4. /\ paid.ledger \in Ledgers /\ paid.ok \in BOOLEAN
          /\ paid.ledger.current_supply = L.current_supply
          /\ paid.ledger.dag_tx_count = L.dag_tx_count
          /\ paid.ledger.next_nonce = L.next_nonce
          /\ paid.ledger.relay_credits \in [Address -> 0 .. U64_MAX]
      <3>1. paid.ledger \in Ledgers /\ paid.ok \in BOOLEAN
        BY <2>3 DEF Mints
      <3> QED BY <2>2, <2>3, <3>1, LedgerFields
    <2>5. ASSUME Total(L.balances) + pool <= U64_MAX,
                 \A a \in Address : L.relay_credits[a] + pool <= U64_MAX
          PROVE  paid.ok
      <3>1. first.ok
        <4>1. L.balances[miner] \in Nat /\ L.balances[miner] <= Total(L.balances)
          BY <1>l
        <4> QED BY <1>0, <1>l, <2>1, <2>2, <2>5, <4>1
      <3>2. Total(first.ledger.balances) + rest <= U64_MAX
        BY <1>0, <1>l, <2>1, <2>2, <2>5, <3>1
      <3>3. ASSUME NEW a \in Address PROVE first.ledger.relay_credits[a] + rest <= U64_MAX
        <4>1. L.relay_credits[a] + pool <= U64_MAX /\ L.relay_credits[a] \in Nat
          BY <1>0, <1>l, <2>5
        <4>2. first.ledger.relay_credits[a] = L.relay_credits[a]
          BY <2>2
        <4> QED BY <1>0, <2>1, <4>1, <4>2
      <3> QED BY <2>3, <3>1, <3>2, <3>3
    <2>6. ASSUME paid.ok
          PROVE  /\ Total(paid.ledger.balances) = Total(L.balances) + pool
                 /\ \A a \in Address : paid.ledger.relay_credits[a]
                                         <= L.relay_credits[a] + pool
      <3>1. Total(paid.ledger.balances) = Total(L.balances) + pool
        BY <1>l, <2>1, <2>2, <2>3, <2>6
      <3>2. ASSUME NEW a \in Address
            PROVE  paid.ledger.relay_credits[a] <= L.relay_credits[a] + pool
        <4>1. paid.ledger.relay_credits[a] <= first.ledger.relay_credits[a] + rest
          BY <2>3, <2>6
        <4>2. first.ledger.relay_credits[a] = L.relay_credits[a] /\ L.relay_credits[a] \in Nat
              /\ paid.ledger.relay_credits[a] \in Nat
          BY <1>0, <1>l, <2>2, <2>4
        <4> QED BY <2>1, <4>1, <4>2
      <3> QED BY <3>1, <3>2
    <2>7. CASE ~paid.ok
      <3>1. r = paid
        BY <1>1, <1>5, <2>7
      <3> QED BY <2>3, <2>4, <2>5, <2>7, <3>1 DEF pool
    <2>8. CASE paid.ok
      <3> DEFINE P == paid.ledger
                 grown == [[P EXCEPT !.current_supply = P.current_supply + subsidy]
                              EXCEPT !.dag_tx_count = P.dag_tx_count + 1]
      <3>1. r = [paid EXCEPT !.ledger = grown]
        BY <1>1, <1>5, <2>3, <2>4, <2>8 DEF Mints, Ledgers
      <3> HIDE DEF P
      <3>2. /\ P \in Ledgers
            /\ P.current_supply + subsidy \in 0 .. HARD_CAP
            /\ P.dag_tx_count + 1 \in Nat
        BY <1>l, <1>s, <2>4 DEF P
      <3>3. /\ grown \in Ledgers
            /\ grown.balances = P.balances /\ grown.next_nonce = P.next_nonce
            /\ grown.relay_credits = P.relay_credits
            /\ grown.current_supply = P.current_supply + subsidy
            /\ grown.dag_tx_count = P.dag_tx_count + 1
        BY <3>2 DEF Ledgers
      <3> HIDE DEF grown
      <3>4. r \in Mints /\ r.ledger = grown /\ r.ok
        BY <2>3, <2>8, <3>1, <3>3 DEF Mints
      <3>5. r.ledger.next_nonce = L.next_nonce
        BY <2>4, <3>3, <3>4 DEF P
      <3>6. /\ Total(r.ledger.balances) = Total(L.balances) + pool
            /\ \A a \in Address : r.ledger.relay_credits[a] <= L.relay_credits[a] + pool
        BY <2>6, <2>8, <3>3, <3>4 DEF P
      <3>7. /\ r.ledger.current_supply = L.current_supply + subsidy
            /\ r.ledger.dag_tx_count = L.dag_tx_count + 1
        BY <2>4, <3>3, <3>4 DEF P
      <3> QED BY <3>4, <3>5, <3>6, <3>7 DEF pool
    <2> QED BY <2>7, <2>8
  <1> QED BY <1>4, <1>5

-----------------------------------------------------------------------------
(* What every ledger of a replica satisfies.                               *)

(* The schedule, started from nothing, is defined for every count and never *)
(* passes the cap.                                                          *)
LEMMA EmissionSchedule ==
    /\ emitted[0] = 0
    /\ \A n \in Nat : /\ emitted[n] \in 0 .. HARD_CAP
                      /\ emitted[n + 1] = emitted[n] + get_current_tx_subsidy(n, emitted[n])
  <1> DEFINE V == 0 .. HARD_CAP
             Eq(g) == g = [n \in Nat |->
                             IF n = 0 THEN 0
                             ELSE g[n - 1] + get_current_tx_subsidy(n - 1, g[n - 1])]
             step  == [p \in Nat \X V |-> p[2] + get_current_tx_subsidy(p[1], p[2])]
             sched == CHOOSE g : Eq(g)
  <1>1. 0 \in V
    BY EconomicsAssumption
  <1>2. \A p \in Nat \X V : step[p] \in V
    BY SubsidyBound
  <1>3. \A n \in Nat : \A x \in V : step[<<n, x>>] = x + get_current_tx_subsidy(n, x)
    OBVIOUS
  <1>4. \A n \in Nat : \A x \in V : x + get_current_tx_subsidy(n, x) \in V
    BY SubsidyBound
  <1> HIDE DEF step, V
  <1>5. PICK f : IsRecursion(V, 0, step, f)
    BY <1>1, <1>2, NatRecursion
  <1>6. Eq(f)
    <2>1. ASSUME NEW n \in Nat
          PROVE  f[n] = IF n = 0 THEN 0
                        ELSE f[n - 1] + get_current_tx_subsidy(n - 1, f[n - 1])
      <3>1. CASE n = 0
        BY <1>5, <3>1 DEF IsRecursion
      <3>2. CASE n # 0
        <4>1. n - 1 \in Nat /\ (n - 1) + 1 = n
          BY <3>2
        <4>2. f[n - 1] \in V /\ f[(n - 1) + 1] = step[<<n - 1, f[n - 1]>>]
          BY <1>5, <4>1 DEF IsRecursion
        <4> QED BY <1>3, <3>2, <4>1, <4>2
      <3> QED BY <3>1, <3>2
    <2>2. f = [n \in Nat |-> f[n]]
      BY <1>5 DEF IsRecursion
    <2> QED BY <2>1, <2>2, Zenon
  <1>7. Eq(sched)
    <2>1. \E g : Eq(g)
      <3> HIDE DEF Eq
      <3> QED BY <1>6
    <2> HIDE DEF Eq
    <2> QED BY <2>1
  <1>8. emitted = sched
    BY DEF emitted
  <1>9. \A n \in Nat :
          emitted[n] = IF n = 0 THEN 0
                       ELSE emitted[n - 1] + get_current_tx_subsidy(n - 1, emitted[n - 1])
    BY <1>7, <1>8, Zenon
  <1>10. emitted[0] = 0
    BY <1>9
  <1>11. ASSUME NEW n \in Nat
         PROVE  emitted[n + 1] = emitted[n] + get_current_tx_subsidy(n, emitted[n])
    <2>1. n + 1 \in Nat /\ n + 1 # 0 /\ (n + 1) - 1 = n
      OBVIOUS
    <2> QED BY <1>9, <2>1
  <1>12. \A n \in Nat : emitted[n] \in V
    <2> DEFINE T == {n \in Nat : emitted[n] \in V}
    <2>1. 0 \in T
      BY <1>1, <1>10
    <2>2. ASSUME NEW n \in Nat, n \in T PROVE n + 1 \in T
      BY <1>4, <1>11, <2>2
    <2>3. \A n \in Nat : n \in T
      <3> HIDE DEF T
      <3> QED BY <2>1, <2>2, NatSetInduction
    <2> QED BY <2>3
  <1> QED BY <1>10, <1>11, <1>12 DEF V

PoolBound == INITIAL_TX_SUBSIDY + FIXED_TRANSACTION_FEE

(* Accounts hold what was credited and minted, the supply is that of the    *)
(* schedule, and relay income and nonces are bounded by the vertices        *)
(* counted.                                                                 *)
LedgerOK(L, faucet) ==
    /\ L \in Ledgers
    /\ Total(L.balances) = Total(faucet) + L.current_supply
    /\ L.current_supply = emitted[L.dag_tx_count]
    /\ \A a \in Address : /\ L.relay_credits[a] <= L.dag_tx_count * PoolBound
                          /\ L.next_nonce[a] <= L.dag_tx_count + 1

(* 64 bits hold the faucet next to the cap, and the relay income and nonces *)
(* of n vertices.                                                           *)
RoomFor(faucet, n) ==
    /\ faucet \in [Address -> 0 .. U64_MAX]
    /\ Total(faucet) + HARD_CAP <= U64_MAX
    /\ n * PoolBound <= U64_MAX
    /\ n + 1 <= U64_MAX

(* The ledger a rebuild starts from conserves units: nothing is minted yet. *)
LEMMA BaselineLedgerOK ==
    ASSUME NEW faucet \in [Address -> 0 .. U64_MAX]
    PROVE  LedgerOK(BaselineLedger(faucet), faucet)
  <1> DEFINE L == BaselineLedger(faucet)
  <1>1. L \in Ledgers
    BY BaselineTyped
  <1>2. /\ L.balances = faucet /\ L.current_supply = 0 /\ L.dag_tx_count = 0
        /\ \A a \in Address : L.relay_credits[a] = 0 /\ L.next_nonce[a] = 0
    BY DEF BaselineLedger
  <1> HIDE DEF L
  <1>3. Total(faucet) \in Nat
    BY <1>1, <1>2, LedgerFields
  <1>4. PoolBound \in Nat
    BY EconomicsAssumption DEF PoolBound
  <1>5. Total(L.balances) = Total(faucet) + L.current_supply
    BY <1>2, <1>3
  <1>6. L.current_supply = emitted[L.dag_tx_count]
    BY <1>2, EmissionSchedule
  <1>7. \A a \in Address : /\ L.relay_credits[a] <= L.dag_tx_count * PoolBound
                           /\ L.next_nonce[a] <= L.dag_tx_count + 1
    <2>1. 0 * PoolBound = 0
      BY <1>4
    <2> QED BY <1>2, <2>1
  <1> QED BY <1>1, <1>5, <1>6, <1>7 DEF LedgerOK, L

(* Applying a vertex leaves the ledger alone, or spends the next nonce of   *)
(* its sender and counts it.  Only an amount beyond 64 bits overflows.      *)
IsEffect(faucet, L, t, r) ==
    /\ LedgerOK(r.ledger, faucet)
    /\ r.verdict \in {"Ok", "DoubleSpend", "InsufficientBalance", "Overflow"}
    /\ r.verdict = "Ok" <=> SpendVerdict(L, t) = "Ok"
    /\ r.verdict # "Ok" => r.ledger = L
    /\ r.verdict = "Overflow" => t.amount + FIXED_TRANSACTION_FEE > U64_MAX
    /\ r.verdict = "Ok" =>
          /\ t.nonce = L.next_nonce[t.sender]
          /\ r.ledger.next_nonce = [L.next_nonce EXCEPT ![t.sender] = @ + 1]
          /\ r.ledger.dag_tx_count = L.dag_tx_count + 1

(* One more of a kind.                                                      *)
LEMMA NextMultiple ==
    ASSUME NEW a \in Nat, NEW b \in Nat
    PROVE  (a + 1) * b = a * b + b /\ a * b \in Nat
  OBVIOUS

(* apply_ledger_effects has such an effect.                                 *)
LEMMA EffectsFacts ==
    ASSUME NEW faucet, NEW L, LedgerOK(L, faucet),
           NEW t, IsTransaction(t), ~is_genesis(t),
           RoomFor(faucet, L.dag_tx_count + 1),
           NEW r, r = apply_ledger_effects(L, t)
    PROVE  IsEffect(faucet, L, t, r)
  <1> DEFINE verdict == SpendVerdict(L, t)
             S == Spend(L, t)
             fee == Fee(t)
             minted == mint_confirmed_tx(S, fee, t.sender, t.relays)
             subsidy == get_current_tx_subsidy(L.dag_tx_count, L.current_supply)
             n == L.dag_tx_count
             pools == n * PoolBound
  <1>0. /\ U64_MAX \in Nat /\ HARD_CAP \in Nat /\ FIXED_TRANSACTION_FEE \in Nat
        /\ INITIAL_TX_SUBSIDY \in Nat /\ PoolBound \in Nat
        /\ PoolBound = INITIAL_TX_SUBSIDY + FIXED_TRANSACTION_FEE
    BY EconomicsAssumption DEF PoolBound
  <1>1. fee = FIXED_TRANSACTION_FEE
    BY DEF Fee
  <1>2. /\ t.sender \in Address /\ t.recipient \in Address
        /\ t.amount \in Nat /\ t.nonce \in Nat /\ t.relays \in Seq(Address)
    BY DEF IsTransaction
  <1>3. L \in Ledgers
    BY DEF LedgerOK
  <1>4. /\ L.balances \in [Address -> 0 .. U64_MAX] /\ L.balances \in [Address -> Nat]
        /\ L.next_nonce \in [Address -> 0 .. U64_MAX]
        /\ L.relay_credits \in [Address -> 0 .. U64_MAX]
        /\ L.current_supply \in 0 .. HARD_CAP
        /\ n \in Nat
        /\ Total(L.balances) \in Nat
    BY <1>3, LedgerFields
  <1>5. /\ subsidy \in 0 .. INITIAL_TX_SUBSIDY
        /\ L.current_supply + subsidy \in 0 .. HARD_CAP
    BY <1>4, SubsidyBound
  <1>f. Total(faucet) \in Nat /\ Total(faucet) + HARD_CAP <= U64_MAX
        /\ (n + 1) * PoolBound <= U64_MAX /\ n + 2 <= U64_MAX
    <2>1. /\ faucet \in [Address -> Nat]
          /\ Total(faucet) + HARD_CAP <= U64_MAX
          /\ (n + 1) * PoolBound <= U64_MAX /\ n + 1 + 1 <= U64_MAX
      BY <1>0 DEF RoomFor
    <2> QED BY <1>4, <2>1, TotalBounds, 0 \in Nat
  <1>p. (n + 1) * PoolBound = pools + PoolBound /\ pools \in Nat
    BY <1>0, <1>4, NextMultiple
  <1>l. /\ Total(L.balances) = Total(faucet) + L.current_supply
        /\ L.current_supply = emitted[n]
        /\ \A a \in Address : /\ L.relay_credits[a] <= pools
                              /\ L.next_nonce[a] <= n + 1
    BY DEF LedgerOK
  <1>d. r = IF verdict # "Ok" THEN [verdict |-> verdict, ledger |-> L]
            ELSE [verdict |-> IF minted.ok THEN "Ok" ELSE "Overflow",
                  ledger  |-> minted.ledger]
    BY DEF apply_ledger_effects
  <1>v. /\ verdict \in {"Ok", "DoubleSpend", "InsufficientBalance", "Overflow"}
        /\ verdict = "Overflow" => t.amount + FIXED_TRANSACTION_FEE > U64_MAX
    <2>1. CASE t.amount + fee > U64_MAX
      BY <1>1, <2>1 DEF SpendVerdict
    <2>2. CASE ~(t.amount + fee > U64_MAX)
      <3>1. /\ L.balances[t.sender] \in Nat /\ L.balances[t.recipient] \in Nat
            /\ Total(L.balances) <= U64_MAX
        <4>1. L.current_supply \in Nat /\ L.current_supply <= HARD_CAP
          BY <1>0, <1>4
        <4>2. Total(L.balances) <= U64_MAX
          BY <1>0, <1>f, <1>l, <4>1
        <4> QED BY <1>2, <1>4, <4>2
      <3>2. t.sender # t.recipient =>
              L.balances[t.sender] + L.balances[t.recipient] <= Total(L.balances)
        BY <1>2, <1>4, TotalOfTwo
      <3>3. ~(L.balances[t.sender] < t.amount + fee) /\ t.sender # t.recipient
              => ~(L.balances[t.recipient] + t.amount > U64_MAX)
        BY <1>0, <1>1, <1>2, <1>4, <3>1, <3>2
      <3> QED BY <2>2, <3>3 DEF SpendVerdict
    <2> QED BY <2>1, <2>2
  <1> HIDE DEF verdict, minted, n, pools
  <1>6. CASE verdict # "Ok"
    <2>1. r.verdict = verdict /\ r.ledger = L
      BY <1>d, <1>6
    <2> QED BY <1>6, <1>v, <2>1 DEF verdict, IsEffect
  <1>7. CASE verdict = "Ok"
    <2>1. /\ S \in Ledgers
          /\ fee \in Nat /\ fee <= Total(L.balances)
          /\ Total(S.balances) = Total(L.balances) - fee
          /\ t.nonce = L.next_nonce[t.sender]
          /\ S.next_nonce = [L.next_nonce EXCEPT ![t.sender] = SaturatingAdd(@, 1)]
          /\ S.current_supply = L.current_supply
          /\ S.dag_tx_count = n
          /\ S.relay_credits = L.relay_credits
      <3>1. SpendVerdict(L, t) = "Ok" /\ n = L.dag_tx_count
        BY <1>7 DEF verdict, n
      <3> QED BY <1>3, <3>1, SpendFacts
    <2> HIDE DEF S, fee
    <2>2. subsidy = get_current_tx_subsidy(S.dag_tx_count, S.current_supply)
      BY <2>1 DEF n
    <2> HIDE DEF subsidy
    <2>3. /\ minted \in Mints
          /\ minted.ledger.next_nonce = S.next_nonce
          /\ minted.ok =>
                /\ Total(minted.ledger.balances) = Total(S.balances) + (subsidy + fee)
                /\ minted.ledger.current_supply = S.current_supply + subsidy
                /\ minted.ledger.dag_tx_count = S.dag_tx_count + 1
                /\ \A a \in Address : minted.ledger.relay_credits[a]
                                        <= S.relay_credits[a] + (subsidy + fee)
          /\ /\ Total(S.balances) + (subsidy + fee) <= U64_MAX
             /\ \A a \in Address : S.relay_credits[a] + (subsidy + fee) <= U64_MAX
             => minted.ok
      BY <1>2, <2>1, <2>2, MintFacts DEF minted
    <2>4. Total(S.balances) + (subsidy + fee) = Total(faucet) + (L.current_supply + subsidy)
      BY <1>4, <1>5, <1>f, <1>l, <2>1
    <2>5. minted.ok
      <3>1. Total(S.balances) + (subsidy + fee) <= U64_MAX
        BY <1>0, <1>5, <1>f, <2>4
      <3>2. ASSUME NEW a \in Address PROVE S.relay_credits[a] + (subsidy + fee) <= U64_MAX
        <4>1. S.relay_credits[a] \in Nat /\ S.relay_credits[a] <= pools
          BY <1>0, <1>4, <1>l, <2>1
        <4>2. pools + PoolBound <= U64_MAX
          BY <1>f, <1>p
        <4> QED BY <1>0, <1>1, <1>5, <1>p, <2>1, <4>1, <4>2
      <3> QED BY <2>3, <3>1, <3>2
    <2>6. r.verdict = "Ok" /\ r.ledger = minted.ledger
      BY <1>d, <1>7, <2>5
    <2>7. S.next_nonce = [L.next_nonce EXCEPT ![t.sender] = @ + 1]
      <3>1. SaturatingAdd(L.next_nonce[t.sender], 1) = L.next_nonce[t.sender] + 1
        <4>1. L.next_nonce[t.sender] \in Nat /\ L.next_nonce[t.sender] <= n + 1
          BY <1>0, <1>2, <1>4, <1>l
        <4> QED BY <1>0, <1>4, <1>f, <4>1 DEF SaturatingAdd
      <3> QED BY <2>1, <3>1
    <2>8. LedgerOK(minted.ledger, faucet)
      <3> DEFINE M == minted.ledger
      <3>1. M \in Ledgers
        BY <2>3 DEF Mints
      <3>2. /\ M.dag_tx_count = n + 1
            /\ M.current_supply = L.current_supply + subsidy
            /\ Total(M.balances) = Total(faucet) + M.current_supply
        BY <2>1, <2>3, <2>4, <2>5
      <3>3. M.current_supply = emitted[M.dag_tx_count]
        <4>1. emitted[n + 1] = emitted[n] + get_current_tx_subsidy(n, emitted[n])
          BY <1>4, EmissionSchedule
        <4>2. subsidy = get_current_tx_subsidy(n, emitted[n])
          BY <1>l DEF subsidy, n
        <4> QED BY <1>l, <3>2, <4>1, <4>2
      <3>4. ASSUME NEW a \in Address
            PROVE  /\ M.relay_credits[a] <= M.dag_tx_count * PoolBound
                   /\ M.next_nonce[a] <= M.dag_tx_count + 1
        <4>1. M.relay_credits[a] \in Nat
          <5>1. M.relay_credits \in [Address -> 0 .. U64_MAX]
            BY <3>1, LedgerFields
          <5> QED BY <1>0, <5>1
        <4>2. /\ M.relay_credits[a] <= S.relay_credits[a] + (subsidy + fee)
              /\ S.relay_credits[a] \in Nat /\ S.relay_credits[a] <= pools
          BY <1>0, <1>4, <1>l, <2>1, <2>3, <2>5
        <4>3. subsidy + fee <= PoolBound /\ subsidy + fee \in Nat
          BY <1>0, <1>1, <1>5, <2>1
        <4>4. M.relay_credits[a] <= pools + PoolBound
          BY <1>0, <1>p, <4>1, <4>2, <4>3
        <4>5. M.relay_credits[a] <= M.dag_tx_count * PoolBound
          BY <1>p, <3>2, <4>4
        <4>6. M.next_nonce[a] <= n + 2
          <5>1. M.next_nonce[a] = IF a = t.sender THEN L.next_nonce[a] + 1 ELSE L.next_nonce[a]
            BY <1>2, <1>4, <2>3, <2>7
          <5>2. L.next_nonce[a] \in Nat /\ L.next_nonce[a] <= n + 1
            BY <1>0, <1>4, <1>l
          <5> QED BY <1>4, <5>1, <5>2
        <4> QED BY <1>4, <3>2, <4>5, <4>6
      <3> HIDE DEF M
      <3> QED BY <3>1, <3>2, <3>3, <3>4 DEF LedgerOK, M
    <2> QED BY <1>7, <2>1, <2>3, <2>5, <2>6, <2>7, <2>8 DEF verdict, n, IsEffect
  <1> QED BY <1>6, <1>7

-----------------------------------------------------------------------------
(* A rebuild replays one vertex after the other.                           *)

IsReplayRun(faucet, txs, N, run) ==
    /\ run[0] = [ledger |-> BaselineLedger(faucet), rejected |-> {}, aborted |-> FALSE]
    /\ \A n \in 1 .. N : run[n] = ReplayStep(run[n - 1], txs[n])
    /\ Replay(faucet, txs) = run[N]

(* Every replay has such a run.                                             *)
LEMMA ReplayRun ==
    ASSUME NEW faucet, NEW txs, NEW N \in Nat, DOMAIN txs = 1 .. N
    PROVE  \E run : IsReplayRun(faucet, txs, N, run)
  <1> DEFINE base == [ledger |-> BaselineLedger(faucet), rejected |-> {}, aborted |-> FALSE]
             Eq(g, n) == g = [s \in SUBSET (1 .. n) |->
                                IF s = {} THEN base
                                ELSE ReplayStep(g[s \ {Max(s)}], txs[Max(s)])]
             T == {n \in Nat : \E g : Eq(g, n)}
  <1>1. 0 \in T
    <2> DEFINE g == [s \in SUBSET (1 .. 0) |-> base]
    <2>1. \A s \in SUBSET (1 .. 0) : s = {}
      OBVIOUS
    <2>2. Eq(g, 0)
      BY <2>1
    <2>3. \E j : Eq(j, 0)
      <3> HIDE DEF Eq, g
      <3> QED BY <2>2
    <2> HIDE DEF Eq
    <2> QED BY <2>3
  <1>2. ASSUME NEW n \in Nat, n \in T PROVE n + 1 \in T
    <2>1. PICK g : Eq(g, n)
      BY <1>2
    <2> DEFINE h == [s \in SUBSET (1 .. n + 1) |->
                        IF s = {} THEN base
                        ELSE ReplayStep(g[s \ {Max(s)}], txs[Max(s)])]
    <2>2. ASSUME NEW s \in SUBSET (1 .. n) PROVE h[s] = g[s]
      <3>1. s \in SUBSET (1 .. n + 1)
        OBVIOUS
      <3>2. g[s] = IF s = {} THEN base ELSE ReplayStep(g[s \ {Max(s)}], txs[Max(s)])
        BY <2>1
      <3> QED BY <3>1, <3>2
    <2>3. ASSUME NEW s \in SUBSET (1 .. n + 1), s # {}
          PROVE  s \ {Max(s)} \in SUBSET (1 .. n)
      BY <2>3, MaxOfNextIndices, MaxOfIndices
    <2>4. Eq(h, n + 1)
      <3>1. ASSUME NEW s \in SUBSET (1 .. n + 1)
            PROVE  h[s] = IF s = {} THEN base
                          ELSE ReplayStep(h[s \ {Max(s)}], txs[Max(s)])
        <4>1. CASE s = {}
          BY <4>1
        <4>2. CASE s # {}
          <5>1. h[s \ {Max(s)}] = g[s \ {Max(s)}]
            BY <4>2, <2>2, <2>3
          <5> QED BY <4>2, <5>1
        <4> QED BY <4>1, <4>2
      <3> QED BY <3>1, Zenon
    <2>5. \E j : Eq(j, n + 1)
      <3> HIDE DEF Eq, h
      <3> QED BY <2>4
    <2> HIDE DEF Eq
    <2> QED BY <2>5
  <1>3. \E g : Eq(g, N)
    <2>1. \A n \in Nat : n \in T
      <3> HIDE DEF T
      <3> QED BY <1>1, <1>2, NatSetInduction
    <2> QED BY <2>1
  <1> DEFINE iter == CHOOSE g : Eq(g, N)
  <1>4. Eq(iter, N)
    <2> HIDE DEF Eq
    <2> QED BY <1>3
  <1>5. Replay(faucet, txs) = iter[1 .. N]
    BY DEF Replay, FoldLeft, MapThenFoldSet
  <1> DEFINE run == [n \in 0 .. N |-> iter[1 .. n]]
  <1>6. \A s \in SUBSET (1 .. N) :
          iter[s] = IF s = {} THEN base ELSE ReplayStep(iter[s \ {Max(s)}], txs[Max(s)])
    BY <1>4, Zenon
  <1> HIDE DEF iter
  <1>7. run[0] = base
    <2>1. 1 .. 0 = {} /\ 0 \in 0 .. N
      OBVIOUS
    <2> QED BY <1>6, <2>1, Zenon
  <1>8. ASSUME NEW n \in 1 .. N PROVE run[n] = ReplayStep(run[n - 1], txs[n])
    <2>1. n \in 0 .. N /\ n - 1 \in 0 .. N /\ 1 .. n \in SUBSET (1 .. N)
      OBVIOUS
    <2>n. n \in Nat /\ n # 0
      OBVIOUS
    <2>2. 1 .. n # {} /\ Max(1 .. n) = n /\ (1 .. n) \ {n} = 1 .. n - 1
      BY <2>n, MaxOfPrefix
    <2> QED BY <1>6, <2>1, <2>2, Zenon
  <1>9. Replay(faucet, txs) = run[N]
    BY <1>5
  <1> HIDE DEF run
  <1> QED BY <1>7, <1>8, <1>9 DEF IsReplayRun

-----------------------------------------------------------------------------
(* What the ledger counts.                                                 *)

SpentBy(V, A, a) == {i \in A : V[i].sender = a}

(* A ledger that has applied the vertices A of V: it counts each, and the   *)
(* spends of a user carry the nonces below its next one, each once.         *)
LedgerCounts(L, V, A) ==
    /\ IsFiniteSet(A)
    /\ L.dag_tx_count = Cardinality(A)
    /\ \A a \in Users :
          /\ {V[i].nonce : i \in SpentBy(V, A, a)} = 0 .. L.next_nonce[a] - 1
          /\ Cardinality(SpentBy(V, A, a)) = L.next_nonce[a]

(* One more vertex, with the next nonce of its sender.                      *)
LEMMA CountOneMore ==
    ASSUME NEW L, NEW V, NEW A, LedgerCounts(L, V, A),
           L.next_nonce \in [Address -> Nat],
           NEW x, x \notin A, V[x].sender \in Address,
           V[x].nonce = L.next_nonce[V[x].sender],
           NEW M, M.next_nonce = [L.next_nonce EXCEPT ![V[x].sender] = @ + 1],
           M.dag_tx_count = L.dag_tx_count + 1
    PROVE  LedgerCounts(M, V, A \cup {x})
  <1> DEFINE s == V[x].sender
             B == A \cup {x}
  <1>1. IsFiniteSet(B) /\ Cardinality(B) = Cardinality(A) + 1
    BY FS_AddElement DEF LedgerCounts
  <1>2. ASSUME NEW a \in Users
        PROVE  /\ {V[i].nonce : i \in SpentBy(V, B, a)} = 0 .. M.next_nonce[a] - 1
               /\ Cardinality(SpentBy(V, B, a)) = M.next_nonce[a]
    <2> DEFINE spent == SpentBy(V, A, a)
               k == L.next_nonce[a]
    <2>1. {V[i].nonce : i \in spent} = 0 .. k - 1 /\ Cardinality(spent) = k /\ k \in Nat
      BY DEF LedgerCounts, Users
    <2>2. IsFiniteSet(spent) /\ x \notin spent
      <3>1. spent \subseteq A /\ x \notin spent
        BY DEF SpentBy
      <3> QED BY <3>1, FS_Subset DEF LedgerCounts
    <2>3. CASE a = s
      <3>1. SpentBy(V, B, a) = spent \cup {x} /\ M.next_nonce[a] = k + 1
        BY <2>3 DEF SpentBy, Users
      <3>2. Cardinality(spent \cup {x}) = k + 1
        BY <2>1, <2>2, FS_AddElement
      <3>3. {V[i].nonce : i \in spent \cup {x}} = {V[i].nonce : i \in spent} \cup {k}
        BY <2>3
      <3>4. (0 .. k - 1) \cup {k} = 0 .. (k + 1) - 1
        BY <2>1
      <3> QED BY <2>1, <3>1, <3>2, <3>3, <3>4
    <2>4. CASE a # s
      <3>1. SpentBy(V, B, a) = spent /\ M.next_nonce[a] = k
        BY <2>4 DEF SpentBy, Users
      <3> QED BY <2>1, <3>1
    <2> QED BY <2>3, <2>4
  <1> QED BY <1>1, <1>2 DEF LedgerCounts

(* Only the vertices counted matter.                                        *)
LEMMA CountSame ==
    ASSUME NEW L, NEW V, NEW A, NEW W, LedgerCounts(L, V, A), \A i \in A : V[i] = W[i],
           NEW M, M.next_nonce = L.next_nonce, M.dag_tx_count = L.dag_tx_count
    PROVE  LedgerCounts(M, W, A)
  <1>1. ASSUME NEW a \in Users
        PROVE  /\ {W[i].nonce : i \in SpentBy(W, A, a)} = 0 .. M.next_nonce[a] - 1
               /\ Cardinality(SpentBy(W, A, a)) = M.next_nonce[a]
    <2>1. SpentBy(W, A, a) = SpentBy(V, A, a)
      BY DEF SpentBy
    <2>2. {W[i].nonce : i \in SpentBy(W, A, a)} = {V[i].nonce : i \in SpentBy(V, A, a)}
      BY <2>1 DEF SpentBy
    <2> QED BY <2>1, <2>2 DEF LedgerCounts
  <1> QED BY <1>1 DEF LedgerCounts

(* Room for a number of vertices is room for fewer.                         *)
LEMMA RoomBelow ==
    ASSUME NEW faucet, NEW N \in Nat, RoomFor(faucet, N), NEW n \in 0 .. N
    PROVE  RoomFor(faucet, n)
  <1>1. PoolBound \in Nat /\ U64_MAX \in Nat
    BY EconomicsAssumption DEF PoolBound
  <1>2. N * PoolBound = n * PoolBound + (N - n) * PoolBound
    BY <1>1
  <1>3. (N - n) * PoolBound \in Nat /\ n * PoolBound \in Nat
    BY <1>1
  <1>4. N * PoolBound <= U64_MAX /\ N + 1 <= U64_MAX
    BY DEF RoomFor
  <1>5. n * PoolBound <= U64_MAX /\ n + 1 <= U64_MAX
    BY <1>1, <1>2, <1>3, <1>4
  <1> QED BY <1>5 DEF RoomFor

(* A rebuild: whatever it replays, and even when it aborts, the ledger it   *)
(* leaves conserves units; unless it aborts, the ledger counts what was     *)
(* replayed and not rejected.  Only an amount beyond 64 bits aborts it.     *)
IsReplayed(faucet, txs, N, V, r) ==
    /\ LedgerOK(r.ledger, faucet)
    /\ r.ledger.dag_tx_count <= N
    /\ r.rejected \subseteq {txs[n].id : n \in 1 .. N}
    /\ r.aborted => \E n \in 1 .. N : txs[n].amount + FIXED_TRANSACTION_FEE > U64_MAX
    /\ ~r.aborted => LedgerCounts(r.ledger, V, {txs[n].id : n \in 1 .. N} \ r.rejected)

(* A rebuild replays a list that repeats no vertex in this way.             *)
LEMMA ReplayFacts ==
    ASSUME NEW faucet, NEW N \in Nat, RoomFor(faucet, N),
           NEW V, NEW txs, DOMAIN txs = 1 .. N,
           \A n \in 1 .. N : /\ IsTransaction(txs[n]) /\ ~is_genesis(txs[n])
                             /\ V[txs[n].id] = txs[n],
           \A m, n \in 1 .. N : txs[m].id = txs[n].id => m = n,
           NEW r, r = Replay(faucet, txs)
    PROVE  IsReplayed(faucet, txs, N, V, r)
  <1>1. PICK run : IsReplayRun(faucet, txs, N, run)
    BY ReplayRun
  <1>2. /\ run[0] = [ledger |-> BaselineLedger(faucet), rejected |-> {}, aborted |-> FALSE]
        /\ \A n \in 1 .. N : run[n] = ReplayStep(run[n - 1], txs[n])
        /\ r = run[N]
    BY <1>1 DEF IsReplayRun
  <1> DEFINE Ids(n) == {txs[m].id : m \in 1 .. n}
             TooMuch == \E n \in 1 .. N : txs[n].amount + FIXED_TRANSACTION_FEE > U64_MAX
             P(n) == /\ LedgerOK(run[n].ledger, faucet)
                     /\ run[n].ledger.dag_tx_count <= n
                     /\ run[n].rejected \subseteq Ids(n)
                     /\ run[n].aborted \in BOOLEAN
                     /\ run[n].aborted => TooMuch
                     /\ ~run[n].aborted =>
                           LedgerCounts(run[n].ledger, V, Ids(n) \ run[n].rejected)
             T == {n \in 0 .. N : P(n)}
  <1>3. 0 \in T
    <2> DEFINE L == BaselineLedger(faucet)
    <2>1. run[0].ledger = L /\ run[0].rejected = {} /\ run[0].aborted = FALSE
      BY <1>2
    <2>2. LedgerOK(L, faucet)
      BY BaselineLedgerOK DEF RoomFor
    <2>3. L.dag_tx_count = 0 /\ \A a \in Address : L.next_nonce[a] = 0
      BY DEF BaselineLedger
    <2>4. Ids(0) = {}
      OBVIOUS
    <2>5. LedgerCounts(L, V, {})
      <3>1. IsFiniteSet({}) /\ Cardinality({}) = 0
        BY FS_EmptySet
      <3>2. \A a \in Users : SpentBy(V, {}, a) = {} /\ L.next_nonce[a] = 0
        BY <2>3 DEF SpentBy, Users
      <3>3. 0 .. 0 - 1 = {}
        OBVIOUS
      <3> HIDE DEF L
      <3> QED BY <2>3, <3>1, <3>2, <3>3 DEF LedgerCounts
    <2>6. Ids(0) \ run[0].rejected = {}
      BY <2>4
    <2> HIDE DEF L, Ids, TooMuch
    <2>7. 0 \in 0 .. N /\ 0 <= 0
      OBVIOUS
    <2>8. P(0)
      BY <2>1, <2>2, <2>3, <2>5, <2>6, <2>7
    <2> HIDE DEF P
    <2> QED BY <2>7, <2>8
  <1>4. ASSUME NEW n \in 1 .. N, n - 1 \in T PROVE n \in T
    <2> DEFINE p == run[n - 1]
               t == txs[n]
               L == p.ledger
               e == apply_ledger_effects(L, t)
    <2>1. P(n - 1) /\ n - 1 \in Nat /\ n - 1 \in 0 .. N /\ n \in 0 .. N
      BY <1>4
    <2>2. /\ p.aborted => run[n] = p
          /\ ~p.aborted =>
                /\ run[n].ledger = e.ledger
                /\ run[n].rejected = IF e.verdict \in {"DoubleSpend", "InsufficientBalance"}
                                     THEN p.rejected \cup {t.id} ELSE p.rejected
                /\ run[n].aborted = (e.verdict = "Overflow")
      <3>1. run[n] = ReplayStep(p, t)
        BY <1>2
      <3> HIDE DEF p, t
      <3> QED BY <3>1 DEF ReplayStep
    <2>3. Ids(n) = Ids(n - 1) \cup {t.id} /\ t.id \notin Ids(n - 1)
      <3>1. 1 .. n = (1 .. n - 1) \cup {n}
        OBVIOUS
      <3>2. \A m \in 1 .. n - 1 : m \in 1 .. N /\ m # n
        OBVIOUS
      <3> QED BY <3>1, <3>2
    <2>4. IsTransaction(t) /\ ~is_genesis(t) /\ V[t.id] = t
      OBVIOUS
    <2>5. /\ LedgerOK(L, faucet) /\ L.dag_tx_count <= n - 1 /\ p.rejected \subseteq Ids(n - 1)
          /\ p.aborted \in BOOLEAN /\ p.aborted => TooMuch
          /\ ~p.aborted => LedgerCounts(L, V, Ids(n - 1) \ p.rejected)
      BY <2>1
    <2>6. L \in Ledgers /\ L.dag_tx_count \in Nat /\ L.next_nonce \in [Address -> Nat]
      <3>1. L \in Ledgers
        BY <2>5 DEF LedgerOK
      <3>2. L.dag_tx_count \in Nat /\ L.next_nonce \in [Address -> 0 .. U64_MAX]
        BY <3>1, LedgerFields
      <3> QED BY <3>1, <3>2, EconomicsAssumption
    <2>7. RoomFor(faucet, L.dag_tx_count + 1)
      <3>1. L.dag_tx_count + 1 \in 0 .. N
        BY <2>5, <2>6
      <3> QED BY <3>1, RoomBelow
    <2> HIDE DEF L
    <2>8. /\ LedgerOK(e.ledger, faucet)
          /\ e.verdict \in {"Ok", "DoubleSpend", "InsufficientBalance", "Overflow"}
          /\ e.verdict # "Ok" => e.ledger = L
          /\ e.verdict = "Overflow" => t.amount + FIXED_TRANSACTION_FEE > U64_MAX
          /\ e.verdict = "Ok" =>
                /\ t.nonce = L.next_nonce[t.sender]
                /\ e.ledger.next_nonce = [L.next_nonce EXCEPT ![t.sender] = @ + 1]
                /\ e.ledger.dag_tx_count = L.dag_tx_count + 1
      <3> HIDE DEF t
      <3>1. IsTransaction(t) /\ ~is_genesis(t)
        BY <2>4
      <3>2. e = apply_ledger_effects(L, t)
        OBVIOUS
      <3>3. LedgerOK(L, faucet)
        BY <2>5
      <3> HIDE DEF e
      <3>4. IsEffect(faucet, L, t, e)
        BY <2>7, <3>1, <3>2, <3>3, EffectsFacts
      <3> QED BY <3>4 DEF IsEffect
    <2>9. e.verdict = "Overflow" => TooMuch
      BY <2>8
    <2>l. t.sender \in Address
      BY <2>4 DEF IsTransaction
    <2> HIDE DEF Ids, e, t, TooMuch
    <2>10. CASE p.aborted
      <3>1. run[n] = p
        BY <2>2, <2>10
      <3> HIDE DEF p
      <3>2. run[n].ledger.dag_tx_count <= n
        BY <2>5, <2>6, <3>1 DEF L
      <3> QED BY <2>1, <2>3, <2>5, <2>10, <3>1, <3>2 DEF L
    <2>11. CASE ~p.aborted /\ e.verdict = "Ok"
      <3> HIDE DEF p
      <3>1. run[n].ledger = e.ledger /\ run[n].rejected = p.rejected /\ run[n].aborted = FALSE
        BY <2>2, <2>11
      <3> DEFINE A == Ids(n - 1) \ p.rejected
      <3>2. LedgerCounts(L, V, A) /\ t.id \notin A
        BY <2>3, <2>5, <2>11
      <3>3. Ids(n) \ p.rejected = A \cup {t.id}
        BY <2>3, <2>5
      <3> HIDE DEF A
      <3>4. LedgerCounts(e.ledger, V, A \cup {t.id})
        <4>1. V[t.id].sender = t.sender /\ V[t.id].nonce = t.nonce
          BY <2>4
        <4>2. /\ V[t.id].sender \in Address
              /\ V[t.id].nonce = L.next_nonce[V[t.id].sender]
              /\ e.ledger.next_nonce = [L.next_nonce EXCEPT ![V[t.id].sender] = @ + 1]
              /\ e.ledger.dag_tx_count = L.dag_tx_count + 1
          BY <2>8, <2>11, <2>l, <4>1
        <4> DEFINE x == t.id
                   M == e.ledger
        <4> HIDE DEF x, M
        <4>3. /\ V[x].sender \in Address
              /\ V[x].nonce = L.next_nonce[V[x].sender]
              /\ M.next_nonce = [L.next_nonce EXCEPT ![V[x].sender] = @ + 1]
              /\ M.dag_tx_count = L.dag_tx_count + 1
              /\ x \notin A
          BY <3>2, <4>2 DEF x, M
        <4>4. LedgerCounts(M, V, A \cup {x})
          BY <2>6, <3>2, <4>3, CountOneMore
        <4> QED BY <4>4 DEF x, M
      <3>5. e.ledger.dag_tx_count <= n
        BY <2>5, <2>6, <2>8, <2>11
      <3>6. p.rejected \subseteq Ids(n)
        BY <2>3, <2>5
      <3> QED BY <2>1, <2>8, <3>1, <3>3, <3>4, <3>5, <3>6
    <2>12. CASE ~p.aborted /\ e.verdict \in {"DoubleSpend", "InsufficientBalance"}
      <3> HIDE DEF p
      <3>1. /\ run[n].ledger = L /\ run[n].rejected = p.rejected \cup {t.id}
            /\ run[n].aborted = FALSE
        BY <2>2, <2>8, <2>12
      <3>2. Ids(n) \ run[n].rejected = Ids(n - 1) \ p.rejected
        BY <2>3, <2>5, <3>1
      <3>3. L.dag_tx_count <= n /\ run[n].rejected \subseteq Ids(n)
        BY <2>3, <2>5, <2>6, <3>1
      <3> QED BY <2>1, <2>5, <2>12, <3>1, <3>2, <3>3
    <2>13. CASE ~p.aborted /\ e.verdict = "Overflow"
      <3> HIDE DEF p
      <3>1. run[n].ledger = L /\ run[n].rejected = p.rejected /\ run[n].aborted = TRUE
        BY <2>2, <2>8, <2>13
      <3>2. L.dag_tx_count <= n /\ run[n].rejected \subseteq Ids(n)
        BY <2>3, <2>5, <2>6, <3>1
      <3> QED BY <2>1, <2>5, <2>9, <2>13, <3>1, <3>2
    <2> QED BY <2>5, <2>8, <2>10, <2>11, <2>12, <2>13
  <1>5. \A n \in 0 .. N : n \in T
    <2> HIDE DEF T
    <2> QED BY <1>3, <1>4, IndexSetInduction
  <1>6. P(N)
    <2>1. N \in 0 .. N
      OBVIOUS
    <2> QED BY <1>5, <2>1
  <1> QED BY <1>2, <1>6 DEF IsReplayed

-----------------------------------------------------------------------------
(* The graph.                                                              *)

(* The parents of a stored vertex are stored: no wire message, conflict or  *)
(* merge can store an orphan.                                               *)
ParentsStored(g) ==
    \A i \in VertexSet(g) :
        {g.vertices[i].parent_1, g.vertices[i].parent_2}
            \subseteq VertexSet(g) \cup {NULL_PARENT}

NoRepeats(s) == \A m, n \in 1 .. Len(s) : s[m] = s[n] => m = n

GraphOK(g) ==
    /\ VertexSet(g) \subseteq TxHash
    /\ IsFiniteSet(VertexSet(g))
    /\ g.weights \in [VertexSet(g) -> 0 .. U64_MAX]
    /\ g.children \in [VertexSet(g) -> SUBSET VertexSet(g)]
    /\ ParentsStored(g)
    /\ TipsConsistent(g)
    /\ g.attach_order \in Seq(TxHash)
    /\ NoRepeats(g.attach_order)
    /\ OrderTopological(g)

(* A replica is a record of these four fields.                              *)
IsRecord(d) ==
    d = [graph |-> d.graph, ledger |-> d.ledger,
         faucet |-> d.faucet, conflicts |-> d.conflicts]

ReplicaOK(d) == IsRecord(d) /\ GraphOK(d.graph)

-----------------------------------------------------------------------------
(* Inserting a vertex.                                                     *)

(* What the graph checks of attach_vertex_and_maybe_mint establish.         *)
LEMMA VerdictOk ==
    ASSUME NEW g, NEW t, GraphVerdict(g, t) = "Ok"
    PROVE  /\ t.id \notin VertexSet(g)
           /\ is_genesis(t) => VertexSet(g) = {}
           /\ ~is_genesis(t) => {t.parent_1, t.parent_2} \subseteq VertexSet(g)
  BY DEF GraphVerdict, ParentsAdmitted

(* The graph after an insertion, field by field.                            *)
LEMMA InsertedFields ==
    ASSUME NEW g, NEW t, NEW h, h = InsertVertex(g, t)
    PROVE  /\ VertexSet(h) = VertexSet(g) \cup {t.id}
           /\ DOMAIN h.children = VertexSet(g) \cup {t.id}
           /\ h.attach_order = Append(g.attach_order, t.id)
           /\ h.tips = (g.tips \cup {t.id}) \ ParentSet(t)
  BY DEF InsertVertex, VertexSet

(* A vertex that passed the checks has stored parents, or is genesis and    *)
(* has none; either way it is not a parent of itself.                       *)
LEMMA InsertedParents ==
    ASSUME NEW g, NEW t, GraphOK(g), t.id \in TxHash, GraphVerdict(g, t) = "Ok"
    PROVE  /\ {t.parent_1, t.parent_2} \subseteq VertexSet(g) \cup {NULL_PARENT}
           /\ t.id \notin {t.parent_1, t.parent_2}
           /\ t.id # NULL_PARENT
  BY VerdictOk, DagGraphAssumption DEF is_genesis

(* tips and children stay in step with the parent links.                    *)
LEMMA InsertKeepsTips ==
    ASSUME NEW g, NEW t, GraphOK(g), t.id \in TxHash, GraphVerdict(g, t) = "Ok",
           NEW h, h = InsertVertex(g, t)
    PROVE  TipsConsistent(h)
  <1> DEFINE Kids(x, i) == {j \in VertexSet(x) :
                              i \in {x.vertices[j].parent_1, x.vertices[j].parent_2}}
  <1>0. t.id \notin VertexSet(g) /\ VertexSet(h) = VertexSet(g) \cup {t.id}
    BY VerdictOk, InsertedFields
  <1>v. h.vertices[t.id] = t /\ \A j \in VertexSet(g) : h.vertices[j] = g.vertices[j]
    BY <1>0 DEF InsertVertex, VertexSet
  <1>c. /\ h.children[t.id] = {}
        /\ \A j \in VertexSet(g) :
              h.children[j] = IF j \in ParentSet(t)
                              THEN g.children[j] \cup {t.id} ELSE g.children[j]
    BY <1>0 DEF InsertVertex, VertexSet
  <1>1. ASSUME NEW i \in VertexSet(h) PROVE h.children[i] = Kids(h, i)
    <2>1. CASE i = t.id
      <3>1. ASSUME NEW j \in VertexSet(g)
            PROVE  i \notin {h.vertices[j].parent_1, h.vertices[j].parent_2}
        <4>1. {g.vertices[j].parent_1, g.vertices[j].parent_2}
                \subseteq VertexSet(g) \cup {NULL_PARENT}
          BY DEF GraphOK, ParentsStored
        <4>2. h.vertices[j] = g.vertices[j]
          BY <1>v
        <4> QED BY <2>1, <1>0, <4>1, <4>2, InsertedParents
      <3>2. i \notin {h.vertices[i].parent_1, h.vertices[i].parent_2}
        BY <2>1, <1>v, InsertedParents
      <3>3. Kids(h, i) = {}
        BY <2>1, <1>0, <3>1, <3>2
      <3> QED BY <2>1, <3>3, <1>c
    <2>2. CASE i # t.id
      <3>1. i \in VertexSet(g)
        BY <2>2, <1>0
      <3>2. g.children[i] = Kids(g, i)
        BY <3>1 DEF GraphOK, TipsConsistent
      <3>3. i \in ParentSet(t) <=> i \in {t.parent_1, t.parent_2}
        BY <3>1, DagGraphAssumption DEF ParentSet, GraphOK
      <3>4. Kids(h, i) = IF i \in {t.parent_1, t.parent_2}
                         THEN Kids(g, i) \cup {t.id} ELSE Kids(g, i)
        BY <1>0, <1>v
      <3> QED BY <3>1, <3>2, <3>3, <3>4, <1>c
    <2> QED BY <2>1, <2>2
  <1>2. h.tips = {i \in VertexSet(h) : h.children[i] = {}}
    <2>1. g.tips = {i \in VertexSet(g) : g.children[i] = {}}
      BY DEF GraphOK, TipsConsistent
    <2>2. t.id \notin ParentSet(t)
      BY InsertedParents DEF ParentSet
    <2>3. h.tips = (g.tips \cup {t.id}) \ ParentSet(t)
      BY InsertedFields
    <2>5. ASSUME NEW i \in VertexSet(g)
          PROVE  h.children[i] = {} <=> g.children[i] = {} /\ i \notin ParentSet(t)
      BY <1>c
    <2> QED BY <1>0, <1>c, <2>1, <2>2, <2>3, <2>5
  <1> QED BY <1>1, <1>2 DEF TipsConsistent

(* The elements of a sequence after Append, and of its prefixes.            *)
LEMMA AppendElements ==
    ASSUME NEW S, NEW s \in Seq(S), NEW x \in S, NEW r, r = Append(s, x)
    PROVE  /\ {r[m] : m \in 1 .. Len(s) + 1} = {s[m] : m \in 1 .. Len(s)} \cup {x}
           /\ \A n \in 1 .. Len(s) + 1 :
                 {r[m] : m \in 1 .. n - 1} = {s[m] : m \in 1 .. n - 1}
  <1>1. /\ Len(s) \in Nat
        /\ r[Len(s) + 1] = x
        /\ \A m \in 1 .. Len(s) : r[m] = s[m]
    OBVIOUS
  <1>2. 1 .. Len(s) + 1 = (1 .. Len(s)) \cup {Len(s) + 1}
    BY <1>1
  <1>3. {r[m] : m \in 1 .. Len(s) + 1} = {s[m] : m \in 1 .. Len(s)} \cup {x}
    <2>1. {r[m] : m \in (1 .. Len(s)) \cup {Len(s) + 1}}
              = {r[m] : m \in 1 .. Len(s)} \cup {r[Len(s) + 1]}
      BY Zenon
    <2>2. {r[m] : m \in 1 .. Len(s)} = {s[m] : m \in 1 .. Len(s)}
      BY <1>1
    <2> QED BY <1>1, <1>2, <2>1, <2>2
  <1>4. ASSUME NEW n \in 1 .. Len(s) + 1
        PROVE  {r[m] : m \in 1 .. n - 1} = {s[m] : m \in 1 .. n - 1}
    <2>1. \A m \in 1 .. n - 1 : m \in 1 .. Len(s)
      BY <1>1
    <2>2. \A m \in 1 .. n - 1 : r[m] = s[m]
      BY <1>1, <2>1
    <2> QED BY <2>2
  <1> QED BY <1>3, <1>4

(* The attach order gains the new vertex at its end, after its parents.     *)
LEMMA InsertKeepsOrder ==
    ASSUME NEW g, NEW t, GraphOK(g), t.id \in TxHash, GraphVerdict(g, t) = "Ok",
           NEW h, h = InsertVertex(g, t)
    PROVE  /\ h.attach_order \in Seq(TxHash)
           /\ NoRepeats(h.attach_order)
           /\ OrderTopological(h)
  <1> DEFINE order == g.attach_order
             Before(s, n) == {s[m] : m \in 1 .. n - 1}
  <1>0. t.id \notin VertexSet(g) /\ VertexSet(h) = VertexSet(g) \cup {t.id}
    BY VerdictOk, InsertedFields
  <1>1. h.attach_order = Append(order, t.id)
    BY InsertedFields
  <1>2. /\ order \in Seq(TxHash)
        /\ Len(order) \in Nat
        /\ DOMAIN order = 1 .. Len(order)
    BY DEF GraphOK
  <1>3. /\ h.attach_order \in Seq(TxHash)
        /\ Len(h.attach_order) = Len(order) + 1
        /\ DOMAIN h.attach_order = 1 .. Len(order) + 1
        /\ h.attach_order[Len(order) + 1] = t.id
        /\ \A n \in 1 .. Len(order) : h.attach_order[n] = order[n]
    BY <1>1, <1>2
  <1>4. /\ {order[n] : n \in 1 .. Len(order)} = VertexSet(g)
        /\ Len(order) = Cardinality(VertexSet(g))
        /\ \A n \in 1 .. Len(order) :
              {g.vertices[order[n]].parent_1, g.vertices[order[n]].parent_2}
                  \subseteq Before(order, n) \cup {NULL_PARENT}
    BY <1>2 DEF GraphOK, OrderTopological, ToSet
  <1>5. ToSet(h.attach_order) = VertexSet(h)
    <2>1. ToSet(h.attach_order) = {h.attach_order[m] : m \in 1 .. Len(order) + 1}
      BY <1>3 DEF ToSet
    <2> QED BY <2>1, <1>0, <1>1, <1>2, <1>4, AppendElements
  <1>6. Len(h.attach_order) = Cardinality(VertexSet(h))
    <2>1. Cardinality(VertexSet(g) \cup {t.id}) = Cardinality(VertexSet(g)) + 1
      BY <1>0, FS_AddElement DEF GraphOK
    <2> QED BY <2>1, <1>0, <1>3, <1>4
  <1>7. ASSUME NEW n \in DOMAIN h.attach_order
        PROVE  {h.vertices[h.attach_order[n]].parent_1,
                h.vertices[h.attach_order[n]].parent_2}
                   \subseteq Before(h.attach_order, n) \cup {NULL_PARENT}
    <2>1. CASE n = Len(order) + 1
      <3>1. h.vertices[h.attach_order[n]] = t
        BY <2>1, <1>3 DEF InsertVertex
      <3>2. Before(h.attach_order, n) = VertexSet(g)
        <4>1. Before(h.attach_order, n) = Before(order, n)
          BY <2>1, <1>1, <1>2, AppendElements
        <4>2. 1 .. n - 1 = 1 .. Len(order)
          BY <2>1, <1>2
        <4> QED BY <4>1, <4>2, <1>4
      <3> QED BY <3>1, <3>2, InsertedParents
    <2>2. CASE n # Len(order) + 1
      <3>1. n \in 1 .. Len(order) /\ h.attach_order[n] = order[n]
        BY <2>2, <1>2, <1>3
      <3>2. order[n] \in VertexSet(g)
        BY <3>1, <1>4
      <3>3. h.vertices[order[n]] = g.vertices[order[n]]
        BY <3>2, <1>0 DEF InsertVertex, VertexSet
      <3>4. Before(h.attach_order, n) = Before(order, n)
        BY <3>1, <1>1, <1>2, AppendElements
      <3>5. {g.vertices[order[n]].parent_1, g.vertices[order[n]].parent_2}
               \subseteq Before(order, n) \cup {NULL_PARENT}
        BY <3>1, <1>4
      <3> HIDE DEF Before
      <3> QED BY <3>1, <3>3, <3>4, <3>5
    <2> QED BY <2>1, <2>2
  <1>8. NoRepeats(h.attach_order)
    <2>1. NoRepeats(order)
      BY DEF GraphOK
    <2>2. \A n \in 1 .. Len(order) : order[n] # t.id
      BY <1>0, <1>4
    <2>3. \A n \in 1 .. Len(order) + 1 : n \in 1 .. Len(order) \/ n = Len(order) + 1
      BY <1>2
    <2> HIDE DEF order
    <2> QED BY <1>2, <1>3, <2>1, <2>2, <2>3 DEF NoRepeats
  <1> QED BY <1>3, <1>5, <1>6, <1>7, <1>8 DEF OrderTopological

(* Insertion preserves the whole graph invariant.                           *)
LEMMA InsertKeepsGraph ==
    ASSUME NEW g, NEW t, GraphOK(g), t.id \in TxHash, GraphVerdict(g, t) = "Ok"
    PROVE  GraphOK(InsertVertex(g, t))
  <1> DEFINE h == InsertVertex(g, t)
  <1>0. t.id \notin VertexSet(g) /\ VertexSet(h) = VertexSet(g) \cup {t.id}
    BY VerdictOk, InsertedFields
  <1>1. VertexSet(h) \subseteq TxHash
    BY <1>0 DEF GraphOK
  <1>2. IsFiniteSet(VertexSet(h))
    BY <1>0, FS_AddElement DEF GraphOK
  <1>3. h.weights \in [VertexSet(h) -> 0 .. U64_MAX]
    <2>1. h.weights = [i \in VertexSet(g) \cup {t.id} |->
                         IF i = t.id THEN 1
                         ELSE IF i \in WeightedAncestors(g, t.parent_1, t.parent_2)
                              THEN SaturatingAdd(g.weights[i], 1)
                              ELSE g.weights[i]]
      BY DEF InsertVertex
    <2>2. \A i \in VertexSet(g) :
             g.weights[i] \in 0 .. U64_MAX /\ SaturatingAdd(g.weights[i], 1) \in 0 .. U64_MAX
      BY EconomicsAssumption DEF GraphOK, SaturatingAdd
    <2>3. 1 \in 0 .. U64_MAX
      BY EconomicsAssumption
    <2> QED BY <1>0, <2>1, <2>2, <2>3
  <1>c. h.children \in [VertexSet(h) -> SUBSET VertexSet(h)]
    <2>1. h.children = [i \in VertexSet(g) \cup {t.id} |->
                          IF i = t.id THEN {}
                          ELSE IF i \in ParentSet(t)
                               THEN g.children[i] \cup {t.id} ELSE g.children[i]]
      BY DEF InsertVertex
    <2>2. \A i \in VertexSet(g) : g.children[i] \subseteq VertexSet(g)
      BY DEF GraphOK
    <2> QED BY <1>0, <2>1, <2>2
  <1>4. ParentsStored(h)
    <2>1. h.vertices[t.id] = t /\ \A j \in VertexSet(g) : h.vertices[j] = g.vertices[j]
      BY <1>0 DEF InsertVertex, VertexSet
    <2>2. {t.parent_1, t.parent_2} \subseteq VertexSet(g) \cup {NULL_PARENT}
      BY InsertedParents
    <2>3. \A j \in VertexSet(g) :
             {g.vertices[j].parent_1, g.vertices[j].parent_2}
                 \subseteq VertexSet(g) \cup {NULL_PARENT}
      BY DEF GraphOK, ParentsStored
    <2> QED BY <1>0, <2>1, <2>2, <2>3 DEF ParentsStored
  <1>5. TipsConsistent(h)
    BY InsertKeepsTips
  <1>6. h.attach_order \in Seq(TxHash) /\ NoRepeats(h.attach_order) /\ OrderTopological(h)
    BY InsertKeepsOrder
  <1> QED BY <1>1, <1>2, <1>3, <1>c, <1>4, <1>5, <1>6 DEF GraphOK

(* KronDAG::new.                                                            *)
LEMMA EmptyGraphOK == GraphOK(EmptyGraph)
  <1>1. /\ VertexSet(EmptyGraph) = {}
        /\ EmptyGraph.children = [i \in {} |-> {}]
        /\ EmptyGraph.weights = [i \in {} |-> 0]
    BY DEF EmptyGraph, VertexSet
  <1>2. EmptyGraph.attach_order = <<>> /\ EmptyGraph.tips = {}
    BY DEF EmptyGraph
  <1>3. IsFiniteSet({}) /\ Cardinality({}) = 0
    BY FS_EmptySet
  <1>4. OrderTopological(EmptyGraph)
    BY <1>1, <1>2, <1>3 DEF OrderTopological, ToSet
  <1>5. NoRepeats(EmptyGraph.attach_order)
    BY <1>2 DEF NoRepeats
  <1> QED BY <1>1, <1>2, <1>3, <1>4, <1>5 DEF GraphOK, ParentsStored, TipsConsistent

-----------------------------------------------------------------------------
(* Walks along parent links.                                               *)

Elements(s) == {s[n] : n \in 1 .. Len(s)}

(* The elements of a concatenation.                                         *)
LEMMA ConcatElements ==
    ASSUME NEW S, NEW s \in Seq(S), NEW r \in Seq(S)
    PROVE  /\ s \o r \in Seq(S)
           /\ Len(s \o r) = Len(s) + Len(r)
           /\ Elements(s \o r) = Elements(s) \cup Elements(r)
  <1> DEFINE c == s \o r
  <1>1. /\ c \in Seq(S) /\ Len(c) = Len(s) + Len(r)
        /\ Len(s) \in Nat /\ Len(r) \in Nat
        /\ \A n \in 1 .. Len(s) : c[n] = s[n]
        /\ \A n \in 1 .. Len(r) : c[Len(s) + n] = r[n]
    OBVIOUS
  <1> HIDE DEF c
  <1>2. ASSUME NEW n \in 1 .. Len(c) PROVE c[n] \in Elements(s) \cup Elements(r)
    <2>1. CASE n <= Len(s)
      BY <1>1, <2>1 DEF Elements
    <2>2. CASE ~(n <= Len(s))
      <3>1. n - Len(s) \in 1 .. Len(r) /\ Len(s) + (n - Len(s)) = n
        BY <1>1, <2>2
      <3>2. c[n] = r[n - Len(s)]
        BY <1>1, <3>1
      <3> QED BY <3>1, <3>2 DEF Elements
    <2> QED BY <2>1, <2>2
  <1>3. ASSUME NEW n \in 1 .. Len(s) PROVE s[n] \in Elements(c)
    <2>1. n \in 1 .. Len(c) /\ c[n] = s[n]
      BY <1>1
    <2> QED BY <2>1 DEF Elements
  <1>4. ASSUME NEW n \in 1 .. Len(r) PROVE r[n] \in Elements(c)
    <2>1. Len(s) + n \in 1 .. Len(c) /\ c[Len(s) + n] = r[n]
      BY <1>1
    <2> QED BY <2>1 DEF Elements
  <1>5. Elements(c) = Elements(s) \cup Elements(r)
    BY <1>2, <1>3, <1>4 DEF Elements
  <1> QED BY <1>1, <1>5 DEF c

(* A stack is its top and what is below.                                    *)
LEMMA FrontElements ==
    ASSUME NEW S, NEW s \in Seq(S), s # <<>>
    PROVE  /\ Front(s) \in Seq(S) /\ Last(s) \in S
           /\ Len(s) \in Nat /\ Len(s) # 0 /\ Len(Front(s)) = Len(s) - 1
           /\ Elements(s) = Elements(Front(s)) \cup {Last(s)}
  <1> DEFINE k == Len(s) - 1
             f == SubSeq(s, 1, k)
  <1>1. Len(s) \in Nat /\ Len(s) # 0 /\ k \in Nat /\ k + 1 = Len(s) /\ k <= Len(s)
    OBVIOUS
  <1>2. Front(s) = f /\ Last(s) = s[k + 1]
    BY <1>1 DEF Front, Last
  <1>3. Elements(s) = {s[n] : n \in 1 .. k + 1} /\ s[k + 1] \in S
    BY <1>1 DEF Elements
  <1>4. /\ f \in Seq(S) /\ Len(f) = k /\ \A n \in 1 .. k : f[n] = s[n]
    <2> HIDE DEF k
    <2> QED BY <1>1
  <1> HIDE DEF f, k
  <1>5. 1 .. k + 1 = (1 .. k) \cup {k + 1}
    BY <1>1
  <1>6. Elements(f) = {s[n] : n \in 1 .. k}
    BY <1>4 DEF Elements
  <1>7. Elements(s) = Elements(f) \cup {s[k + 1]}
    BY <1>3, <1>5, <1>6
  <1>8. k = Len(s) - 1
    BY DEF k
  <1> QED BY <1>1, <1>2, <1>3, <1>4, <1>7, <1>8

(* The links of a vertex as a stack of ids.                                 *)
IsLinks(S, p, q, s) ==
    /\ s \in Seq(S \ {NULL_PARENT}) /\ Len(s) <= 2
    /\ Elements(s) = {p, q} \ {NULL_PARENT}

LEMMA LinkElements ==
    ASSUME NEW S, NEW p \in S \cup {NULL_PARENT}, NEW q \in S \cup {NULL_PARENT}
    PROVE  IsLinks(S, p, q, Link(p) \o Link(q))
  <1> DEFINE R == S \ {NULL_PARENT}
  <1>1. ASSUME NEW x \in S \cup {NULL_PARENT}
        PROVE  /\ Link(x) \in Seq(R) /\ Len(Link(x)) \in 0 .. 1
               /\ Elements(Link(x)) = {x} \ {NULL_PARENT}
    <2>1. CASE x = NULL_PARENT
      <3>1. Link(x) = <<>>
        BY <2>1 DEF Link
      <3> QED BY <2>1, <3>1 DEF Elements
    <2>2. CASE x # NULL_PARENT
      <3>1. Link(x) = <<x>> /\ x \in R
        BY <2>2 DEF Link
      <3>2. Elements(<<x>>) = {x}
        BY DEF Elements
      <3> QED BY <2>2, <3>1, <3>2
    <2> QED BY <2>1, <2>2
  <1> DEFINE a == Link(p)
             b == Link(q)
             s == a \o b
  <1>2. /\ a \in Seq(R) /\ b \in Seq(R) /\ Len(a) \in 0 .. 1 /\ Len(b) \in 0 .. 1
        /\ Elements(a) = {p} \ {NULL_PARENT} /\ Elements(b) = {q} \ {NULL_PARENT}
    BY <1>1
  <1>3. s = a \o b
    OBVIOUS
  <1> HIDE DEF a, b, R, s
  <1>4. s \in Seq(R) /\ Len(s) = Len(a) + Len(b) /\ Elements(s) = Elements(a) \cup Elements(b)
    BY <1>2, <1>3, ConcatElements
  <1>5. Len(s) <= 2
    <2>1. Len(a) \in 0 .. 1 /\ Len(b) \in 0 .. 1 /\ Len(s) = Len(a) + Len(b)
      BY <1>2, <1>4
    <2>2. \A m, n \in 0 .. 1 : m + n <= 2
      OBVIOUS
    <2> QED BY <2>1, <2>2, Zenon
  <1>6. Elements(s) = {p, q} \ {NULL_PARENT}
    BY <1>2, <1>4
  <1>7. IsLinks(S, p, q, s)
    BY <1>4, <1>5, <1>6 DEF R, IsLinks
  <1> QED BY <1>7 DEF s, a, b

-----------------------------------------------------------------------------
(* What a step of the walk does.                                           *)

WalkStates(S) == [stack : Seq(S), visited : SUBSET S, cut : SUBSET S]

IsWalkStep(g, w, u) ==
    /\ u \in WalkStates(VertexSet(g))
    /\ w.stack = <<>> => u = w
    /\ w.stack # <<>> =>
          \E h \in VertexSet(g) :
             /\ h \in Elements(w.stack) /\ Elements(w.stack) \subseteq Elements(u.stack) \cup {h}
             /\ \/ /\ h \in w.visited /\ u.visited = w.visited /\ u.cut = w.cut
                   /\ Len(u.stack) = Len(w.stack) - 1
                   /\ Elements(u.stack) \subseteq Elements(w.stack)
                \/ /\ h \notin w.visited /\ u.visited = w.visited \cup {h} /\ u.cut = w.cut
                   /\ Len(u.stack) <= Len(w.stack) + 1
                   /\ ParentSet(g.vertices[h]) \subseteq Elements(u.stack)
                   /\ Elements(u.stack) \subseteq Elements(w.stack) \cup ParentSet(g.vertices[h])
       \/ \E k \in VertexSet(g) \ w.visited :
             /\ Cardinality(w.visited) >= ANCESTOR_WALK_BOUND
             /\ u.visited = w.visited /\ u.stack = <<>> /\ u.cut = {k}

LEMMA WalkStepFacts ==
    ASSUME NEW g, GraphOK(g), NEW w \in WalkStates(VertexSet(g)),
           NEW u, u = WalkStep(g, w)
    PROVE  IsWalkStep(g, w, u)
  <1> DEFINE S == VertexSet(g)
             h == Last(w.stack)
             rest == Front(w.stack)
             pushed == Link(g.vertices[h].parent_1) \o Link(g.vertices[h].parent_2)
  <1>1. /\ w = [stack |-> w.stack, visited |-> w.visited, cut |-> w.cut]
        /\ w.stack \in Seq(S) /\ w.visited \in SUBSET S /\ w.cut \in SUBSET S
    BY DEF WalkStates
  <1>2. CASE w.stack = <<>>
    <2>1. u = w
      BY <1>2 DEF WalkStep
    <2> QED BY <1>2, <2>1 DEF IsWalkStep
  <1>3. CASE w.stack # <<>>
    <2>1. /\ rest \in Seq(S) /\ h \in S
          /\ Len(w.stack) \in Nat /\ Len(rest) = Len(w.stack) - 1
          /\ Elements(w.stack) = Elements(rest) \cup {h}
      BY <1>1, <1>3, FrontElements
    <2>2. /\ g.vertices[h].parent_1 \in S \cup {NULL_PARENT}
          /\ g.vertices[h].parent_2 \in S \cup {NULL_PARENT}
      BY <2>1 DEF GraphOK, ParentsStored
    <2>3. /\ pushed \in Seq(S) /\ Len(pushed) <= 2
          /\ Elements(pushed) = ParentSet(g.vertices[h])
      <3>1. IsLinks(S, g.vertices[h].parent_1, g.vertices[h].parent_2, pushed)
        BY <2>2, LinkElements
      <3>2. S \ {NULL_PARENT} = S
        BY DagGraphAssumption DEF GraphOK
      <3> HIDE DEF pushed, S, h
      <3> QED BY <3>1, <3>2 DEF IsLinks, ParentSet
    <2>4. u = IF h \in w.visited THEN [w EXCEPT !.stack = rest]
              ELSE IF Cardinality(w.visited) >= ANCESTOR_WALK_BOUND
              THEN [w EXCEPT !.stack = <<>>, !.cut = {h}]
              ELSE [w EXCEPT !.stack = rest \o pushed, !.visited = w.visited \cup {h}]
      <3>1. (IF h \in VertexSet(g) THEN pushed ELSE <<>>) = pushed
        BY <2>1
      <3> QED BY <1>3, <2>1 DEF WalkStep
    <2> HIDE DEF h, rest, pushed
    <2>5. CASE h \in w.visited
      <3>1. u = [stack |-> rest, visited |-> w.visited, cut |-> w.cut]
        BY <1>1, <2>4, <2>5
      <3>2. u \in WalkStates(S) /\ u.stack = rest /\ u.visited = w.visited /\ u.cut = w.cut
        BY <1>1, <2>1, <3>1 DEF WalkStates
      <3> HIDE DEF S
      <3> QED BY <1>3, <2>1, <2>5, <3>2 DEF IsWalkStep, S
    <2>6. CASE h \notin w.visited /\ Cardinality(w.visited) >= ANCESTOR_WALK_BOUND
      <3>1. u = [stack |-> <<>>, visited |-> w.visited, cut |-> {h}]
        BY <1>1, <2>4, <2>6
      <3>2. u \in WalkStates(S) /\ u.stack = <<>> /\ u.visited = w.visited /\ u.cut = {h}
        BY <1>1, <2>1, <3>1 DEF WalkStates
      <3> QED BY <1>3, <2>1, <2>6, <3>2 DEF IsWalkStep
    <2>7. CASE h \notin w.visited /\ ~(Cardinality(w.visited) >= ANCESTOR_WALK_BOUND)
      <3> DEFINE c == rest \o pushed
      <3>1. u = [stack |-> c, visited |-> w.visited \cup {h}, cut |-> w.cut]
        BY <1>1, <2>4, <2>7
      <3>2. /\ c \in Seq(S) /\ Len(c) = Len(rest) + Len(pushed)
            /\ Elements(c) = Elements(rest) \cup Elements(pushed)
        BY <2>1, <2>3, ConcatElements
      <3> HIDE DEF c
      <3>3. /\ u \in WalkStates(S) /\ u.stack = c
            /\ u.visited = w.visited \cup {h} /\ u.cut = w.cut
        BY <1>1, <2>1, <3>1, <3>2 DEF WalkStates
      <3>4. Len(c) <= Len(w.stack) + 1
        <4>1. Len(pushed) \in Nat
          BY <2>3
        <4> QED BY <2>1, <2>3, <3>2, <4>1
      <3>5. /\ Elements(w.stack) \subseteq Elements(c) \cup {h} /\ h \in Elements(w.stack)
            /\ ParentSet(g.vertices[h]) \subseteq Elements(c)
            /\ Elements(c) \subseteq Elements(w.stack) \cup ParentSet(g.vertices[h])
        BY <2>1, <2>3, <3>2
      <3> QED BY <1>3, <2>1, <2>7, <3>3, <3>4, <3>5 DEF IsWalkStep
    <2> QED BY <2>5, <2>6, <2>7
  <1> QED BY <1>2, <1>3

-----------------------------------------------------------------------------
(* A walk is a run of steps.                                               *)

WalkLength(g) == 2 * Cardinality(VertexSet(g)) + 2

IsWalkRun(g, start, run) ==
    /\ run[0] = [stack |-> start, visited |-> {}, cut |-> {}]
    /\ \A n \in 0 .. WalkLength(g) : run[n] \in WalkStates(VertexSet(g))
    /\ \A n \in 1 .. WalkLength(g) : IsWalkStep(g, run[n - 1], run[n])
    /\ Walk(g, start) = run[WalkLength(g)]

(* Every walk that starts at stored vertices has such a run.                *)
LEMMA WalkRun ==
    ASSUME NEW g, GraphOK(g), NEW start \in Seq(VertexSet(g))
    PROVE  \E run : IsWalkRun(g, start, run)
  <1> DEFINE K == WalkLength(g)
             V == WalkStates(VertexSet(g))
             b == [stack |-> start, visited |-> {}, cut |-> {}]
             step  == [p \in V \X (1 .. K) |-> WalkStep(g, p[1])]
             Eq(h) == h = [s \in SUBSET (1 .. K) |->
                             IF s = {} THEN b ELSE WalkStep(g, h[s \ {Max(s)}])]
             iter  == CHOOSE h : Eq(h)
             run   == [n \in 0 .. K |-> iter[1 .. n]]
  <1>1. K \in Nat
    BY FS_CardinalityType DEF GraphOK, WalkLength
  <1>2. Walk(g, start) = iter[1 .. K]
    BY DEF Walk, FoldLeft, MapThenFoldSet, WalkLength
  <1>3. b \in V
    BY DEF WalkStates
  <1>4. \A w \in V : WalkStep(g, w) \in V
    BY WalkStepFacts DEF IsWalkStep
  <1> HIDE DEF K, V, b
  <1>5. \A p \in V \X (1 .. K) : step[p] \in V
    BY <1>4
  <1>6. \A w \in V : \A n \in 1 .. K : step[<<w, n>>] = WalkStep(g, w)
    OBVIOUS
  <1> HIDE DEF step
  <1>7. PICK it : IsFold(V, b, step, K, it)
    BY <1>1, <1>3, <1>5, FoldExists
  <1>8. ASSUME NEW s \in SUBSET (1 .. K)
        PROVE  it[s] = IF s = {} THEN b ELSE WalkStep(g, it[s \ {Max(s)}])
    <2>1. CASE s = {}
      BY <1>7, <2>1 DEF IsFold
    <2>2. CASE s # {}
      <3>1. Max(s) \in 1 .. K
        BY <1>1, <2>2, MaxOfIndices
      <3>2. it[s \ {Max(s)}] \in V
        BY <1>7 DEF IsFold
      <3>3. it[s] = step[<<it[s \ {Max(s)}], Max(s)>>]
        BY <1>7, <2>2 DEF IsFold
      <3> QED BY <1>6, <2>2, <3>1, <3>2, <3>3
    <2> QED BY <2>1, <2>2
  <1>9. it = [s \in SUBSET (1 .. K) |-> it[s]]
    BY <1>7 DEF IsFold
  <1>10. Eq(it)
    BY <1>8, <1>9, Zenon
  <1>11. \E h : Eq(h)
    <2> HIDE DEF Eq
    <2> QED BY <1>10
  <1>12. Eq(iter)
    <2> HIDE DEF Eq
    <2> QED BY <1>11
  <1>13. \A s \in SUBSET (1 .. K) :
           iter[s] = IF s = {} THEN b ELSE WalkStep(g, iter[s \ {Max(s)}])
    BY <1>12, Zenon
  <1> HIDE DEF iter
  <1>14. run[0] = b
    <2>1. 1 .. 0 = {} /\ 0 \in 0 .. K
      BY <1>1
    <2> QED BY <1>13, <2>1, Zenon
  <1>15. ASSUME NEW n \in 1 .. K PROVE run[n] = WalkStep(g, run[n - 1])
    <2>1. n \in 0 .. K /\ n - 1 \in 0 .. K /\ 1 .. n \in SUBSET (1 .. K)
      BY <1>1
    <2>2. n \in Nat /\ n # 0
      BY <1>1
    <2>3. 1 .. n # {} /\ Max(1 .. n) = n /\ (1 .. n) \ {n} = 1 .. n - 1
      BY <2>2, MaxOfPrefix
    <2> QED BY <1>13, <2>1, <2>3, Zenon
  <1>16. Walk(g, start) = run[K]
    BY <1>1, <1>2
  <1> HIDE DEF run
  <1>17. \A n \in 0 .. K : run[n] \in V
    <2> DEFINE T == {n \in 0 .. K : run[n] \in V}
    <2>1. 0 \in T
      BY <1>1, <1>3, <1>14
    <2>2. ASSUME NEW n \in 1 .. K, n - 1 \in T PROVE n \in T
      BY <1>1, <1>4, <1>15, <2>2
    <2>3. \A n \in 0 .. K : n \in T
      <3> HIDE DEF T
      <3> QED BY <1>1, <2>1, <2>2, IndexSetInduction
    <2> QED BY <2>3
  <1>18. ASSUME NEW n \in 1 .. K PROVE IsWalkStep(g, run[n - 1], run[n])
    <2>1. n - 1 \in 0 .. K
      BY <1>1
    <2>2. run[n - 1] \in WalkStates(VertexSet(g)) /\ run[n] = WalkStep(g, run[n - 1])
      BY <1>15, <1>17, <2>1 DEF V
    <2> QED BY <2>2, WalkStepFacts
  <1>19. IsWalkRun(g, start, run)
    BY <1>14, <1>16, <1>17, <1>18 DEF IsWalkRun, K, V, b
  <1> QED BY <1>19

-----------------------------------------------------------------------------
(* What a walk finds.                                                      *)

IsClosed(g, C) ==
    C \subseteq VertexSet(g) /\ \A i \in C : ParentSet(g.vertices[i]) \subseteq C

(* C is all that is reached from S along parent links, S included.          *)
IsClosure(g, S, C) ==
    /\ IsClosed(g, C) /\ S \subseteq C
    /\ \A D : IsClosed(g, D) /\ S \subseteq D => C \subseteq D

(* After n steps: what was reached so far is visited or on the stack, which *)
(* shrinks with every step that visits nothing.                             *)
WalkInv(g, S, n, w) ==
    /\ S \subseteq w.visited \cup Elements(w.stack)
    /\ \A i \in w.visited : ParentSet(g.vertices[i]) \subseteq w.visited \cup Elements(w.stack)
    /\ \A D : IsClosed(g, D) /\ S \subseteq D => w.visited \cup Elements(w.stack) \subseteq D
    /\ w.cut = {}
    /\ w.stack = <<>>
         \/ Len(w.stack) + 2 * (Cardinality(VertexSet(g)) - Cardinality(w.visited)) + n
               <= WalkLength(g)

(* A step of a walk that the bound does not cut keeps that.                 *)
LEMMA WalkInvStep ==
    ASSUME NEW g, GraphOK(g), Cardinality(VertexSet(g)) <= ANCESTOR_WALK_BOUND,
           NEW S, NEW n \in Nat, NEW w \in WalkStates(VertexSet(g)), WalkInv(g, S, n, w),
           NEW u, IsWalkStep(g, w, u)
    PROVE  WalkInv(g, S, n + 1, u)
  <1> DEFINE ids == VertexSet(g)
             c == Cardinality(ids)
             v == Cardinality(w.visited)
  <1>1. /\ IsFiniteSet(ids) /\ IsFiniteSet(w.visited) /\ w.visited \subseteq ids
        /\ c \in Nat /\ v \in Nat /\ v <= c
        /\ WalkLength(g) = 2 * c + 2
    BY FS_Subset, FS_CardinalityType DEF GraphOK, WalkStates, WalkLength
  <1>2. CASE w.stack = <<>>
    <2>1. u = w
      BY <1>2 DEF IsWalkStep
    <2> QED BY <1>2, <2>1 DEF WalkInv
  <1>3. CASE w.stack # <<>>
    <2>0. /\ w.stack \in Seq(ids) /\ Len(w.stack) \in Nat
          /\ u.stack \in Seq(ids) /\ Len(u.stack) \in Nat
          /\ Len(w.stack) + 2 * (c - v) + n <= 2 * c + 2
      <3>1. w.stack \in Seq(ids) /\ u.stack \in Seq(ids)
        BY DEF WalkStates, IsWalkStep
      <3>2. Len(w.stack) + 2 * (c - v) + n <= 2 * c + 2
        BY <1>1, <1>3 DEF WalkInv
      <3> QED BY <3>1, <3>2
    <2>1. ASSUME NEW h \in ids, h \notin w.visited
          PROVE  /\ Cardinality(w.visited \cup {h}) = v + 1
                 /\ v + 1 <= c /\ ~(v >= ANCESTOR_WALK_BOUND)
      <3>1. Cardinality(w.visited \cup {h}) = v + 1
        BY <1>1, <2>1, FS_AddElement
      <3>2. Cardinality(w.visited \cup {h}) <= c
        BY <1>1, FS_Subset
      <3> QED BY <1>1, <3>1, <3>2, DagGraphAssumption
    <2>2. PICK h \in ids :
             /\ h \in Elements(w.stack) /\ Elements(w.stack) \subseteq Elements(u.stack) \cup {h}
             /\ \/ /\ h \in w.visited /\ u.visited = w.visited /\ u.cut = w.cut
                   /\ Len(u.stack) = Len(w.stack) - 1
                   /\ Elements(u.stack) \subseteq Elements(w.stack)
                \/ /\ h \notin w.visited /\ u.visited = w.visited \cup {h} /\ u.cut = w.cut
                   /\ Len(u.stack) <= Len(w.stack) + 1
                   /\ ParentSet(g.vertices[h]) \subseteq Elements(u.stack)
                   /\ Elements(u.stack) \subseteq Elements(w.stack) \cup ParentSet(g.vertices[h])
      BY <1>3, <2>1 DEF IsWalkStep
    <2>3. CASE h \in w.visited
      <3>1. Len(u.stack) + 2 * (c - v) + (n + 1) <= 2 * c + 2
        <4>1. Len(u.stack) = Len(w.stack) - 1
          BY <2>2, <2>3
        <4> DEFINE m == Len(w.stack)
                   k == Len(u.stack)
        <4>2. m \in Nat /\ k \in Nat /\ k = m - 1 /\ m + 2 * (c - v) + n <= 2 * c + 2
          BY <2>0, <4>1
        <4> HIDE DEF m, k, c, v
        <4>3. k + 2 * (c - v) + (n + 1) <= 2 * c + 2
          BY <1>1, <4>2
        <4> QED BY <4>3 DEF k
      <3>2. /\ u.visited = w.visited /\ u.cut = w.cut
            /\ w.visited \cup Elements(w.stack) = w.visited \cup Elements(u.stack)
        BY <2>2, <2>3
      <3> QED BY <1>1, <3>1, <3>2 DEF WalkInv
    <2>4. CASE h \notin w.visited
      <3>0. /\ u.visited = w.visited \cup {h} /\ u.cut = w.cut
            /\ Elements(w.stack) \subseteq Elements(u.stack) \cup {h}
            /\ h \in Elements(w.stack)
            /\ ParentSet(g.vertices[h]) \subseteq Elements(u.stack)
            /\ Elements(u.stack) \subseteq Elements(w.stack) \cup ParentSet(g.vertices[h])
            /\ Len(u.stack) <= Len(w.stack) + 1
            /\ Cardinality(u.visited) = v + 1
        BY <2>1, <2>2, <2>4
      <3>1. Len(u.stack) + 2 * (c - (v + 1)) + (n + 1) <= 2 * c + 2
        <4> DEFINE m == Len(w.stack)
                   k == Len(u.stack)
        <4>2. m \in Nat /\ k \in Nat /\ k <= m + 1 /\ m + 2 * (c - v) + n <= 2 * c + 2
          BY <2>0, <3>0
        <4> HIDE DEF m, k, c, v
        <4>3. k + 2 * (c - (v + 1)) + (n + 1) <= 2 * c + 2
          BY <1>1, <4>2
        <4> QED BY <4>3 DEF k
      <3>2. S \subseteq u.visited \cup Elements(u.stack)
        BY <3>0 DEF WalkInv
      <3>3. \A i \in u.visited : ParentSet(g.vertices[i]) \subseteq u.visited \cup Elements(u.stack)
        BY <3>0 DEF WalkInv
      <3>4. ASSUME NEW D, IsClosed(g, D), S \subseteq D
            PROVE  u.visited \cup Elements(u.stack) \subseteq D
        <4>1. w.visited \cup Elements(w.stack) \subseteq D
          BY <3>4 DEF WalkInv
        <4>2. ParentSet(g.vertices[h]) \subseteq D
          BY <3>0, <3>4, <4>1 DEF IsClosed
        <4> QED BY <3>0, <4>1, <4>2
      <3>5. u.cut = {}
        BY <3>0 DEF WalkInv
      <3> QED BY <1>1, <3>0, <3>1, <3>2, <3>3, <3>4, <3>5 DEF WalkInv
    <2> QED BY <2>3, <2>4
  <1> QED BY <1>2, <1>3

(* A walk over a graph within the bound finds the closure of its start.     *)
LEMMA WalkFacts ==
    ASSUME NEW g, GraphOK(g), Cardinality(VertexSet(g)) <= ANCESTOR_WALK_BOUND,
           NEW start \in Seq(VertexSet(g)), Len(start) <= 2
    PROVE  /\ IsClosure(g, Elements(start), Walk(g, start).visited)
           /\ Walk(g, start).cut = {}
  <1> DEFINE ids == VertexSet(g)
             K == WalkLength(g)
             S == Elements(start)
  <1>1. PICK run : IsWalkRun(g, start, run)
    BY WalkRun
  <1>2. /\ run[0] = [stack |-> start, visited |-> {}, cut |-> {}]
        /\ \A n \in 0 .. K : run[n] \in WalkStates(ids)
        /\ \A n \in 1 .. K : IsWalkStep(g, run[n - 1], run[n])
        /\ Walk(g, start) = run[K]
    BY <1>1 DEF IsWalkRun
  <1>3. Cardinality(ids) \in Nat /\ K = 2 * Cardinality(ids) + 2 /\ K \in Nat
    BY FS_CardinalityType DEF GraphOK, WalkLength
  <1> DEFINE T == {n \in 0 .. K : WalkInv(g, S, n, run[n])}
  <1>4. 0 \in T
    <2>1. Cardinality({}) = 0
      BY FS_EmptySet
    <2>2. /\ run[0].stack = start /\ run[0].visited = {} /\ run[0].cut = {}
          /\ Len(start) \in Nat
      BY <1>2
    <2>3. Len(start) + 2 * (Cardinality(ids) - 0) + 0 <= K
      BY <1>3, <2>2
    <2>4. WalkInv(g, S, 0, run[0])
      BY <2>1, <2>2, <2>3 DEF WalkInv
    <2> QED BY <1>3, <2>4
  <1>5. ASSUME NEW n \in 1 .. K, n - 1 \in T PROVE n \in T
    <2>1. n - 1 \in Nat /\ n - 1 \in 0 .. K /\ (n - 1) + 1 = n /\ n \in 0 .. K
      BY <1>3
    <2>2. /\ run[n - 1] \in WalkStates(ids) /\ WalkInv(g, S, n - 1, run[n - 1])
          /\ IsWalkStep(g, run[n - 1], run[n])
      BY <1>2, <1>5, <2>1
    <2>3. WalkInv(g, S, (n - 1) + 1, run[n])
      <3> HIDE DEF S, T
      <3> QED BY <2>1, <2>2, WalkInvStep
    <2> QED BY <2>1, <2>3
  <1>6. WalkInv(g, S, K, run[K])
    <2>1. \A n \in 0 .. K : n \in T
      <3> HIDE DEF T, K
      <3> QED BY <1>3, <1>4, <1>5, IndexSetInduction
    <2>2. K \in 0 .. K
      BY <1>3
    <2> QED BY <2>1, <2>2
  <1> DEFINE w == run[K]
  <1>7. w \in WalkStates(ids) /\ w = Walk(g, start)
    BY <1>2, <1>3
  <1> HIDE DEF w, S, T
  <1>8. w.stack = <<>>
    <2>1. w.stack \in Seq(ids) /\ w.visited \in SUBSET ids
      BY <1>7 DEF WalkStates
    <2> DEFINE m == Len(w.stack)
               c == Cardinality(ids)
               v == Cardinality(w.visited)
    <2>2. m \in Nat /\ v \in Nat /\ c \in Nat /\ v <= c
      BY <1>3, <2>1, FS_Subset, FS_CardinalityType DEF GraphOK
    <2>3. w.stack = <<>> \/ m + 2 * (c - v) + K <= K
      BY <1>6 DEF WalkInv, w
    <2>4. m = 0 => w.stack = <<>>
      BY <2>1
    <2> HIDE DEF m, c, v, K
    <2>5. m + 2 * (c - v) + K <= K => m = 0
      BY <1>3, <2>2
    <2> QED BY <2>3, <2>4, <2>5
  <1>9. Elements(w.stack) = {}
    BY <1>8 DEF Elements
  <1>10. WalkInv(g, S, K, w)
    BY <1>6 DEF w
  <1>11. IsClosure(g, S, w.visited) /\ w.cut = {}
    <2>1. w.visited \subseteq ids
      BY <1>7 DEF WalkStates
    <2> QED BY <1>9, <1>10, <2>1 DEF WalkInv, IsClosure, IsClosed
  <1> QED BY <1>7, <1>11 DEF S

-----------------------------------------------------------------------------
(* Ancestors, and the weights that count them.                             *)

(* A start has one closure at most.                                         *)
LEMMA ClosureUnique ==
    ASSUME NEW g, NEW S, NEW C, NEW D, IsClosure(g, S, C), IsClosure(g, S, D)
    PROVE  C = D
  BY DEF IsClosure

(* Ancestors is the closure of the parents.                                 *)
LEMMA AncestorsFacts ==
    ASSUME NEW g, GraphOK(g), NEW i \in VertexSet(g)
    PROVE  IsClosure(g, ParentSet(g.vertices[i]), Ancestors(g, i))
  <1> DEFINE ids == VertexSet(g)
             N == Cardinality(ids)
             V == SUBSET ids
             P(j) == {g.vertices[j].parent_1, g.vertices[j].parent_2} \ {NULL_PARENT}
             Step(C) == C \cup UNION {P(j) : j \in C}
             Eq(f) == f = [n \in 0 .. N |->
                             IF n = 0 THEN P(i)
                             ELSE f[n - 1] \cup UNION {P(j) : j \in f[n - 1]}]
             grow == CHOOSE f : Eq(f)
             step == [p \in Nat \X V |-> Step(p[2])]
  <1>1. IsFiniteSet(ids) /\ N \in Nat
    BY FS_CardinalityType DEF GraphOK
  <1>2. Ancestors(g, i) = grow[N]
    BY DEF Ancestors
  <1>3. \A j \in ids : P(j) \subseteq ids /\ P(j) = ParentSet(g.vertices[j])
    BY DEF GraphOK, ParentsStored, ParentSet
  <1> HIDE DEF P
  <1>4. P(i) \in V /\ \A C \in V : Step(C) \in V
    BY <1>3
  <1> HIDE DEF Step
  <1>5. \A p \in Nat \X V : step[p] \in V
    BY <1>4
  <1>6. \A n \in Nat : \A C \in V : step[<<n, C>>] = Step(C)
    OBVIOUS
  <1> HIDE DEF step
  <1>7. PICK r : IsRecursion(V, P(i), step, r)
    BY <1>4, <1>5, NatRecursion
  <1>8. r \in [Nat -> V] /\ r[0] = P(i) /\ \A n \in Nat : r[n + 1] = Step(r[n])
    BY <1>6, <1>7 DEF IsRecursion
  <1> DEFINE f == [n \in 0 .. N |-> r[n]]
  <1>9. ASSUME NEW n \in 0 .. N
        PROVE  f[n] = IF n = 0 THEN P(i) ELSE Step(f[n - 1])
    <2>1. CASE n = 0
      BY <1>8, <2>1
    <2>2. CASE n # 0
      <3>1. n - 1 \in Nat /\ n - 1 \in 0 .. N /\ (n - 1) + 1 = n
        BY <1>1, <2>2
      <3>2. r[n] = Step(r[n - 1]) /\ f[n] = r[n] /\ f[n - 1] = r[n - 1]
        BY <1>8, <3>1
      <3> QED BY <2>2, <3>2
    <2> QED BY <2>1, <2>2
  <1>10. f = [n \in 0 .. N |-> f[n]]
    OBVIOUS
  <1> HIDE DEF f, N, V, ids
  <1>11. Eq(f)
    BY <1>9, <1>10, Zenon DEF Step
  <1>12. \E h : Eq(h)
    <2> HIDE DEF Eq
    <2> QED BY <1>11
  <1>13. Eq(grow)
    <2> HIDE DEF Eq
    <2> QED BY <1>12
  <1>14. \A n \in 0 .. N : grow[n] = IF n = 0 THEN P(i) ELSE Step(grow[n - 1])
    BY <1>13, Zenon DEF Step
  <1> HIDE DEF grow, Eq
  <1> DEFINE Good(n, C) == /\ C \in V /\ P(i) \subseteq C
                           /\ \A D : IsClosed(g, D) /\ P(i) \subseteq D => C \subseteq D
                           /\ IsClosed(g, C) \/ Cardinality(C) >= n + 1
             T == {n \in 0 .. N : Good(n, grow[n])}
  <1>15. 0 \in T
    <2>1. grow[0] = P(i) /\ 0 \in 0 .. N
      BY <1>1, <1>14
    <2>2. CASE P(i) = {}
      <3>1. IsClosed(g, {})
        BY DEF IsClosed
      <3> QED BY <1>4, <2>1, <2>2, <3>1
    <2>3. CASE P(i) # {}
      <3>1. IsFiniteSet(P(i)) /\ Cardinality(P(i)) \in Nat /\ Cardinality(P(i)) # 0
        BY <1>1, <1>4, <2>3, FS_Subset, FS_CardinalityType, FS_EmptySet DEF V
      <3>2. Cardinality(P(i)) >= 0 + 1
        BY <3>1
      <3> QED BY <1>4, <2>1, <3>2
    <2> QED BY <2>2, <2>3
  <1>16. ASSUME NEW n \in 1 .. N, n - 1 \in T PROVE n \in T
    <2> DEFINE B == grow[n - 1]
               C == grow[n]
    <2>1. n \in 0 .. N /\ n # 0 /\ n \in Nat /\ (n - 1) + 1 = n
      BY <1>1
    <2>2. Good(n - 1, B)
      BY <1>16
    <2>3. C = Step(B)
      BY <1>14, <2>1
    <2> HIDE DEF B, C
    <2>4. C = B \cup UNION {P(j) : j \in B}
      BY <2>3 DEF Step
    <2>5. C \in V /\ B \subseteq C /\ B \in V
      BY <1>4, <2>2, <2>3, <2>4
    <2>6. ASSUME NEW D, IsClosed(g, D), P(i) \subseteq D PROVE C \subseteq D
      <3>1. B \subseteq D
        BY <2>2, <2>6
      <3>2. \A j \in B : P(j) \subseteq D
        BY <1>3, <2>5, <2>6, <3>1 DEF IsClosed, V
      <3> QED BY <2>4, <3>1, <3>2
    <2>7. CASE IsClosed(g, B)
      <3>1. \A j \in B : P(j) \subseteq B
        BY <1>3, <2>5, <2>7 DEF IsClosed, V
      <3>2. C = B
        BY <2>4, <3>1
      <3> QED BY <2>1, <2>2, <2>5, <2>6, <2>7, <3>2 DEF C
    <2>8. CASE ~IsClosed(g, B)
      <3>1. PICK x \in C : x \notin B
        <4>1. PICK j \in B : ~(P(j) \subseteq B)
          BY <1>3, <2>5, <2>8 DEF IsClosed, V, ids
        <4> QED BY <2>4, <4>1
      <3>2. IsFiniteSet(B) /\ IsFiniteSet(C) /\ Cardinality(B) \in Nat /\ Cardinality(C) \in Nat
        BY <1>1, <2>5, FS_Subset, FS_CardinalityType DEF V
      <3>3. Cardinality(B \cup {x}) = Cardinality(B) + 1 /\ B \cup {x} \subseteq C
        BY <2>5, <3>1, <3>2, FS_AddElement
      <3>4. Cardinality(B \cup {x}) <= Cardinality(C)
        BY <3>2, <3>3, FS_Subset
      <3>5. Cardinality(B) >= (n - 1) + 1
        BY <2>2, <2>8
      <3>6. Cardinality(C) >= n + 1
        <4> DEFINE c == Cardinality(C)
                   b == Cardinality(B)
        <4>1. c \in Nat /\ b \in Nat /\ b + 1 <= c /\ b >= n
          BY <2>1, <3>2, <3>3, <3>4, <3>5
        <4> HIDE DEF c, b
        <4>2. c >= n + 1
          BY <2>1, <4>1
        <4> QED BY <4>2 DEF c
      <3> QED BY <2>1, <2>2, <2>5, <2>6, <3>6 DEF C
    <2> QED BY <2>7, <2>8
  <1>17. Good(N, grow[N])
    <2>1. \A n \in 0 .. N : n \in T
      <3> HIDE DEF T
      <3> QED BY <1>1, <1>15, <1>16, IndexSetInduction
    <2>2. N \in 0 .. N
      BY <1>1
    <2> QED BY <2>1, <2>2
  <1> DEFINE A == grow[N]
  <1> HIDE DEF A
  <1>18. IsClosed(g, A)
    <2>1. A \in V /\ (IsClosed(g, A) \/ Cardinality(A) >= N + 1)
      BY <1>17 DEF A
    <2>2. Cardinality(A) \in Nat /\ Cardinality(A) <= N
      BY <1>1, <2>1, FS_Subset, FS_CardinalityType DEF V, N
    <2> QED BY <1>1, <2>1, <2>2
  <1>19. /\ P(i) \subseteq A
         /\ \A D : IsClosed(g, D) /\ P(i) \subseteq D => A \subseteq D
    BY <1>17 DEF A
  <1>20. P(i) = ParentSet(g.vertices[i])
    BY <1>3 DEF ids
  <1>21. A = Ancestors(g, i)
    BY <1>2 DEF A
  <1> QED BY <1>18, <1>19, <1>20, <1>21 DEF IsClosure

(* Insertion closes what was closed, and reaches nothing new from old ids.  *)
LEMMA InsertKeepsClosure ==
    ASSUME NEW g, NEW t, GraphOK(g), t.id \in TxHash, GraphVerdict(g, t) = "Ok",
           NEW h, h = InsertVertex(g, t), NEW S, NEW C, IsClosure(g, S, C)
    PROVE  IsClosure(h, S, C)
  <1>1. t.id \notin VertexSet(g) /\ VertexSet(h) = VertexSet(g) \cup {t.id}
    BY VerdictOk, InsertedFields
  <1>2. \A j \in VertexSet(g) : h.vertices[j] = g.vertices[j]
    BY <1>1 DEF InsertVertex, VertexSet
  <1>3. C \subseteq VertexSet(g) /\ S \subseteq C
    BY DEF IsClosure, IsClosed
  <1>4. IsClosed(h, C)
    BY <1>1, <1>2 DEF IsClosure, IsClosed
  <1>5. \A j \in VertexSet(g) : ParentSet(g.vertices[j]) \subseteq VertexSet(g)
    BY DEF GraphOK, ParentsStored, ParentSet
  <1>6. ASSUME NEW D, IsClosed(h, D), S \subseteq D PROVE C \subseteq D
    <2>1. IsClosed(g, D \cap VertexSet(g))
      BY <1>1, <1>2, <1>5, <1>6 DEF IsClosed
    <2>2. S \subseteq D \cap VertexSet(g)
      BY <1>3, <1>6
    <2>3. C \subseteq D \cap VertexSet(g)
      BY <2>1, <2>2 DEF IsClosure
    <2> QED BY <2>3
  <1> QED BY <1>3, <1>4, <1>6 DEF IsClosure

(* The walk of an insertion raises exactly the ancestors of the new vertex. *)
LEMMA RaisedFacts ==
    ASSUME NEW g, NEW t, GraphOK(g), t.id \in TxHash, GraphVerdict(g, t) = "Ok",
           Cardinality(VertexSet(g)) <= ANCESTOR_WALK_BOUND
    PROVE  IsClosure(g, ParentSet(t), WeightedAncestors(g, t.parent_1, t.parent_2))
  <1> DEFINE S == VertexSet(g)
             s == Link(t.parent_1) \o Link(t.parent_2)
  <1>1. {t.parent_1, t.parent_2} \subseteq S \cup {NULL_PARENT}
    BY InsertedParents
  <1>2. IsLinks(S, t.parent_1, t.parent_2, s)
    BY <1>1, LinkElements
  <1>3. S \ {NULL_PARENT} = S
    BY DagGraphAssumption DEF GraphOK
  <1>4. WeightedAncestors(g, t.parent_1, t.parent_2) = Walk(g, s).visited
    BY DEF WeightedAncestors
  <1> HIDE DEF s
  <1>5. s \in Seq(S) /\ Len(s) <= 2 /\ Elements(s) = ParentSet(t)
    BY <1>2, <1>3 DEF IsLinks, ParentSet
  <1>6. IsClosure(g, Elements(s), Walk(g, s).visited)
    BY <1>5, WalkFacts
  <1> QED BY <1>4, <1>5, <1>6

(* ... so that every weight keeps counting the vertex and its approvers.    *)
LEMMA InsertKeepsWeights ==
    ASSUME NEW g, NEW t, GraphOK(g), t.id \in TxHash, GraphVerdict(g, t) = "Ok",
           Cardinality(VertexSet(g)) <= ANCESTOR_WALK_BOUND, WeightsExact(g),
           NEW h, h = InsertVertex(g, t),
           Cardinality(UserVertices(h)) + 1 <= U64_MAX
    PROVE  WeightsExact(h)
  <1> DEFINE R == WeightedAncestors(g, t.parent_1, t.parent_2)
             Approvers(i) == {j \in VertexSet(g) : i \in Ancestors(g, j)}
             Now(i) == {j \in VertexSet(h) : i \in Ancestors(h, j)}
  <1>1. t.id \notin VertexSet(g) /\ VertexSet(h) = VertexSet(g) \cup {t.id}
    BY VerdictOk, InsertedFields
  <1>2. h.vertices[t.id] = t /\ \A j \in VertexSet(g) : h.vertices[j] = g.vertices[j]
    BY <1>1 DEF InsertVertex, VertexSet
  <1>3. GraphOK(h)
    BY InsertKeepsGraph
  <1>4. Ancestors(h, t.id) = R /\ R \subseteq VertexSet(g)
    <2>1. IsClosure(g, ParentSet(t), R)
      BY RaisedFacts
    <2>2. IsClosure(h, ParentSet(t), R)
      BY <2>1, InsertKeepsClosure
    <2>3. IsClosure(h, ParentSet(t), Ancestors(h, t.id))
      BY <1>1, <1>2, <1>3, AncestorsFacts
    <2>4. R \subseteq VertexSet(g)
      BY <2>1 DEF IsClosure, IsClosed
    <2> QED BY <2>2, <2>3, <2>4, ClosureUnique
  <1>5. ASSUME NEW j \in VertexSet(g)
        PROVE  Ancestors(h, j) = Ancestors(g, j) /\ Ancestors(g, j) \subseteq VertexSet(g)
    <2>1. IsClosure(g, ParentSet(g.vertices[j]), Ancestors(g, j))
      BY AncestorsFacts
    <2>2. IsClosure(h, ParentSet(g.vertices[j]), Ancestors(g, j))
      BY <2>1, InsertKeepsClosure
    <2>3. IsClosure(h, ParentSet(g.vertices[j]), Ancestors(h, j))
      BY <1>1, <1>2, <1>3, AncestorsFacts
    <2>4. Ancestors(g, j) \subseteq VertexSet(g)
      BY <2>1 DEF IsClosure, IsClosed
    <2> QED BY <2>2, <2>3, <2>4, ClosureUnique
  <1>6. /\ \A i \in VertexSet(g) : g.weights[i] = 1 + Cardinality(Approvers(i))
        /\ h.weights[t.id] = 1
        /\ \A i \in VertexSet(g) :
              h.weights[i] = IF i \in R THEN SaturatingAdd(g.weights[i], 1) ELSE g.weights[i]
    BY <1>1 DEF WeightsExact, InsertVertex
  <1> HIDE DEF R
  <1>7. Now(t.id) = {}
    BY <1>1, <1>4, <1>5
  <1>8. ASSUME NEW i \in VertexSet(g)
        PROVE  Now(i) = IF i \in R THEN Approvers(i) \cup {t.id} ELSE Approvers(i)
    BY <1>1, <1>4, <1>5
  <1>9. IsFiniteSet(VertexSet(g)) /\ IsFiniteSet(VertexSet(h))
    BY <1>3 DEF GraphOK
  <1>10. ASSUME NEW i \in VertexSet(h), NEW j \in Now(i) PROVE j \in UserVertices(h)
    <2>1. IsClosure(h, ParentSet(h.vertices[j]), Ancestors(h, j))
      BY <1>3, AncestorsFacts
    <2>2. CASE is_genesis(h.vertices[j])
      <3>1. ParentSet(h.vertices[j]) = {}
        BY <2>2 DEF is_genesis, ParentSet
      <3>2. IsClosed(h, {})
        BY DEF IsClosed
      <3>3. Ancestors(h, j) = {}
        BY <2>1, <3>1, <3>2 DEF IsClosure
      <3> QED BY <3>3
    <2> QED BY <2>2 DEF UserVertices
  <1>11. ASSUME NEW i \in VertexSet(g)
         PROVE  h.weights[i] = 1 + Cardinality(Now(i))
    <2> DEFINE a == Cardinality(Approvers(i))
               u == Cardinality(UserVertices(h))
    <2>1. IsFiniteSet(Approvers(i)) /\ a \in Nat
      BY <1>9, FS_Subset, FS_CardinalityType
    <2>2. g.weights[i] = 1 + a
      BY <1>6
    <2>3. CASE i \notin R
      <3>1. Now(i) = Approvers(i) /\ h.weights[i] = g.weights[i]
        BY <1>6, <1>8, <2>3
      <3> HIDE DEF Now, Approvers
      <3> QED BY <2>2, <3>1
    <2>4. CASE i \in R
      <3>1. Now(i) = Approvers(i) \cup {t.id} /\ h.weights[i] = SaturatingAdd(g.weights[i], 1)
        BY <1>6, <1>8, <2>4
      <3>2. Cardinality(Now(i)) = a + 1
        <4>1. t.id \notin Approvers(i)
          BY <1>1
        <4> HIDE DEF Now, Approvers
        <4> QED BY <2>1, <3>1, <4>1, FS_AddElement
      <3>3. Cardinality(Now(i)) <= u /\ u \in Nat
        <4>1. UserVertices(h) \subseteq VertexSet(h) /\ IsFiniteSet(UserVertices(h))
          BY <1>9, FS_Subset DEF UserVertices
        <4>2. i \in VertexSet(h)
          BY <1>1
        <4>3. Now(i) \subseteq UserVertices(h)
          BY <1>10, <4>2
        <4> HIDE DEF Now
        <4> QED BY <4>1, <4>3, FS_Subset, FS_CardinalityType
      <3>4. U64_MAX \in Nat /\ u + 1 <= U64_MAX
        BY EconomicsAssumption
      <3> HIDE DEF Now, Approvers, a, u
      <3>5. (1 + a) + 1 <= U64_MAX
        BY <2>1, <3>2, <3>3, <3>4
      <3>6. SaturatingAdd(1 + a, 1) = 1 + (a + 1)
        BY <2>1, <3>4, <3>5 DEF SaturatingAdd
      <3> QED BY <2>2, <3>1, <3>2, <3>6
    <2> QED BY <2>3, <2>4
  <1>12. h.weights[t.id] = 1 + Cardinality(Now(t.id))
    <2>1. Cardinality({}) = 0
      BY FS_EmptySet
    <2> HIDE DEF Now
    <2> QED BY <1>6, <1>7, <2>1
  <1> QED BY <1>1, <1>11, <1>12 DEF WeightsExact

-----------------------------------------------------------------------------
(* The bodies of some vertices, in attach order.                           *)

(* txs lists the vertices ids of g, each once.                              *)
ListsOnce(g, ids, txs) ==
    /\ DOMAIN txs = 1 .. Len(txs)
    /\ Len(txs) = Cardinality(ids)
    /\ Len(txs) \in Nat
    /\ {txs[n].id : n \in 1 .. Len(txs)} = ids
    /\ \A n \in 1 .. Len(txs) : txs[n] = g.vertices[txs[n].id]
    /\ \A m, n \in 1 .. Len(txs) : txs[m].id = txs[n].id => m = n

(* One more body at the end of such a list.                                 *)
LEMMA ListsOneMore ==
    ASSUME NEW g, NEW W, NEW ids, IsFiniteSet(ids), NEW txs \in Seq(W),
           ListsOnce(g, ids, txs),
           NEW x, x \notin ids, g.vertices[x].id = x, g.vertices[x] \in W
    PROVE  ListsOnce(g, ids \cup {x}, Append(txs, g.vertices[x]))
  <1> DEFINE t == g.vertices[x]
             more == Append(txs, t)
             k == Len(txs)
  <1>1. /\ k \in Nat /\ Len(more) = k + 1 /\ DOMAIN more = 1 .. k + 1
        /\ more[k + 1] = t /\ \A n \in 1 .. k : more[n] = txs[n]
    OBVIOUS
  <1> HIDE DEF more, k
  <1>2. /\ k = Cardinality(ids)
        /\ {txs[n].id : n \in 1 .. k} = ids
        /\ \A n \in 1 .. k : txs[n] = g.vertices[txs[n].id]
        /\ \A m, n \in 1 .. k : txs[m].id = txs[n].id => m = n
    BY DEF ListsOnce, k
  <1>3. Cardinality(ids \cup {x}) = k + 1
    BY <1>2, FS_AddElement
  <1>4. t.id = x
    OBVIOUS
  <1>5. \A n \in 1 .. k + 1 : n \in 1 .. k \/ n = k + 1
    BY <1>1
  <1>6. {more[n].id : n \in 1 .. k + 1} = ids \cup {x}
    <2>1. \A n \in 1 .. k : n \in 1 .. k + 1 /\ more[n].id = txs[n].id
      BY <1>1
    <2>2. k + 1 \in 1 .. k + 1 /\ more[k + 1].id = x
      BY <1>1
    <2> QED BY <1>2, <1>5, <2>1, <2>2
  <1>7. \A n \in 1 .. k + 1 : more[n] = g.vertices[more[n].id]
    BY <1>1, <1>2, <1>4, <1>5
  <1>8. \A n \in 1 .. k : txs[n].id # x
    BY <1>2
  <1>9. \A m, n \in 1 .. k + 1 : more[m].id = more[n].id => m = n
    BY <1>1, <1>2, <1>4, <1>5, <1>8
  <1> QED BY <1>1, <1>3, <1>6, <1>7, <1>9 DEF ListsOnce, more

(* What the attach order adds to a list of bodies, position by position.    *)
Listed(g, ids, txs, n) ==
    IF g.attach_order[n] \in ids THEN Append(txs, g.vertices[g.attach_order[n]]) ELSE txs

IsBodyRun(g, ids, run) ==
    LET N == Len(g.attach_order)
    IN  /\ run[0] = <<>>
        /\ \A n \in 1 .. N : run[n] = Listed(g, ids, run[n - 1], n)
        /\ transactions_for_in_order(g, ids) = run[N]

(* transactions_for_in_order builds its list along such a run.              *)
LEMMA BodyRun ==
    ASSUME NEW g, GraphOK(g), NEW ids
    PROVE  \E run : IsBodyRun(g, ids, run)
  <1> DEFINE order == g.attach_order
             N     == Len(order)
             W     == {g.vertices[i] : i \in VertexSet(g)}
             V     == Seq(W)
             Step(x, n) == Listed(g, ids, x, n)
             step  == [p \in V \X (1 .. N) |-> Step(p[1], p[2])]
             Eq(h) == h = [s \in SUBSET (1 .. N) |->
                             IF s = {} THEN <<>> ELSE Step(h[s \ {Max(s)}], Max(s))]
             iter  == CHOOSE h : Eq(h)
             run   == [n \in 0 .. N |-> iter[1 .. n]]
             txs   == transactions_for_in_order(g, ids)
  <1>1. /\ order \in Seq(TxHash) /\ N \in Nat /\ DOMAIN order = 1 .. N
    BY DEF GraphOK
  <1>2. \A n \in 1 .. N : order[n] \in VertexSet(g)
    BY <1>1 DEF GraphOK, OrderTopological, ToSet
  <1>3. txs = iter[1 .. N]
    BY <1>1 DEF transactions_for_in_order, FoldLeft, MapThenFoldSet, Listed
  <1> HIDE DEF order, N
  <1>4. \A x \in V : \A n \in 1 .. N : Step(x, n) \in V
    <2> SUFFICES ASSUME NEW x \in V, NEW n \in 1 .. N PROVE Step(x, n) \in V
      OBVIOUS
    <2>1. g.vertices[order[n]] \in W
      BY <1>2
    <2> QED BY <2>1 DEF Listed, order
  <1>5. \A x \in V : \A n \in 1 .. N : step[<<x, n>>] = Step(x, n)
    OBVIOUS
  <1>6. \A p \in V \X (1 .. N) : step[p] \in V
    BY <1>4
  <1>7. <<>> \in V
    OBVIOUS
  <1> HIDE DEF step, V
  <1>8. PICK it : IsFold(V, <<>>, step, N, it)
    BY <1>1, <1>6, <1>7, FoldExists
  <1>9. ASSUME NEW s \in SUBSET (1 .. N)
        PROVE  it[s] = IF s = {} THEN <<>> ELSE Step(it[s \ {Max(s)}], Max(s))
    <2>1. CASE s = {}
      BY <1>8, <2>1 DEF IsFold
    <2>2. CASE s # {}
      <3>1. Max(s) \in 1 .. N
        BY <1>1, <2>2, MaxOfIndices
      <3>2. it[s \ {Max(s)}] \in V
        BY <1>8 DEF IsFold
      <3>3. it[s] = step[<<it[s \ {Max(s)}], Max(s)>>]
        BY <1>8, <2>2 DEF IsFold
      <3> HIDE DEF Step
      <3> QED BY <1>5, <2>2, <3>1, <3>2, <3>3
    <2> QED BY <2>1, <2>2
  <1>10. it = [s \in SUBSET (1 .. N) |-> it[s]]
    BY <1>8 DEF IsFold
  <1> HIDE DEF Step
  <1>11. Eq(it)
    BY <1>9, <1>10, Zenon
  <1>12. \E h : Eq(h)
    <2> HIDE DEF Eq
    <2> QED BY <1>11
  <1>13. Eq(iter)
    <2> HIDE DEF Eq
    <2> QED BY <1>12
  <1>14. \A s \in SUBSET (1 .. N) :
           iter[s] = IF s = {} THEN <<>> ELSE Step(iter[s \ {Max(s)}], Max(s))
    BY <1>13, Zenon
  <1> HIDE DEF iter
  <1>15. run[0] = <<>>
    <2>1. 1 .. 0 = {} /\ 0 \in 0 .. N
      BY <1>1
    <2> QED BY <1>14, <2>1, Zenon
  <1>16. ASSUME NEW n \in 1 .. N PROVE run[n] = Step(run[n - 1], n)
    <2>1. n \in 0 .. N /\ n - 1 \in 0 .. N /\ 1 .. n \in SUBSET (1 .. N)
      BY <1>1
    <2>2. n \in Nat /\ n # 0
      BY <1>1
    <2>3. 1 .. n # {} /\ Max(1 .. n) = n /\ (1 .. n) \ {n} = 1 .. n - 1
      BY <2>2, MaxOfPrefix
    <2> QED BY <1>14, <2>1, <2>3, Zenon
  <1>17. txs = run[N]
    BY <1>1, <1>3
  <1> HIDE DEF run, txs
  <1>18. IsBodyRun(g, ids, run)
    BY <1>15, <1>16, <1>17 DEF IsBodyRun, N, order, txs, Step
  <1> QED BY <1>18

(* transactions_for_in_order lists each of the wanted vertices that are     *)
(* stored once.                                                             *)
IsBodyList(g, ids, txs) ==
    /\ ListsOnce(g, VertexSet(g) \cap ids, txs)
    /\ txs \in Seq({g.vertices[i] : i \in VertexSet(g)})

LEMMA StoredBodies ==
    ASSUME NEW g, GraphOK(g), \A i \in VertexSet(g) : g.vertices[i].id = i,
           NEW ids, NEW txs, txs = transactions_for_in_order(g, ids)
    PROVE  IsBodyList(g, ids, txs)
  <1> DEFINE order == g.attach_order
             N     == Len(order)
             W     == {g.vertices[i] : i \in VertexSet(g)}
             Before(n) == {order[m] : m \in 1 .. n}
  <1>1. /\ order \in Seq(TxHash) /\ N \in Nat /\ DOMAIN order = 1 .. N
        /\ Before(N) = VertexSet(g)
        /\ \A m, n \in 1 .. N : order[m] = order[n] => m = n
        /\ IsFiniteSet(VertexSet(g))
    BY DEF GraphOK, OrderTopological, ToSet, NoRepeats
  <1>2. \A n \in 1 .. N : order[n] \in VertexSet(g)
    BY <1>1
  <1>8. PICK run : IsBodyRun(g, ids, run)
    BY BodyRun
  <1>15. run[0] = <<>>
    BY <1>8 DEF IsBodyRun
  <1>16. \A n \in 1 .. N : run[n] = Listed(g, ids, run[n - 1], n)
    BY <1>8 DEF IsBodyRun
  <1>17. txs = run[N]
    BY <1>8 DEF IsBodyRun
  <1> HIDE DEF order, N
  <1> DEFINE T == {n \in 0 .. N : run[n] \in Seq(W) /\ ListsOnce(g, Before(n) \cap ids, run[n])}
  <1>18. 0 \in T
    <2>1. Before(0) \cap ids = {} /\ 0 \in 0 .. N
      BY <1>1
    <2>2. Cardinality({}) = 0
      BY FS_EmptySet
    <2>3. ListsOnce(g, {}, <<>>)
      BY <2>2 DEF ListsOnce
    <2>4. run[0] \in Seq(W) /\ ListsOnce(g, Before(0) \cap ids, run[0])
      <3> HIDE DEF Before, W
      <3>1. <<>> \in Seq(W)
        OBVIOUS
      <3> QED BY <1>15, <2>1, <2>3, <3>1, Zenon
    <2> QED BY <2>1, <2>4, Zenon
  <1>19. ASSUME NEW n \in 1 .. N, n - 1 \in T PROVE n \in T
    <2> DEFINE x == order[n]
               seen == Before(n - 1) \cap ids
    <2>1. run[n - 1] \in Seq(W) /\ ListsOnce(g, seen, run[n - 1]) /\ n \in 0 .. N
      BY <1>1, <1>19
    <2>2. Before(n) = Before(n - 1) \cup {x} /\ x \notin Before(n - 1)
      <3>1. 1 .. n = (1 .. n - 1) \cup {n}
        BY <1>1
      <3>2. \A m \in 1 .. n - 1 : m \in 1 .. N /\ m # n
        BY <1>1
      <3> QED BY <1>1, <3>1, <3>2
    <2>3. x \in VertexSet(g) /\ g.vertices[x].id = x /\ g.vertices[x] \in W
      BY <1>2
    <2>4. IsFiniteSet(seen)
      BY <1>1, FS_Subset
    <2>5. CASE x \in ids
      <3>1. Before(n) \cap ids = seen \cup {x} /\ x \notin seen
        BY <2>2, <2>5
      <3>2. run[n] = Append(run[n - 1], g.vertices[x])
        BY <1>16, <2>5 DEF Listed, order
      <3> HIDE DEF seen, x, W
      <3>3. ListsOnce(g, seen \cup {x}, Append(run[n - 1], g.vertices[x]))
        BY <2>1, <2>3, <2>4, <3>1, ListsOneMore
      <3>4. run[n] \in Seq(W)
        BY <2>1, <2>3, <3>2
      <3> HIDE DEF Before
      <3> QED BY <2>1, <3>1, <3>2, <3>3, <3>4
    <2>6. CASE x \notin ids
      <3>1. Before(n) \cap ids = seen
        BY <2>2, <2>6
      <3>2. run[n] = run[n - 1]
        BY <1>16, <2>6 DEF Listed, order
      <3> HIDE DEF Before, seen
      <3> QED BY <2>1, <3>1, <3>2
    <2> QED BY <2>5, <2>6
  <1>20. N \in T
    <2>1. \A n \in 0 .. N : n \in T
      <3> HIDE DEF T
      <3> QED BY <1>1, <1>18, <1>19, IndexSetInduction
    <2>2. N \in 0 .. N
      BY <1>1
    <2> HIDE DEF T
    <2> QED BY <2>1, <2>2
  <1>21. Before(N) \cap ids = VertexSet(g) \cap ids
    BY <1>1
  <1> HIDE DEF Before
  <1>22. run[N] \in Seq(W) /\ ListsOnce(g, VertexSet(g) \cap ids, run[N])
    BY <1>20, <1>21
  <1> QED BY <1>17, <1>22 DEF IsBodyList, W

(* ... and so all of them once when all are stored.                         *)
LEMMA OrderedBodies ==
    ASSUME NEW g, GraphOK(g), \A i \in VertexSet(g) : g.vertices[i].id = i,
           NEW ids, ids \subseteq VertexSet(g),
           NEW txs, txs = transactions_for_in_order(g, ids)
    PROVE  ListsOnce(g, ids, txs)
  <1>1. IsBodyList(g, ids, txs)
    BY StoredBodies
  <1>2. VertexSet(g) \cap ids = ids
    OBVIOUS
  <1> QED BY <1>1, <1>2 DEF IsBodyList

-----------------------------------------------------------------------------
(* The conflict rule.                                                      *)

(* Among the rivals of a spend exactly one outranks all others: weights and *)
(* then ids order them totally.                                             *)
LEMMA WinnerFacts ==
    ASSUME NEW g, GraphOK(g), NEW i \in UserVertices(g)
    PROVE  /\ Winner(g, i) \in Rivals(g, i)
           /\ \A j \in Rivals(g, i) \ {Winner(g, i)} : Outranks(g, Winner(g, i), j)
  <1> DEFINE R == Rivals(g, i)
             Top(s) == \E w \in s : \A j \in s \ {w} : Outranks(g, w, j)
             T == {s \in SUBSET R : s # {} => Top(s)}
  <1>1. R \subseteq VertexSet(g) /\ IsFiniteSet(R) /\ i \in R
    <2>1. R \subseteq VertexSet(g) /\ i \in R
      BY DEF Rivals, UserVertices
    <2> QED BY <2>1, FS_Subset DEF GraphOK
  <1>2. \A j \in R : j \in Nat /\ g.weights[j] \in Nat
    <2>1. VertexSet(g) \subseteq Nat
      BY DagGraphAssumption DEF GraphOK
    <2>2. \A j \in VertexSet(g) : g.weights[j] \in Nat
      BY EconomicsAssumption DEF GraphOK
    <2> QED BY <1>1, <2>1, <2>2
  <1> HIDE DEF R
  <1>3. {} \in T
    OBVIOUS
  <1>4. ASSUME NEW s \in SUBSET R, s # {}, \A x \in s : s \ {x} \in T
        PROVE  s \in T
    <2>1. PICK a \in s : TRUE
      BY <1>4
    <2>2. CASE s \ {a} = {}
      <3>1. \A j \in s \ {a} : Outranks(g, a, j)
        BY <2>2
      <3> QED BY <2>1, <3>1
    <2>3. CASE s \ {a} # {}
      <3>1. PICK b \in s \ {a} : \A j \in (s \ {a}) \ {b} : Outranks(g, b, j)
        BY <1>4, <2>1, <2>3
      <3>2. /\ a \in Nat /\ g.weights[a] \in Nat /\ b \in Nat /\ g.weights[b] \in Nat
            /\ a # b
        BY <1>2, <2>1, <3>1
      <3>3. CASE Outranks(g, b, a)
        <4>1. \A j \in s \ {b} : Outranks(g, b, j)
          BY <3>1, <3>3
        <4> QED BY <3>1, <4>1
      <3>4. CASE ~Outranks(g, b, a)
        <4>1. Outranks(g, a, b)
          BY <3>2, <3>4 DEF Outranks
        <4>2. ASSUME NEW j \in s \ {a} PROVE Outranks(g, a, j)
          <5>1. j = b \/ Outranks(g, b, j)
            BY <3>1
          <5>2. j \in Nat /\ g.weights[j] \in Nat
            BY <1>2
          <5> QED BY <3>2, <4>1, <5>1, <5>2 DEF Outranks
        <4> QED BY <2>1, <4>2
      <3> QED BY <3>3, <3>4
    <2> QED BY <2>2, <2>3
  <1>5. R \in T
    <2>1. \A s \in SUBSET R : s \in T
      <3> HIDE DEF T
      <3> QED BY <1>1, <1>3, <1>4, SubsetInduction
    <2>2. R \in SUBSET R
      OBVIOUS
    <2> HIDE DEF T
    <2> QED BY <2>1, <2>2
  <1>6. \E w \in R : \A j \in R \ {w} : Outranks(g, w, j)
    BY <1>1, <1>5
  <1> QED BY <1>6 DEF Winner, R

-----------------------------------------------------------------------------
(* The state of a replica.                                                 *)

(* Every stored vertex is the protocol genesis or one of the vertices that  *)
(* may arrive, under its own id.                                            *)
StoredFrom(g, Known) ==
    /\ GenesisId \in VertexSet(g)
    /\ \A i \in VertexSet(g) :
          /\ g.vertices[i].id = i
          /\ IF i = GenesisId THEN g.vertices[i] = signed_genesis_tx
                              ELSE g.vertices[i] \in Known

KnownOK(Known) ==
    /\ \A t \in Known : t.id \in TxHash \ {GenesisId} /\ IsTransaction(t)
    /\ IsFiniteSet({t.id : t \in Known})

(* 64 bits hold what the known vertices and the faucet can add up to.       *)
KnownRoom(Known, faucet) == RoomFor(faucet, Cardinality({t.id : t \in Known}))

ConflictsOK(d) ==
    /\ DOMAIN d.conflicts \subseteq UserVertices(d.graph)
    /\ d.conflicts \in [DOMAIN d.conflicts -> TxHash \cup {NULL_PARENT}]

ReplicaState(d, Known) ==
    /\ ReplicaOK(d)
    /\ StoredFrom(d.graph, Known)
    /\ ConflictsOK(d)
    /\ d.faucet \in [Address -> 0 .. U64_MAX]
    /\ LedgerOK(d.ledger, d.faucet)
    /\ d.ledger.dag_tx_count <= Cardinality(UserVertices(d.graph))

(* The ledger counts the applied vertices.                                  *)
Counted(d) == LedgerCounts(d.ledger, d.graph.vertices, Applied(d))

(* No stored spend moves more than 64 bits hold.                            *)
AmountsFit(g) ==
    \A i \in UserVertices(g) : g.vertices[i].amount + FIXED_TRANSACTION_FEE <= U64_MAX

(* The vertices beside genesis are known, stored and finitely many.         *)
LEMMA UserVerticesFacts ==
    ASSUME NEW g, NEW Known, GraphOK(g), StoredFrom(g, Known), KnownOK(Known)
    PROVE  /\ UserVertices(g) \subseteq {t.id : t \in Known}
           /\ UserVertices(g) \subseteq VertexSet(g)
           /\ IsFiniteSet(UserVertices(g))
           /\ Cardinality(UserVertices(g)) \in Nat
           /\ Cardinality(UserVertices(g)) <= Cardinality({t.id : t \in Known})
           /\ \A i \in UserVertices(g) :
                 /\ g.vertices[i].id = i
                 /\ IsTransaction(g.vertices[i]) /\ ~is_genesis(g.vertices[i])
  <1>1. is_genesis(signed_genesis_tx)
    BY DEF is_genesis, signed_genesis_tx
  <1>2. ASSUME NEW i \in UserVertices(g)
        PROVE  /\ i \in VertexSet(g) /\ g.vertices[i] \in Known /\ g.vertices[i].id = i
               /\ ~is_genesis(g.vertices[i])
    BY <1>1 DEF UserVertices, StoredFrom
  <1>3. UserVertices(g) \subseteq {t.id : t \in Known}
    BY <1>2
  <1>4. /\ IsFiniteSet(UserVertices(g))
        /\ Cardinality(UserVertices(g)) <= Cardinality({t.id : t \in Known})
    BY <1>3, FS_Subset DEF KnownOK
  <1>5. Cardinality(UserVertices(g)) \in Nat
    BY <1>4, FS_CardinalityType
  <1> QED BY <1>2, <1>3, <1>4, <1>5 DEF KnownOK

(* No known vertex moves more than 64 bits hold.  A stored loser that does  *)
(* would abort a rebuild halfway: the ledger is then one of a prefix while  *)
(* the record of losers is the old one.                                     *)
Payable(Known) == \A t \in Known : t.amount + FIXED_TRANSACTION_FEE <= U64_MAX

(* The amounts of stored spends are those of known vertices.                *)
LEMMA StoredAmounts ==
    ASSUME NEW g, NEW Known, StoredFrom(g, Known), Payable(Known)
    PROVE  AmountsFit(g)
  <1>1. is_genesis(signed_genesis_tx)
    BY DEF is_genesis, signed_genesis_tx
  <1>2. \A i \in UserVertices(g) : g.vertices[i] \in Known
    BY <1>1 DEF UserVertices, StoredFrom
  <1> QED BY <1>2 DEF AmountsFit, Payable

(* In such a state every field of the replica is of its type.               *)
LEMMA ReplicaTyped ==
    ASSUME NEW Known, KnownOK(Known), NEW d, ReplicaState(d, Known),
           KnownRoom(Known, d.faucet)
    PROVE  IsReplica(d)
  <1> DEFINE g == d.graph
             L == d.ledger
  <1>1. /\ GraphOK(g) /\ StoredFrom(g, Known) /\ ConflictsOK(d)
        /\ d.faucet \in [Address -> 0 .. U64_MAX]
        /\ L \in Ledgers
        /\ L.dag_tx_count <= Cardinality(UserVertices(g))
    BY DEF ReplicaState, ReplicaOK, LedgerOK
  <1>2. L.dag_tx_count \in 0 .. U64_MAX
    <2> DEFINE K == Cardinality({t.id : t \in Known})
               c == Cardinality(UserVertices(g))
    <2>1. c \in Nat /\ c <= K
      BY <1>1, UserVerticesFacts
    <2>2. K \in Nat /\ K + 1 <= U64_MAX /\ U64_MAX \in Nat
      BY FS_CardinalityType, EconomicsAssumption DEF KnownOK, KnownRoom, RoomFor
    <2>3. L.dag_tx_count \in Nat /\ L.dag_tx_count <= c
      BY <1>1, LedgerFields
    <2> HIDE DEF K, c
    <2> QED BY <2>1, <2>2, <2>3
  <1>3. 0 .. HARD_CAP \subseteq 0 .. U64_MAX
    BY EconomicsAssumption
  <1>4. L \in [balances : [Address -> 0 .. U64_MAX],
               next_nonce : [Address -> 0 .. U64_MAX],
               relay_credits : [Address -> 0 .. U64_MAX],
               current_supply : 0 .. U64_MAX,
               dag_tx_count : 0 .. U64_MAX]
    <2> HIDE DEF L
    <2> QED BY <1>1, <1>2, <1>3 DEF Ledgers
  <1>5. /\ VertexSet(g) \subseteq TxHash
        /\ \A i \in VertexSet(g) : g.vertices[i].id = i
        /\ g.attach_order \in Seq(TxHash)
        /\ g.weights \in [VertexSet(g) -> 0 .. U64_MAX]
        /\ g.children \in [VertexSet(g) -> SUBSET VertexSet(g)]
        /\ g.tips \subseteq VertexSet(g)
    BY <1>1 DEF GraphOK, StoredFrom, TipsConsistent
  <1>6. /\ d.conflicts \in [DOMAIN d.conflicts -> TxHash \cup {NULL_PARENT}]
        /\ DOMAIN d.conflicts \subseteq VertexSet(g)
    BY <1>1 DEF ConflictsOK, UserVertices
  <1> HIDE DEF g, L
  <1> QED BY <1>1, <1>4, <1>5, <1>6 DEF IsReplica, g, L

(* Finitely many signed vertices are known in this sense.                   *)
LEMMA KnownVertices ==
    ASSUME NEW V, AreVertices(V), RoomForVertices(V)
    PROVE  KnownOK(V)
  BY DEF AreVertices, RoomForVertices, KnownOK, IsTransaction

(* What insertion does to the stored spends.                                *)
LEMMA InsertedUsers ==
    ASSUME NEW g, NEW Known, GraphOK(g), StoredFrom(g, Known), KnownOK(Known),
           NEW t \in Known, GraphVerdict(g, t) = "Ok",
           NEW h, h = InsertVertex(g, t)
    PROVE  /\ GraphOK(h) /\ StoredFrom(h, Known)
           /\ ~is_genesis(t)
           /\ t.id \notin VertexSet(g)
           /\ h.vertices[t.id] = t
           /\ \A i \in VertexSet(g) : h.vertices[i] = g.vertices[i]
           /\ UserVertices(h) = UserVertices(g) \cup {t.id}
           /\ Cardinality(UserVertices(h)) = Cardinality(UserVertices(g)) + 1
  <1>1. t.id \in TxHash \ {GenesisId}
    BY DEF KnownOK
  <1>2. /\ t.id \notin VertexSet(g) /\ ~is_genesis(t)
    BY VerdictOk DEF StoredFrom
  <1>3. VertexSet(h) = VertexSet(g) \cup {t.id}
    BY InsertedFields
  <1>4. h.vertices[t.id] = t /\ \A i \in VertexSet(g) : h.vertices[i] = g.vertices[i]
    BY <1>2 DEF InsertVertex, VertexSet
  <1>5. GraphOK(h)
    BY <1>1, InsertKeepsGraph
  <1>6. StoredFrom(h, Known)
    BY <1>1, <1>2, <1>3, <1>4 DEF StoredFrom
  <1>7. UserVertices(h) = UserVertices(g) \cup {t.id}
    BY <1>2, <1>3, <1>4 DEF UserVertices
  <1>8. t.id \notin UserVertices(g)
    BY <1>2 DEF UserVertices
  <1>9. Cardinality(UserVertices(h)) = Cardinality(UserVertices(g)) + 1
    BY <1>7, <1>8, UserVerticesFacts, FS_AddElement
  <1> QED BY <1>2, <1>4, <1>5, <1>6, <1>7, <1>9

(* No walk over the known vertices and genesis reaches the bound: every     *)
(* walk for a vertex that is still to be stored sees the whole graph.       *)
WalksUncut(Known) == Cardinality({t.id : t \in Known}) <= ANCESTOR_WALK_BOUND

(* The weights stay exact when a known vertex is stored.                    *)
LEMMA StoredWeights ==
    ASSUME NEW g, NEW Known, GraphOK(g), StoredFrom(g, Known), KnownOK(Known),
           WalksUncut(Known), Cardinality({t.id : t \in Known}) + 1 <= U64_MAX,
           NEW x \in Known, GraphVerdict(g, x) = "Ok", WeightsExact(g)
    PROVE  WeightsExact(InsertVertex(g, x))
  <1> DEFINE h == InsertVertex(g, x)
             K == Cardinality({t.id : t \in Known})
             u == Cardinality(UserVertices(g))
  <1>1. /\ GraphOK(h) /\ StoredFrom(h, Known)
        /\ Cardinality(UserVertices(h)) = u + 1
    BY InsertedUsers
  <1>2. /\ u \in Nat /\ Cardinality(UserVertices(h)) <= K
        /\ IsFiniteSet(UserVertices(g))
    BY <1>1, UserVerticesFacts
  <1>3. K \in Nat /\ K <= ANCESTOR_WALK_BOUND /\ K + 1 <= U64_MAX
    BY FS_CardinalityType DEF KnownOK, WalksUncut
  <1>4. Cardinality(VertexSet(g)) <= K
    <2> DEFINE B == VertexSet(g) \ {GenesisId}
               C == B \cup {x.id}
               I == {t.id : t \in Known}
    <2>1. IsFiniteSet(VertexSet(g)) /\ GenesisId \in VertexSet(g) /\ IsFiniteSet(I)
      BY DEF GraphOK, StoredFrom, KnownOK
    <2>2. C \subseteq I /\ x.id \notin B
      <3>1. x.id \notin VertexSet(g)
        BY VerdictOk
      <3> QED BY <3>1 DEF StoredFrom
    <2>3. /\ IsFiniteSet(B) /\ Cardinality(B) = Cardinality(VertexSet(g)) - 1
          /\ Cardinality(VertexSet(g)) \in Nat
      BY <2>1, FS_RemoveElement, FS_CardinalityType
    <2> HIDE DEF B
    <2>4. Cardinality(C) = Cardinality(B) + 1 /\ Cardinality(B) \in Nat
      BY <2>2, <2>3, FS_AddElement, FS_CardinalityType
    <2> HIDE DEF C, I
    <2>5. Cardinality(C) <= Cardinality(I)
      BY <2>1, <2>2, FS_Subset
    <2> QED BY <2>3, <2>4, <2>5 DEF I
  <1>5. x.id \in TxHash
    BY DEF KnownOK
  <1>6. Cardinality(VertexSet(g)) \in Nat
    BY FS_CardinalityType DEF GraphOK
  <1>7. /\ Cardinality(VertexSet(g)) <= ANCESTOR_WALK_BOUND
        /\ Cardinality(UserVertices(h)) + 1 <= U64_MAX
    <2> DEFINE n == Cardinality(VertexSet(g))
               m == Cardinality(UserVertices(h))
    <2>1. /\ n \in Nat /\ u \in Nat /\ m = u + 1 /\ m <= K /\ n <= K /\ K \in Nat
          /\ K <= ANCESTOR_WALK_BOUND /\ K + 1 <= U64_MAX
      BY <1>1, <1>2, <1>3, <1>4, <1>6
    <2>2. ANCESTOR_WALK_BOUND \in Nat /\ U64_MAX \in Nat
      BY DagGraphAssumption, EconomicsAssumption
    <2> HIDE DEF n, m, u, K
    <2>3. n <= ANCESTOR_WALK_BOUND /\ m + 1 <= U64_MAX
      BY <2>1, <2>2
    <2> QED BY <2>3 DEF n, m
  <1> QED BY <1>5, <1>7, InsertKeepsWeights

(* A strict attach: it refuses and changes nothing, or stores the vertex,   *)
(* spends its nonce and counts it.                                          *)
IsAttach(d, Known, t, r) ==
    /\ ReplicaState(r.dag, Known)
    /\ Counted(d) => Counted(r.dag)
    /\ Applied(d) \subseteq Applied(r.dag)
    /\ r.dag.faucet = d.faucet
    /\ \/ r.dag = d /\ r.verdict # "Ok"
       \/ /\ GraphVerdict(d.graph, t) = "Ok" /\ SpendVerdict(d.ledger, t) = "Ok"
          /\ r.verdict = "Ok" /\ r.dag.graph = InsertVertex(d.graph, t)
    /\ r.verdict = IF GraphVerdict(d.graph, t) = "Ok" THEN SpendVerdict(d.ledger, t)
                   ELSE GraphVerdict(d.graph, t)

(* attach_and_verify_tx is such a strict attach.                            *)
LEMMA AttachState ==
    ASSUME NEW Known, KnownOK(Known), NEW d, ReplicaState(d, Known), NEW t \in Known,
           KnownRoom(Known, d.faucet),
           NEW r, r = attach_and_verify_tx(d, t)
    PROVE  IsAttach(d, Known, t, r)
  <1> DEFINE g == d.graph
             h == InsertVertex(g, t)
             L == d.ledger
             e == apply_ledger_effects(L, t)
  <1>1. CASE GraphVerdict(g, t) # "Ok"
    <2>1. r.dag = d /\ r.verdict = GraphVerdict(g, t)
      BY <1>1 DEF attach_and_verify_tx
    <2> QED BY <1>1, <2>1 DEF IsAttach
  <1>2. CASE GraphVerdict(g, t) = "Ok" /\ SpendVerdict(L, t) # "Ok"
    <2>1. r.dag = d /\ r.verdict = SpendVerdict(L, t)
      BY <1>2 DEF attach_and_verify_tx
    <2> QED BY <1>2, <2>1 DEF IsAttach
  <1>3. CASE GraphVerdict(g, t) = "Ok" /\ SpendVerdict(L, t) = "Ok"
    <2>1. /\ IsRecord(d) /\ GraphOK(g) /\ StoredFrom(g, Known) /\ ConflictsOK(d)
          /\ d.faucet \in [Address -> 0 .. U64_MAX]
          /\ LedgerOK(L, d.faucet)
          /\ L.dag_tx_count <= Cardinality(UserVertices(g))
      BY DEF ReplicaState, ReplicaOK
    <2>2. /\ GraphOK(h) /\ StoredFrom(h, Known)
          /\ ~is_genesis(t) /\ t.id \notin VertexSet(g)
          /\ h.vertices[t.id] = t
          /\ \A i \in VertexSet(g) : h.vertices[i] = g.vertices[i]
          /\ UserVertices(h) = UserVertices(g) \cup {t.id}
          /\ Cardinality(UserVertices(h)) = Cardinality(UserVertices(g)) + 1
      BY <1>3, <2>1, InsertedUsers
    <2> HIDE DEF h
    <2>3. r.verdict = e.verdict /\ r.dag = [d EXCEPT !.graph = h, !.ledger = e.ledger]
      BY <1>3, <2>2 DEF attach_and_verify_tx, h
    <2> HIDE DEF e
    <2>4. /\ r.dag.graph = h /\ r.dag.ledger = e.ledger /\ r.dag.faucet = d.faucet
          /\ r.dag.conflicts = d.conflicts /\ IsRecord(r.dag)
      BY <2>1, <2>3 DEF IsRecord
    <2>5. /\ L \in Ledgers /\ L.dag_tx_count \in Nat /\ L.next_nonce \in [Address -> Nat]
      <3>1. L \in Ledgers
        BY <2>1 DEF LedgerOK
      <3>2. L.dag_tx_count \in Nat /\ L.next_nonce \in [Address -> 0 .. U64_MAX]
        BY <3>1, LedgerFields
      <3> QED BY <3>1, <3>2, EconomicsAssumption
    <2>6. RoomFor(d.faucet, L.dag_tx_count + 1)
      <3> DEFINE N == Cardinality({x.id : x \in Known})
      <3>1. /\ Cardinality(UserVertices(h)) <= N /\ Cardinality(UserVertices(g)) \in Nat
        BY <2>1, <2>2, UserVerticesFacts
      <3>2. N \in Nat
        BY FS_CardinalityType DEF KnownOK
      <3>3. RoomFor(d.faucet, N)
        BY DEF KnownRoom
      <3> HIDE DEF N
      <3>4. L.dag_tx_count + 1 \in 0 .. N
        BY <2>1, <2>2, <2>5, <3>1, <3>2
      <3> QED BY <3>2, <3>3, <3>4, RoomBelow
    <2>7. IsTransaction(t)
      BY DEF KnownOK
    <2>8. IsEffect(d.faucet, L, t, e)
      BY <2>1, <2>2, <2>6, <2>7, EffectsFacts DEF e
    <2>9. /\ LedgerOK(e.ledger, d.faucet) /\ e.verdict = "Ok"
          /\ t.nonce = L.next_nonce[t.sender]
          /\ e.ledger.next_nonce = [L.next_nonce EXCEPT ![t.sender] = @ + 1]
          /\ e.ledger.dag_tx_count = L.dag_tx_count + 1
      BY <1>3, <2>8 DEF IsEffect
    <2>10. e.ledger.dag_tx_count <= Cardinality(UserVertices(h))
      <3>1. Cardinality(UserVertices(g)) \in Nat
        BY <2>1, UserVerticesFacts
      <3> QED BY <2>1, <2>2, <2>5, <2>9, <3>1
    <2>11. ConflictsOK(r.dag)
      BY <2>1, <2>2, <2>4 DEF ConflictsOK
    <2>12. ReplicaState(r.dag, Known)
      BY <2>1, <2>2, <2>4, <2>9, <2>10, <2>11 DEF ReplicaState, ReplicaOK
    <2>13. t.id \notin UserVertices(g) /\ t.id \notin DOMAIN d.conflicts
      BY <2>1, <2>2 DEF UserVertices, ConflictsOK
    <2>14. Applied(r.dag) = Applied(d) \cup {t.id} /\ t.id \notin Applied(d)
      BY <2>2, <2>4, <2>13 DEF Applied
    <2>15. ASSUME Counted(d) PROVE Counted(r.dag)
      <3> DEFINE A == Applied(d)
                 V == h.vertices
                 x == t.id
                 M == e.ledger
      <3>1. LedgerCounts(L, g.vertices, A) /\ \A i \in A : g.vertices[i] = V[i]
        BY <2>2, <2>15 DEF Counted, Applied, UserVertices
      <3> HIDE DEF A, V
      <3>2. LedgerCounts(L, V, A)
        BY <3>1, CountSame
      <3>3. V[x].sender = t.sender /\ V[x].nonce = t.nonce /\ t.sender \in Address
        BY <2>2, <2>7 DEF V, IsTransaction
      <3> HIDE DEF x, M
      <3>4. /\ V[x].sender \in Address
            /\ V[x].nonce = L.next_nonce[V[x].sender]
            /\ M.next_nonce = [L.next_nonce EXCEPT ![V[x].sender] = @ + 1]
            /\ M.dag_tx_count = L.dag_tx_count + 1
        BY <2>9, <3>3 DEF M
      <3>5. x \notin A
        BY <2>14 DEF A, x
      <3>6. LedgerCounts(M, V, A \cup {x})
        BY <2>5, <3>2, <3>4, <3>5, CountOneMore
      <3> QED BY <2>4, <2>14, <3>6 DEF Counted, A, V, x, M
    <2> QED BY <1>3, <2>3, <2>4, <2>9, <2>12, <2>14, <2>15 DEF IsAttach, h
  <1> QED BY <1>1, <1>2, <1>3

(* A rebuild: ledger and conflicts are decided afresh from graph and        *)
(* faucet.  Only a stored amount beyond 64 bits aborts it.                  *)
IsRebuild(d, Known, r) ==
    /\ ReplicaState(r.dag, Known)
    /\ r.dag.graph = d.graph /\ r.dag.faucet = d.faucet
    /\ r.verdict \in {"Ok", "Overflow"}
    /\ AmountsFit(d.graph) =>
          /\ r.verdict = "Ok" /\ Counted(r.dag)
          /\ \A i \in Applied(r.dag) : Winner(d.graph, i) = i

(* resolve_conflicts_and_rebuild_ledger is such a rebuild.                  *)
LEMMA RebuildState ==
    ASSUME NEW Known, KnownOK(Known), NEW d, ReplicaState(d, Known),
           KnownRoom(Known, d.faucet),
           NEW r, r = resolve_conflicts_and_rebuild_ledger(d)
    PROVE  IsRebuild(d, Known, r)
  <1> DEFINE g      == d.graph
             V      == g.vertices
             losers == Losers(g)
             chosen == UserVertices(g) \ losers
             txs    == SpendsInOrder(g, losers)
             N      == Len(txs)
             replay == Replay(d.faucet, txs)
             lost   == [i \in losers \cup replay.rejected |->
                          IF i \in losers THEN Winner(g, i) ELSE NULL_PARENT]
             C      == IF replay.aborted THEN d.conflicts ELSE lost
  <1>1. /\ IsRecord(d) /\ GraphOK(g) /\ StoredFrom(g, Known) /\ ConflictsOK(d)
        /\ d.faucet \in [Address -> 0 .. U64_MAX]
    BY DEF ReplicaState, ReplicaOK
  <1>2. /\ UserVertices(g) \subseteq VertexSet(g)
        /\ IsFiniteSet(UserVertices(g))
        /\ Cardinality(UserVertices(g)) \in Nat
        /\ Cardinality(UserVertices(g)) <= Cardinality({t.id : t \in Known})
        /\ \A i \in UserVertices(g) : V[i].id = i /\ IsTransaction(V[i]) /\ ~is_genesis(V[i])
    BY <1>1, UserVerticesFacts
  <1>3. /\ r.dag = [d EXCEPT !.ledger = replay.ledger, !.conflicts = C]
        /\ r.verdict = IF replay.aborted THEN "Overflow" ELSE "Ok"
    BY DEF resolve_conflicts_and_rebuild_ledger
  <1>4. /\ r.dag.graph = g /\ r.dag.faucet = d.faucet
        /\ r.dag.ledger = replay.ledger /\ r.dag.conflicts = C /\ IsRecord(r.dag)
    <2> HIDE DEF C, replay
    <2> QED BY <1>1, <1>3 DEF IsRecord
  <1>5. ListsOnce(g, chosen, txs)
    <2>1. \A i \in VertexSet(g) : V[i].id = i
      BY <1>1 DEF StoredFrom
    <2>2. chosen \subseteq VertexSet(g) /\ txs = transactions_for_in_order(g, chosen)
      BY <1>2 DEF SpendsInOrder
    <2> HIDE DEF chosen, txs
    <2> QED BY <1>1, <2>1, <2>2, OrderedBodies
  <1> HIDE DEF txs
  <1>6. /\ DOMAIN txs = 1 .. N /\ N \in Nat /\ N = Cardinality(chosen)
        /\ {txs[n].id : n \in 1 .. N} = chosen
        /\ \A n \in 1 .. N : txs[n] = V[txs[n].id]
        /\ \A m, n \in 1 .. N : txs[m].id = txs[n].id => m = n
    BY <1>5 DEF ListsOnce
  <1> HIDE DEF N
  <1>7. N <= Cardinality(UserVertices(g))
    BY <1>2, <1>6, FS_Subset
  <1>8. RoomFor(d.faucet, N)
    <2> DEFINE K == Cardinality({t.id : t \in Known})
    <2>1. K \in Nat /\ RoomFor(d.faucet, K)
      BY FS_CardinalityType DEF KnownOK, KnownRoom
    <2> DEFINE c == Cardinality(UserVertices(g))
    <2>2. c <= K /\ c \in Nat /\ N <= c /\ N \in Nat
      BY <1>2, <1>6, <1>7
    <2> HIDE DEF K, c
    <2>3. N \in 0 .. K
      BY <2>1, <2>2
    <2> QED BY <2>1, <2>3, RoomBelow
  <1>9. \A n \in 1 .. N : txs[n].id \in chosen
    BY <1>6
  <1>10. \A n \in 1 .. N : /\ IsTransaction(txs[n]) /\ ~is_genesis(txs[n])
                           /\ V[txs[n].id] = txs[n]
    BY <1>2, <1>6, <1>9
  <1> HIDE DEF chosen
  <1>11. /\ LedgerOK(replay.ledger, d.faucet)
         /\ replay.ledger.dag_tx_count <= N
         /\ replay.rejected \subseteq {txs[n].id : n \in 1 .. N}
         /\ replay.aborted => \E n \in 1 .. N : txs[n].amount + FIXED_TRANSACTION_FEE > U64_MAX
         /\ ~replay.aborted =>
              LedgerCounts(replay.ledger, V, {txs[n].id : n \in 1 .. N} \ replay.rejected)
    <2> HIDE DEF V
    <2>1. replay = Replay(d.faucet, txs)
      OBVIOUS
    <2> HIDE DEF replay
    <2>2. IsReplayed(d.faucet, txs, N, V, replay)
      BY <1>6, <1>8, <1>10, <2>1, ReplayFacts
    <2> QED BY <2>2 DEF IsReplayed
  <1> HIDE DEF replay
  <1>12. /\ replay.rejected \subseteq chosen
         /\ ~replay.aborted => LedgerCounts(replay.ledger, V, chosen \ replay.rejected)
    BY <1>6, <1>11
  <1>13. /\ losers \subseteq UserVertices(g)
         /\ \A i \in UserVertices(g) : i \in losers <=> Winner(g, i) # i
    BY DEF Losers
  <1>14. chosen = UserVertices(g) \ losers
    BY DEF chosen
  <1> HIDE DEF losers
  <1>15. ConflictsOK(r.dag)
    <2>1. CASE replay.aborted
      BY <1>1, <1>4, <2>1 DEF ConflictsOK
    <2>2. CASE ~replay.aborted
      <3>1. r.dag.conflicts = lost
        BY <1>4, <2>2
      <3>2. DOMAIN lost \subseteq UserVertices(g)
        BY <1>12, <1>13, <1>14
      <3>3. \A i \in losers : Winner(g, i) \in TxHash
        <4>1. \A i \in losers : Winner(g, i) \in VertexSet(g)
          BY <1>1, <1>13, WinnerFacts DEF Rivals, UserVertices
        <4> QED BY <1>1, <4>1 DEF GraphOK
      <3>4. \A i \in losers \cup replay.rejected : lost[i] \in TxHash \cup {NULL_PARENT}
        BY <3>3
      <3>5. lost = [i \in DOMAIN lost |-> lost[i]] /\ DOMAIN lost = losers \cup replay.rejected
        OBVIOUS
      <3> HIDE DEF lost
      <3> QED BY <1>4, <3>1, <3>2, <3>4, <3>5 DEF ConflictsOK
    <2> QED BY <2>1, <2>2
  <1>16. replay.ledger.dag_tx_count <= Cardinality(UserVertices(g))
    <2>1. replay.ledger.dag_tx_count \in Nat
      <3>1. replay.ledger \in Ledgers
        BY <1>11 DEF LedgerOK
      <3> QED BY <3>1, LedgerFields
    <2> QED BY <1>2, <1>6, <1>7, <1>11, <2>1
  <1>17. ReplicaState(r.dag, Known)
    BY <1>1, <1>4, <1>11, <1>15, <1>16 DEF ReplicaState, ReplicaOK
  <1>18. ASSUME AmountsFit(g)
         PROVE  /\ r.verdict = "Ok" /\ Counted(r.dag)
                /\ \A i \in Applied(r.dag) : Winner(g, i) = i
    <2>1. ~replay.aborted
      <3>1. ASSUME NEW n \in 1 .. N PROVE ~(txs[n].amount + FIXED_TRANSACTION_FEE > U64_MAX)
        <4>1. /\ txs[n].id \in UserVertices(g) /\ V[txs[n].id] = txs[n]
          BY <1>9, <1>10, <1>14
        <4>2. txs[n].amount + FIXED_TRANSACTION_FEE <= U64_MAX
          BY <1>18, <4>1 DEF AmountsFit
        <4>3. txs[n].amount \in Nat
          BY <1>10 DEF IsTransaction
        <4> QED BY <4>2, <4>3, EconomicsAssumption
      <3> QED BY <1>11, <3>1
    <2>2. DOMAIN r.dag.conflicts = losers \cup replay.rejected
      BY <1>4, <2>1
    <2>3. Applied(r.dag) = chosen \ replay.rejected
      BY <1>4, <1>14, <2>2 DEF Applied
    <2>4. Counted(r.dag)
      BY <1>4, <1>12, <2>1, <2>3 DEF Counted
    <2> QED BY <1>3, <1>13, <1>14, <2>1, <2>3, <2>4
  <1>19. r.verdict \in {"Ok", "Overflow"}
    BY <1>3
  <1> QED BY <1>4, <1>17, <1>18, <1>19 DEF IsRebuild

(* Storage alone, ledger and conflicts as they were.                        *)
LEMMA StoredState ==
    ASSUME NEW Known, KnownOK(Known), NEW d, ReplicaState(d, Known), NEW t \in Known,
           GraphVerdict(d.graph, t) = "Ok",
           NEW s, s = [d EXCEPT !.graph = InsertVertex(d.graph, t)]
    PROVE  ReplicaState(s, Known)
  <1> DEFINE g == d.graph
             h == InsertVertex(g, t)
  <1>1. s = [d EXCEPT !.graph = h]
    OBVIOUS
  <1>2. /\ IsRecord(d) /\ GraphOK(g) /\ StoredFrom(g, Known) /\ ConflictsOK(d)
        /\ d.faucet \in [Address -> 0 .. U64_MAX]
        /\ LedgerOK(d.ledger, d.faucet)
        /\ d.ledger.dag_tx_count <= Cardinality(UserVertices(g))
    BY DEF ReplicaState, ReplicaOK
  <1>3. /\ GraphOK(h) /\ StoredFrom(h, Known)
        /\ UserVertices(h) = UserVertices(g) \cup {t.id}
        /\ Cardinality(UserVertices(h)) = Cardinality(UserVertices(g)) + 1
    BY <1>2, InsertedUsers
  <1> HIDE DEF h
  <1>4. /\ s.graph = h /\ s.ledger = d.ledger /\ s.faucet = d.faucet
        /\ s.conflicts = d.conflicts /\ IsRecord(s)
    BY <1>1, <1>2 DEF IsRecord
  <1>5. d.ledger.dag_tx_count <= Cardinality(UserVertices(h))
    <2>1. Cardinality(UserVertices(g)) \in Nat
      BY <1>2, UserVerticesFacts
    <2>2. d.ledger.dag_tx_count \in Nat
      <3>1. d.ledger \in Ledgers
        BY <1>2 DEF LedgerOK
      <3> QED BY <3>1, LedgerFields
    <2> QED BY <1>2, <1>3, <2>1, <2>2
  <1>6. ReplicaState(s, Known)
    BY <1>2, <1>3, <1>4, <1>5 DEF ReplicaState, ReplicaOK, ConflictsOK
  <1> QED BY <1>6

(* Live ingest: a refusal, a strict attach, or for a spend that loses its   *)
(* nonce or its funds storage and a rebuild.                                *)
IsAccept(d, Known, t, r) ==
    /\ ReplicaState(r.dag, Known)
    /\ r.dag.faucet = d.faucet
    /\ \/ /\ r.dag = d /\ r.verdict # "Ok"
          /\ r.verdict = "Known" <=> t.id \in VertexSet(d.graph)
          /\ r.verdict = "UnknownParent" => GraphVerdict(d.graph, t) = "UnknownParent"
       \/ /\ GraphVerdict(d.graph, t) = "Ok" /\ r.dag.graph = InsertVertex(d.graph, t)
          /\ r.verdict \in {"Ok", "Overflow"}
          /\ \/ /\ SpendVerdict(d.ledger, t) = "Ok" /\ r.verdict = "Ok"
                /\ Counted(d) => Counted(r.dag)
                /\ Applied(d) \subseteq Applied(r.dag)
             \/ /\ SpendVerdict(d.ledger, t) \in {"DoubleSpend", "InsufficientBalance"}
                /\ AmountsFit(r.dag.graph) =>
                      /\ r.verdict = "Ok" /\ Counted(r.dag)
                      /\ \A i \in Applied(r.dag) : Winner(r.dag.graph, i) = i

(* accept_wire_vertex is such a live ingest.                                *)
LEMMA AcceptState ==
    ASSUME NEW Known, KnownOK(Known), NEW d, ReplicaState(d, Known), NEW t \in Known,
           KnownRoom(Known, d.faucet),
           NEW r, r = accept_wire_vertex(d, t)
    PROVE  IsAccept(d, Known, t, r)
  <1> DEFINE g        == d.graph
             attached == attach_and_verify_tx(d, t)
             stored   == insert_graph_only(d, t)
             rebuilt  == resolve_conflicts_and_rebuild_ledger(stored.dag)
  <1>1. r = IF t.id \in VertexSet(g) THEN [verdict |-> "Known", dag |-> d]
            ELSE IF attached.verdict \notin {"DoubleSpend", "InsufficientBalance"}
            THEN attached
            ELSE IF stored.verdict # "Ok" THEN stored ELSE rebuilt
    BY DEF accept_wire_vertex
  <1>2. IsAttach(d, Known, t, attached)
    BY AttachState
  <1>3. /\ stored.verdict = GraphVerdict(g, t)
        /\ stored.dag = IF GraphVerdict(g, t) = "Ok"
                        THEN [d EXCEPT !.graph = InsertVertex(g, t)] ELSE d
    BY DEF insert_graph_only
  <1> HIDE DEF attached
  <1>v. /\ SpendVerdict(d.ledger, t) \in
             {"Ok", "DoubleSpend", "InsufficientBalance", "Overflow"}
        /\ GraphVerdict(g, t) \in
             {"Ok", "DuplicateTx", "InvalidGenesis", "UnknownParent", "Malformed"}
        /\ t.id \in VertexSet(g) => GraphVerdict(g, t) = "DuplicateTx"
    BY DEF SpendVerdict, GraphVerdict
  <1>4. CASE t.id \in VertexSet(g)
    BY <1>1, <1>4 DEF IsAccept
  <1>5. CASE /\ t.id \notin VertexSet(g) /\ r = attached
             /\ attached.verdict \notin {"DoubleSpend", "InsufficientBalance"}
    <2>1. CASE r.dag = d /\ r.verdict # "Ok"
      BY <1>2, <1>5, <1>v, <2>1 DEF IsAccept, IsAttach
    <2>2. CASE ~(r.dag = d /\ r.verdict # "Ok")
      BY <1>2, <1>5, <2>2 DEF IsAccept, IsAttach
    <2> QED BY <2>1, <2>2
  <1>6. CASE /\ GraphVerdict(g, t) = "Ok" /\ r = rebuilt
             /\ attached.verdict \in {"DoubleSpend", "InsufficientBalance"}
    <2> DEFINE s == stored.dag
               h == InsertVertex(g, t)
    <2>1. s = [d EXCEPT !.graph = h]
      BY <1>3, <1>6
    <2> HIDE DEF h, s
    <2>4. /\ s.graph = h /\ s.ledger = d.ledger /\ s.faucet = d.faucet
          /\ s.conflicts = d.conflicts
      BY <2>1 DEF ReplicaState, ReplicaOK, IsRecord
    <2>6. ReplicaState(s, Known)
      BY <1>6, <2>1, StoredState DEF h
    <2>7. r = resolve_conflicts_and_rebuild_ledger(s)
      BY <1>6 DEF s
    <2>8. KnownRoom(Known, s.faucet)
      BY <2>4
    <2>9. IsRebuild(s, Known, r)
      BY <2>6, <2>7, <2>8, RebuildState
    <2>10. SpendVerdict(d.ledger, t) \in {"DoubleSpend", "InsufficientBalance"}
      BY <1>2, <1>6 DEF IsAttach
    <2> QED BY <1>6, <2>4, <2>9, <2>10 DEF IsAccept, IsRebuild, h
  <1>7. CASE /\ t.id \notin VertexSet(g) /\ GraphVerdict(g, t) # "Ok"
             /\ attached.verdict \in {"DoubleSpend", "InsufficientBalance"}
    BY <1>2, <1>7, <1>v DEF IsAttach
  <1> QED BY <1>1, <1>3, <1>4, <1>5, <1>6, <1>7

(* A bootstrap credit adds as much to an account as to its faucet share.    *)
LEMMA CreditState ==
    ASSUME NEW Known, KnownOK(Known), NEW d, ReplicaState(d, Known),
           NEW a \in Address, NEW amount \in Nat, d.faucet[a] + amount <= U64_MAX,
           NEW r, r = credit_account(d, a, amount),
           KnownRoom(Known, [d.faucet EXCEPT ![a] = @ + amount])
    PROVE  /\ ReplicaState(r, Known)
           /\ Counted(d) => Counted(r)
           /\ Applied(r) = Applied(d) /\ r.graph = d.graph
           /\ r.faucet = [d.faucet EXCEPT ![a] = @ + amount]
  <1> DEFINE L   == d.ledger
             bal == L.balances
             new == [bal EXCEPT ![a] = SaturatingAdd(bal[a], amount)]
             fau == [d.faucet EXCEPT ![a] = SaturatingAdd(d.faucet[a], amount)]
             M   == [L EXCEPT !.balances = new]
  <1>0. U64_MAX \in Nat /\ HARD_CAP \in Nat
    BY EconomicsAssumption
  <1>1. /\ IsRecord(d) /\ GraphOK(d.graph) /\ StoredFrom(d.graph, Known) /\ ConflictsOK(d)
        /\ d.faucet \in [Address -> 0 .. U64_MAX]
        /\ LedgerOK(L, d.faucet)
        /\ L.dag_tx_count <= Cardinality(UserVertices(d.graph))
    BY DEF ReplicaState, ReplicaOK
  <1>2. L \in Ledgers
    BY <1>1 DEF LedgerOK
  <1>3. /\ bal \in [Address -> 0 .. U64_MAX] /\ bal \in [Address -> Int]
        /\ Total(bal) \in Nat /\ bal[a] \in Nat /\ bal[a] <= Total(bal)
        /\ L.current_supply \in 0 .. HARD_CAP
    BY <1>0, <1>2, LedgerFields
  <1>4. /\ fau = [d.faucet EXCEPT ![a] = @ + amount]
        /\ fau \in [Address -> 0 .. U64_MAX] /\ fau \in [Address -> Int]
        /\ fau[a] = d.faucet[a] + amount
        /\ \A x \in Address \ {a} : fau[x] = d.faucet[x]
    <2>1. d.faucet[a] \in Nat
      BY <1>0, <1>1
    <2>2. SaturatingAdd(d.faucet[a], amount) = d.faucet[a] + amount
      BY <1>0, <2>1 DEF SaturatingAdd
    <2>3. fau = [d.faucet EXCEPT ![a] = d.faucet[a] + amount]
      BY <2>2
    <2> HIDE DEF fau
    <2>4. fau \in [Address -> 0 .. U64_MAX]
      BY <1>0, <1>1, <2>1, <2>3
    <2> QED BY <1>0, <1>1, <2>3, <2>4
  <1> HIDE DEF fau
  <1>5. Total(fau) = Total(d.faucet) + amount
    <2>1. d.faucet \in [Address -> Int] /\ Total(d.faucet) \in Nat /\ d.faucet[a] \in Nat
      <3>1. d.faucet \in [Address -> Nat]
        BY <1>0, <1>1
      <3> QED BY <3>1, TotalBounds, 0 \in Nat
    <2>2. Total(fau) = Total(d.faucet) - d.faucet[a] + fau[a]
      BY <1>4, <2>1, TotalUpdate
    <2> QED BY <1>4, <2>1, <2>2
  <1>6. Total(bal) = Total(d.faucet) + L.current_supply
    BY <1>1 DEF LedgerOK
  <1>f. Total(d.faucet) \in Nat
    <2>1. d.faucet \in [Address -> Nat]
      BY <1>0, <1>1
    <2> QED BY <2>1, TotalBounds, 0 \in Nat
  <1>7. Total(fau) + HARD_CAP <= U64_MAX
    BY <1>4 DEF KnownRoom, RoomFor
  <1>8. bal[a] + amount <= U64_MAX
    BY <1>0, <1>3, <1>5, <1>6, <1>7, <1>f
  <1>9. SaturatingAdd(bal[a], amount) = bal[a] + amount
    <2> HIDE DEF bal
    <2> QED BY <1>0, <1>3, <1>8 DEF SaturatingAdd
  <1>10. /\ new \in [Address -> 0 .. U64_MAX] /\ new \in [Address -> Int]
         /\ new[a] = bal[a] + amount
         /\ \A x \in Address \ {a} : new[x] = bal[x]
    <2>1. new = [bal EXCEPT ![a] = bal[a] + amount]
      BY <1>9
    <2> HIDE DEF new, bal
    <2>2. new \in [Address -> 0 .. U64_MAX]
      BY <1>0, <1>3, <1>8, <2>1
    <2> QED BY <1>0, <1>3, <2>1, <2>2
  <1> HIDE DEF new
  <1>11. Total(new) = Total(fau) + L.current_supply
    <2> HIDE DEF bal
    <2>1. Total(new) = Total(bal) - bal[a] + new[a]
      BY <1>3, <1>10, TotalUpdate
    <2> QED BY <1>0, <1>3, <1>5, <1>6, <1>10, <1>f, <2>1
  <1>12. r = [d EXCEPT !.ledger = M, !.faucet = fau]
    BY <1>1 DEF credit_account, IsRecord, fau, new
  <1>13. /\ M \in Ledgers /\ M.balances = new
         /\ M.next_nonce = L.next_nonce /\ M.relay_credits = L.relay_credits
         /\ M.current_supply = L.current_supply /\ M.dag_tx_count = L.dag_tx_count
    BY <1>2, <1>10 DEF Ledgers
  <1> HIDE DEF M
  <1>14. /\ r.graph = d.graph /\ r.ledger = M /\ r.faucet = fau
         /\ r.conflicts = d.conflicts /\ IsRecord(r)
    BY <1>1, <1>12 DEF IsRecord
  <1>15. LedgerOK(M, fau)
    BY <1>1, <1>11, <1>13 DEF LedgerOK
  <1>16. Applied(r) = Applied(d)
    BY <1>14 DEF Applied
  <1>17. ReplicaState(r, Known)
    BY <1>1, <1>4, <1>13, <1>14, <1>15 DEF ReplicaState, ReplicaOK, ConflictsOK
  <1>18. ASSUME Counted(d) PROVE Counted(r)
    <2> DEFINE A == Applied(d)
               V == d.graph.vertices
    <2>1. LedgerCounts(L, V, A)
      BY <1>18 DEF Counted
    <2> HIDE DEF A, V
    <2>2. LedgerCounts(M, V, A)
      BY <1>13, <2>1, CountSame
    <2> QED BY <1>14, <1>16, <2>2 DEF Counted, A, V
  <1> QED BY <1>4, <1>14, <1>16, <1>17, <1>18

(* Every replica starts with the protocol genesis, which mints nothing.     *)
LEMMA GenesisState ==
    ASSUME NEW Known, KnownOK(Known)
    PROVE  /\ ReplicaState(with_genesis, Known) /\ Counted(with_genesis)
           /\ with_genesis.faucet = NoFaucet /\ NoFaucet \in [Address -> 0 .. U64_MAX]
           /\ UserVertices(with_genesis.graph) = {}
           /\ VertexSet(with_genesis.graph) = {GenesisId}
           /\ with_genesis.ledger.balances = NoFaucet
           /\ GraphVerdict(EmptyGraph, signed_genesis_tx) = "Ok"
           /\ with_genesis.graph = InsertVertex(EmptyGraph, signed_genesis_tx)
  <1> DEFINE t == signed_genesis_tx
             L == BaselineLedger(NoFaucet)
             S == Spend(L, t)
             h == InsertVertex(EmptyGraph, t)
  <1>0. U64_MAX \in Nat \ {0} /\ NULL_PARENT = 0
    BY EconomicsAssumption, DagGraphAssumption
  <1>1. /\ t.id = GenesisId /\ is_genesis(t) /\ t.wellformed = TRUE
        /\ t.sender = GenesisSender /\ t.recipient = GenesisSender
        /\ t.amount = 0 /\ t.nonce = 0 /\ Fee(t) = 0
    BY DEF signed_genesis_tx, is_genesis, Fee
  <1>2. IsTransaction(t)
    BY DagLedgerAssumption DEF signed_genesis_tx, IsTransaction
  <1>3. NoFaucet \in [Address -> 0 .. U64_MAX]
    BY <1>0 DEF NoFaucet
  <1>4. L \in Ledgers /\ LedgerOK(L, NoFaucet)
    BY <1>3, BaselineTyped, BaselineLedgerOK
  <1>5. /\ L.balances = NoFaucet /\ L.current_supply = 0 /\ L.dag_tx_count = 0
        /\ L.next_nonce = [a \in Address |-> 0] /\ L.relay_credits = [a \in Address |-> 0]
    BY DEF BaselineLedger
  <1>6. GenesisSender \in Address /\ NoFaucet[GenesisSender] = 0
    BY DagLedgerAssumption DEF NoFaucet
  <1> HIDE DEF t, L
  <1>7. SpendVerdict(L, t) = "Ok"
    BY <1>0, <1>1, <1>5, <1>6 DEF SpendVerdict
  <1>8. VertexSet(EmptyGraph) = {}
    BY DEF VertexSet, EmptyGraph
  <1>9. GraphVerdict(EmptyGraph, t) = "Ok"
    BY <1>1, <1>8 DEF GraphVerdict
  <1>10. with_genesis = [EmptyDag EXCEPT !.graph = h, !.ledger = S]
    <2>1. EmptyDag.graph = EmptyGraph /\ EmptyDag.ledger = L
      BY DEF EmptyDag, L
    <2> QED BY <1>1, <1>7, <1>9, <2>1 DEF with_genesis, attach_and_verify_tx, t
  <1> DEFINE w == with_genesis
  <1> HIDE DEF S, h
  <1>11. /\ w.graph = h /\ w.ledger = S /\ w.faucet = NoFaucet
         /\ w.conflicts = [i \in {} |-> NULL_PARENT] /\ IsRecord(w)
    BY <1>10 DEF EmptyDag, IsRecord
  <1>12. GraphOK(h)
    <2>1. t.id \in TxHash
      BY <1>1, DagEngineAssumption
    <2> QED BY <1>9, <2>1, EmptyGraphOK, InsertKeepsGraph DEF h
  <1>13. VertexSet(h) = {GenesisId} /\ h.vertices[GenesisId] = t
    <2>1. VertexSet(h) = VertexSet(EmptyGraph) \cup {t.id}
      BY InsertedFields DEF h
    <2>2. h.vertices[t.id] = t
      BY DEF h, InsertVertex
    <2> QED BY <1>1, <1>8, <2>1, <2>2
  <1>14. StoredFrom(h, Known)
    BY <1>1, <1>13 DEF StoredFrom, t
  <1>15. UserVertices(h) = {}
    BY <1>1, <1>13 DEF UserVertices
  <1>16. /\ S \in Ledgers
         /\ Total(S.balances) = Total(L.balances) - Fee(t)
         /\ S.next_nonce = [L.next_nonce EXCEPT ![t.sender] = SaturatingAdd(@, 1)]
         /\ S.current_supply = L.current_supply
         /\ S.dag_tx_count = L.dag_tx_count
         /\ S.relay_credits = L.relay_credits
    BY <1>2, <1>4, <1>7, SpendFacts DEF S
  <1>b. S.balances = NoFaucet
    <2>1. S.balances = [L.balances EXCEPT ![t.sender] = @ - Fee(t)]
      BY <1>1, <1>4 DEF S, Spend, Ledgers
    <2> QED BY <1>1, <1>5, <1>6, <2>1 DEF NoFaucet
  <1>17. /\ \A a \in Address : S.next_nonce[a] <= 1
         /\ \A a \in Users : S.next_nonce[a] = 0
    <2>1. SaturatingAdd(0, 1) = 1
      BY <1>0 DEF SaturatingAdd
    <2>2. \A a \in Address : S.next_nonce[a] = IF a = GenesisSender THEN 1 ELSE 0
      BY <1>1, <1>5, <1>6, <1>16, <2>1
    <2> QED BY <2>2 DEF Users
  <1>18. LedgerOK(S, NoFaucet)
    <2>1. Total(S.balances) = Total(NoFaucet) + S.current_supply
      <3>1. Total(L.balances) \in Nat
        BY <1>4, LedgerFields
      <3>2. Total(L.balances) = Total(NoFaucet) + L.current_supply
        BY <1>4 DEF LedgerOK
      <3> QED BY <1>1, <1>16, <3>1, <3>2
    <2>2. S.current_supply = emitted[S.dag_tx_count]
      BY <1>4, <1>16 DEF LedgerOK
    <2>3. S.dag_tx_count = 0 /\ \A a \in Address : S.relay_credits[a] = 0
      BY <1>5, <1>16
    <2>4. PoolBound \in Nat /\ 0 * PoolBound = 0
      BY EconomicsAssumption DEF PoolBound
    <2> QED BY <1>16, <1>17, <2>1, <2>2, <2>3, <2>4 DEF LedgerOK
  <1>19. IsFiniteSet({}) /\ Cardinality({}) = 0
    BY FS_EmptySet
  <1>20. S.dag_tx_count <= Cardinality(UserVertices(h))
    BY <1>5, <1>15, <1>16, <1>19
  <1>21. ConflictsOK(w) /\ Applied(w) = {}
    BY <1>11, <1>15 DEF ConflictsOK, Applied
  <1>22. LedgerCounts(S, h.vertices, {})
    <2>1. \A a \in Users : SpentBy(h.vertices, {}, a) = {}
      BY DEF SpentBy
    <2>2. 0 .. 0 - 1 = {}
      OBVIOUS
    <2> QED BY <1>5, <1>16, <1>17, <1>19, <2>1, <2>2 DEF LedgerCounts
  <1> HIDE DEF w
  <1>23. ReplicaState(w, Known) /\ Counted(w)
    BY <1>3, <1>11, <1>12, <1>14, <1>18, <1>20, <1>21, <1>22
       DEF ReplicaState, ReplicaOK, Counted
  <1>24. /\ GraphVerdict(EmptyGraph, signed_genesis_tx) = "Ok"
         /\ w.graph = InsertVertex(EmptyGraph, signed_genesis_tx)
    BY <1>9, <1>11 DEF t, h
  <1> QED BY <1>3, <1>11, <1>13, <1>15, <1>23, <1>24, <1>b DEF w

(* The weights of the genesis graph.                                        *)
LEMMA GenesisWeights ==
    ASSUME NEW Known, KnownOK(Known)
    PROVE  WeightsExact(with_genesis.graph)
  <1> DEFINE e == EmptyGraph
             t == signed_genesis_tx
             h == with_genesis.graph
  <1>1. /\ GraphVerdict(e, t) = "Ok" /\ h = InsertVertex(e, t)
        /\ UserVertices(h) = {}
    BY GenesisState
  <1>2. VertexSet(e) = {} /\ Cardinality({}) = 0
    BY FS_EmptySet DEF EmptyGraph, VertexSet
  <1>3. WeightsExact(e)
    BY <1>2 DEF WeightsExact
  <1>4. t.id \in TxHash
    BY DagEngineAssumption DEF signed_genesis_tx
  <1>5. GraphOK(e)
    BY EmptyGraphOK
  <1>6. /\ Cardinality(VertexSet(e)) <= ANCESTOR_WALK_BOUND
        /\ Cardinality(UserVertices(h)) + 1 <= U64_MAX
    BY <1>1, <1>2, DagGraphAssumption, EconomicsAssumption
  <1> HIDE DEF e, t, h
  <1> QED BY <1>1, <1>3, <1>4, <1>5, <1>6, InsertKeepsWeights DEF h

(* A rebuild of genesis alone leaves what was credited, and nothing else.   *)
LEMMA FreshRebuild ==
    ASSUME NEW Known, KnownOK(Known), NEW d, ReplicaState(d, Known),
           VertexSet(d.graph) = {GenesisId},
           NEW r, r = resolve_conflicts_and_rebuild_ledger(d)
    PROVE  r.dag.ledger.balances = d.faucet
  <1> DEFINE g   == d.graph
             ids == UserVertices(g) \ Losers(g)
             txs == SpendsInOrder(g, Losers(g))
  <1>1. IsRecord(d) /\ GraphOK(g) /\ StoredFrom(g, Known)
    BY DEF ReplicaState, ReplicaOK
  <1>2. UserVertices(g) = {}
    <2>1. is_genesis(signed_genesis_tx)
      BY DEF is_genesis, signed_genesis_tx
    <2> QED BY <1>1, <2>1 DEF StoredFrom, UserVertices
  <1>3. ListsOnce(g, ids, txs)
    <2>1. /\ \A i \in VertexSet(g) : g.vertices[i].id = i
          /\ ids \subseteq VertexSet(g)
          /\ txs = transactions_for_in_order(g, ids)
      BY <1>1, <1>2 DEF StoredFrom, SpendsInOrder
    <2> HIDE DEF ids, txs
    <2> QED BY <1>1, <2>1, OrderedBodies
  <1>4. DOMAIN txs = 1 .. 0
    <2>1. ids = {}
      BY <1>2
    <2> HIDE DEF ids, txs
    <2>2. Len(txs) = 0
      BY <1>3, <2>1, FS_EmptySet DEF ListsOnce
    <2> QED BY <1>3, <2>2 DEF ListsOnce
  <1> HIDE DEF txs
  <1>5. PICK run : IsReplayRun(d.faucet, txs, 0, run)
    BY <1>4, ReplayRun, 0 \in Nat
  <1>6. Replay(d.faucet, txs).ledger = BaselineLedger(d.faucet)
    BY <1>5 DEF IsReplayRun
  <1>7. r.dag.ledger = Replay(d.faucet, txs).ledger
    BY <1>1 DEF resolve_conflicts_and_rebuild_ledger, IsRecord, txs
  <1> QED BY <1>6, <1>7 DEF BaselineLedger

(* A replica stores finitely many vertices, genesis among them.             *)
LEMMA StoredFinite ==
    ASSUME NEW Known, KnownOK(Known), NEW g, StoredFrom(g, Known)
    PROVE  /\ IsFiniteSet(VertexSet(g))
           /\ Cardinality(VertexSet(g)) <= 1 => VertexSet(g) = {GenesisId}
  <1> DEFINE ids  == VertexSet(g)
             rest == ids \ {GenesisId}
             sent == {t.id : t \in Known}
  <1>1. ids \subseteq sent \cup {GenesisId} /\ GenesisId \in ids
    BY DEF StoredFrom
  <1>2. IsFiniteSet(sent)
    BY DEF KnownOK
  <1> HIDE DEF sent, ids
  <1>3. IsFiniteSet(ids)
    BY <1>1, <1>2, FS_Subset, FS_AddElement
  <1>4. /\ IsFiniteSet(rest) /\ Cardinality(rest) = Cardinality(ids) - 1
        /\ Cardinality(ids) \in Nat /\ Cardinality(rest) \in Nat
    BY <1>1, <1>3, FS_RemoveElement, FS_CardinalityType
  <1>5. Cardinality(ids) <= 1 => rest = {}
    BY <1>4, FS_EmptySet
  <1> QED BY <1>1, <1>3, <1>5 DEF ids

-----------------------------------------------------------------------------
(* The replica of a restart.                                               *)

(* The credits of a faucet map, on genesis: the accounts hold just these.   *)
LEMMA BootstrapState ==
    ASSUME NEW Known, KnownOK(Known), NEW f \in [Address -> 0 .. U64_MAX],
           NEW r, r = CreditAll(with_genesis, f)
    PROVE  /\ ReplicaState(r, Known) /\ r.faucet = f
           /\ r.graph = with_genesis.graph /\ VertexSet(r.graph) = {GenesisId}
           /\ UserVertices(r.graph) = {} /\ Counted(r)
  <1> DEFINE w == with_genesis
             L == w.ledger
             M == [L EXCEPT !.balances = f]
  <1>1. /\ ReplicaState(w, Known) /\ Counted(w)
        /\ w.faucet = NoFaucet /\ L.balances = NoFaucet
        /\ VertexSet(w.graph) = {GenesisId} /\ UserVertices(w.graph) = {}
    BY GenesisState
  <1>2. U64_MAX \in Nat
    BY EconomicsAssumption
  <1> HIDE DEF w
  <1>3. /\ IsRecord(w) /\ GraphOK(w.graph) /\ StoredFrom(w.graph, Known)
        /\ ConflictsOK(w)
        /\ LedgerOK(L, NoFaucet) /\ L \in Ledgers
        /\ L.dag_tx_count <= Cardinality(UserVertices(w.graph))
    BY <1>1 DEF ReplicaState, ReplicaOK, LedgerOK
  <1>4. f = [a \in Address |-> SaturatingAdd(NoFaucet[a], f[a])]
    <2>1. \A a \in Address : SaturatingAdd(NoFaucet[a], f[a]) = f[a]
      BY <1>2 DEF SaturatingAdd, NoFaucet
    <2> QED BY <1>2, <2>1
  <1>5. r = [w EXCEPT !.ledger = M, !.faucet = f]
    <2>1. r = [w EXCEPT !.ledger.balances = f, !.faucet = f]
      BY <1>1, <1>4 DEF CreditAll, w
    <2> QED BY <1>3, <2>1 DEF IsRecord
  <1>6. /\ M \in Ledgers /\ M.balances = f
        /\ M.next_nonce = L.next_nonce /\ M.relay_credits = L.relay_credits
        /\ M.current_supply = L.current_supply /\ M.dag_tx_count = L.dag_tx_count
    BY <1>2, <1>3 DEF Ledgers
  <1> HIDE DEF M
  <1>7. /\ r.graph = w.graph /\ r.ledger = M /\ r.faucet = f
        /\ r.conflicts = w.conflicts /\ IsRecord(r)
    BY <1>3, <1>5 DEF IsRecord
  <1>8. L.current_supply = 0
    <2>1. L.dag_tx_count = 0
      <3>1. L.dag_tx_count \in Nat
        BY <1>3, LedgerFields
      <3> QED BY <1>1, <1>3, <3>1, FS_EmptySet
    <2> QED BY <1>3, <2>1, EmissionSchedule DEF LedgerOK
  <1>9. LedgerOK(M, f)
    <2>1. Total(f) \in Nat
      <3>1. f \in [Address -> Nat]
        BY <1>2
      <3> QED BY <3>1, TotalBounds, 0 \in Nat
    <2> QED BY <1>3, <1>6, <1>8, <2>1 DEF LedgerOK
  <1>10. Counted(r)
    <2> DEFINE A == Applied(w)
               V == w.graph.vertices
    <2>1. Applied(r) = A /\ LedgerCounts(L, V, A)
      BY <1>1, <1>7 DEF Applied, Counted
    <2> HIDE DEF A, V, L
    <2>2. LedgerCounts(M, V, A)
      BY <1>6, <2>1, CountSame
    <2> QED BY <1>7, <2>1, <2>2 DEF Counted, V
  <1> QED BY <1>1, <1>2, <1>3, <1>6, <1>7, <1>9, <1>10
          DEF ReplicaState, ReplicaOK, ConflictsOK, w

-----------------------------------------------------------------------------
(* A restart accepts one record after the other.                           *)

IsRecovery(faucet, txs, N, run) ==
    /\ run[0] = [verdict |-> "Ok", dag |-> CreditAll(with_genesis, faucet)]
    /\ \A n \in 1 .. N : run[n] = ReplayRecord(run[n - 1], txs[n])

(* Every restart has such a run, and its result is the last of it.          *)
LEMMA RecoveryRun ==
    ASSUME NEW txs, NEW faucet, NEW N \in Nat, DOMAIN txs = 1 .. N
    PROVE  \E run : /\ IsRecovery(faucet, txs, N, run)
                    /\ Recovered(txs, faucet) = run[N]
  <1> DEFINE base == [verdict |-> "Ok", dag |-> CreditAll(with_genesis, faucet)]
             Eq(g, n) == g = [s \in SUBSET (1 .. n) |->
                                IF s = {} THEN base
                                ELSE ReplayRecord(g[s \ {Max(s)}], txs[Max(s)])]
             T == {n \in Nat : \E g : Eq(g, n)}
  <1>1. 0 \in T
    <2> DEFINE g == [s \in SUBSET (1 .. 0) |-> base]
    <2>1. \A s \in SUBSET (1 .. 0) : s = {}
      OBVIOUS
    <2>2. Eq(g, 0)
      BY <2>1
    <2>3. \E j : Eq(j, 0)
      <3> HIDE DEF Eq, g
      <3> QED BY <2>2
    <2> HIDE DEF Eq
    <2> QED BY <2>3
  <1>2. ASSUME NEW n \in Nat, n \in T PROVE n + 1 \in T
    <2>1. PICK g : Eq(g, n)
      BY <1>2
    <2> DEFINE h == [s \in SUBSET (1 .. n + 1) |->
                        IF s = {} THEN base
                        ELSE ReplayRecord(g[s \ {Max(s)}], txs[Max(s)])]
    <2>2. ASSUME NEW s \in SUBSET (1 .. n) PROVE h[s] = g[s]
      <3>1. s \in SUBSET (1 .. n + 1)
        OBVIOUS
      <3>2. g[s] = IF s = {} THEN base ELSE ReplayRecord(g[s \ {Max(s)}], txs[Max(s)])
        BY <2>1
      <3> QED BY <3>1, <3>2
    <2>3. ASSUME NEW s \in SUBSET (1 .. n + 1), s # {}
          PROVE  s \ {Max(s)} \in SUBSET (1 .. n)
      BY <2>3, MaxOfNextIndices, MaxOfIndices
    <2>4. Eq(h, n + 1)
      <3>1. ASSUME NEW s \in SUBSET (1 .. n + 1)
            PROVE  h[s] = IF s = {} THEN base
                          ELSE ReplayRecord(h[s \ {Max(s)}], txs[Max(s)])
        <4>1. CASE s = {}
          BY <4>1
        <4>2. CASE s # {}
          <5>1. h[s \ {Max(s)}] = g[s \ {Max(s)}]
            BY <4>2, <2>2, <2>3
          <5> QED BY <4>2, <5>1
        <4> QED BY <4>1, <4>2
      <3> QED BY <3>1, Zenon
    <2>5. \E j : Eq(j, n + 1)
      <3> HIDE DEF Eq, h
      <3> QED BY <2>4
    <2> HIDE DEF Eq
    <2> QED BY <2>5
  <1>3. \E g : Eq(g, N)
    <2>1. \A n \in Nat : n \in T
      <3> HIDE DEF T
      <3> QED BY <1>1, <1>2, NatSetInduction
    <2> QED BY <2>1
  <1> DEFINE iter == CHOOSE g : Eq(g, N)
  <1>4. Eq(iter, N)
    <2> HIDE DEF Eq
    <2> QED BY <1>3
  <1>5. Recovered(txs, faucet) = iter[1 .. N]
    BY DEF Recovered, FoldLeft, MapThenFoldSet
  <1> DEFINE run == [n \in 0 .. N |-> iter[1 .. n]]
  <1>6. \A s \in SUBSET (1 .. N) :
          iter[s] = IF s = {} THEN base ELSE ReplayRecord(iter[s \ {Max(s)}], txs[Max(s)])
    BY <1>4, Zenon
  <1> HIDE DEF iter
  <1>7. run[0] = base
    <2>1. 1 .. 0 = {} /\ 0 \in 0 .. N
      OBVIOUS
    <2> QED BY <1>6, <2>1, Zenon
  <1>8. ASSUME NEW n \in 1 .. N PROVE run[n] = ReplayRecord(run[n - 1], txs[n])
    <2>1. n \in 0 .. N /\ n - 1 \in 0 .. N /\ 1 .. n \in SUBSET (1 .. N)
      OBVIOUS
    <2>n. n \in Nat /\ n # 0
      OBVIOUS
    <2>2. 1 .. n # {} /\ Max(1 .. n) = n /\ (1 .. n) \ {n} = 1 .. n - 1
      BY <2>n, MaxOfPrefix
    <2> QED BY <1>6, <2>1, <2>2, Zenon
  <1>9. Recovered(txs, faucet) = run[N]
    BY <1>5
  <1> HIDE DEF run
  <1>10. IsRecovery(faucet, txs, N, run)
    BY <1>7, <1>8 DEF IsRecovery
  <1> QED BY <1>9, <1>10

(* One record: accepted, a conflict stored, or skipped for a parent that no *)
(* earlier record brought.                                                  *)
IsRecordRead(Known, r, t, s) ==
    /\ ReplicaState(s.dag, Known) /\ s.dag.faucet = r.dag.faucet
    /\ \/ s.dag.graph = r.dag.graph
       \/ /\ GraphVerdict(r.dag.graph, t) = "Ok"
          /\ s.dag.graph = InsertVertex(r.dag.graph, t)
    /\ s.verdict = "Ok" =>
          /\ r.verdict = "Ok"
          /\ VertexSet(s.dag.graph) =
                IF {t.parent_1, t.parent_2} \subseteq VertexSet(r.dag.graph)
                THEN VertexSet(r.dag.graph) \cup {t.id} ELSE VertexSet(r.dag.graph)

(* ReplayRecord reads a record in this way.                                 *)
LEMMA RecordRead ==
    ASSUME NEW Known, KnownOK(Known),
           NEW r, ReplicaState(r.dag, Known), KnownRoom(Known, r.dag.faucet),
           NEW t \in Known, NEW s, s = ReplayRecord(r, t)
    PROVE  IsRecordRead(Known, r, t, s)
  <1> DEFINE accepted == accept_wire_vertex(r.dag, t)
             g        == r.dag.graph
  <1>1. CASE r.verdict # "Ok"
    BY <1>1 DEF ReplayRecord, IsRecordRead
  <1>2. CASE r.verdict = "Ok"
    <2>1. /\ s.dag = accepted.dag
          /\ s.verdict = IF accepted.verdict \in {"Known", "UnknownParent"} THEN "Ok"
                         ELSE accepted.verdict
      <3>1. accepted = [verdict |-> accepted.verdict, dag |-> accepted.dag]
        BY DEF accept_wire_vertex, attach_and_verify_tx, insert_graph_only,
               resolve_conflicts_and_rebuild_ledger
      <3>2. s = [accepted EXCEPT !.verdict =
                   IF @ \in {"Known", "UnknownParent"} THEN "Ok" ELSE @]
        BY <1>2 DEF ReplayRecord
      <3> HIDE DEF accepted
      <3> QED BY <3>1, <3>2
    <2>2. IsAccept(r.dag, Known, t, accepted)
      BY AcceptState
    <2> HIDE DEF accepted
    <2>3. /\ ReplicaState(s.dag, Known) /\ s.dag.faucet = r.dag.faucet
          /\ \/ s.dag.graph = g
             \/ GraphVerdict(g, t) = "Ok" /\ s.dag.graph = InsertVertex(g, t)
      BY <2>1, <2>2 DEF IsAccept
    <2>4. ASSUME s.verdict = "Ok"
          PROVE  VertexSet(s.dag.graph) =
                    IF {t.parent_1, t.parent_2} \subseteq VertexSet(g)
                    THEN VertexSet(g) \cup {t.id} ELSE VertexSet(g)
      <3>1. CASE /\ accepted.dag = r.dag /\ accepted.verdict # "Ok"
                 /\ accepted.verdict = "Known" <=> t.id \in VertexSet(g)
                 /\ accepted.verdict = "UnknownParent" =>
                       GraphVerdict(g, t) = "UnknownParent"
        <4>1. CASE accepted.verdict = "Known"
          BY <2>1, <3>1, <4>1
        <4>2. CASE accepted.verdict = "UnknownParent"
          <5>1. ~({t.parent_1, t.parent_2} \subseteq VertexSet(g))
            BY <3>1, <4>2 DEF GraphVerdict, ParentsAdmitted
          <5> QED BY <2>1, <3>1, <5>1
        <4> QED BY <2>1, <2>4, <3>1, <4>1, <4>2
      <3>2. CASE GraphVerdict(g, t) = "Ok" /\ accepted.dag.graph = InsertVertex(g, t)
        <4>1. GenesisId \in VertexSet(g)
          BY DEF ReplicaState, StoredFrom
        <4>2. {t.parent_1, t.parent_2} \subseteq VertexSet(g)
          BY <3>2, <4>1, VerdictOk
        <4>3. VertexSet(accepted.dag.graph) = VertexSet(g) \cup {t.id}
          BY <3>2, InsertedFields
        <4> QED BY <2>1, <4>2, <4>3
      <3> QED BY <2>2, <3>1, <3>2 DEF IsAccept
    <2> QED BY <1>2, <2>3, <2>4 DEF IsRecordRead
  <1> QED BY <1>1, <1>2

(* Whatever a log holds, it is read back into a replica over the credits.   *)
LEMMA RecoveredState ==
    ASSUME NEW Known, KnownOK(Known), NEW f, KnownRoom(Known, f),
           NEW txs \in Seq(Known), NEW d, d = Recovered(txs, f).dag
    PROVE  /\ ReplicaState(d, Known) /\ d.faucet = f
           /\ WalksUncut(Known) => WeightsExact(d.graph)
  <1> DEFINE N == Len(txs)
  <1>1. N \in Nat /\ DOMAIN txs = 1 .. N /\ \A n \in 1 .. N : txs[n] \in Known
    OBVIOUS
  <1>2. PICK run : IsRecovery(f, txs, N, run) /\ Recovered(txs, f) = run[N]
    BY <1>1, RecoveryRun
  <1> HIDE DEF N
  <1> DEFINE Held(n) == /\ ReplicaState(run[n].dag, Known) /\ run[n].dag.faucet = f
                        /\ WalksUncut(Known) => WeightsExact(run[n].dag.graph)
             T == {n \in 0 .. N : Held(n)}
  <1>3. 0 \in T
    <2> DEFINE b == CreditAll(with_genesis, f)
    <2>1. ReplicaState(b, Known) /\ b.faucet = f /\ WeightsExact(b.graph)
      <3>1. f \in [Address -> 0 .. U64_MAX]
        BY DEF KnownRoom, RoomFor
      <3> QED BY <3>1, BootstrapState, GenesisWeights
    <2>2. run[0].dag = b
      BY <1>2 DEF IsRecovery
    <2> HIDE DEF b
    <2> QED BY <1>1, <2>1, <2>2
  <1>4. ASSUME NEW n \in 1 .. N, n - 1 \in T PROVE n \in T
    <2> DEFINE r == run[n - 1]
               s == run[n]
               t == txs[n]
    <2>1. /\ ReplicaState(r.dag, Known) /\ r.dag.faucet = f
          /\ WalksUncut(Known) => WeightsExact(r.dag.graph)
      BY <1>4
    <2>2. s = ReplayRecord(r, t) /\ t \in Known
      BY <1>1, <1>2 DEF IsRecovery
    <2> HIDE DEF r, s, t
    <2>3. IsRecordRead(Known, r, t, s)
      BY <2>1, <2>2, RecordRead
    <2>4. ASSUME WalksUncut(Known) PROVE WeightsExact(s.dag.graph)
      <3>1. GraphOK(r.dag.graph) /\ StoredFrom(r.dag.graph, Known)
        BY <2>1 DEF ReplicaState, ReplicaOK
      <3>2. Cardinality({x.id : x \in Known}) + 1 <= U64_MAX
        BY DEF KnownRoom, RoomFor
      <3>3. GraphVerdict(r.dag.graph, t) = "Ok" => WeightsExact(InsertVertex(r.dag.graph, t))
        BY <2>1, <2>2, <2>4, <3>1, <3>2, StoredWeights
      <3> QED BY <2>1, <2>3, <2>4, <3>3 DEF IsRecordRead
    <2>5. Held(n)
      BY <2>1, <2>3, <2>4 DEF s, IsRecordRead
    <2> HIDE DEF Held
    <2> QED BY <2>5
  <1>5. Held(N)
    <2>1. \A n \in 0 .. N : n \in T
      <3> HIDE DEF T
      <3> QED BY <1>1, <1>3, <1>4, IndexSetInduction
    <2>2. N \in 0 .. N
      BY <1>1
    <2> HIDE DEF Held
    <2> QED BY <2>1, <2>2
  <1> QED BY <1>2, <1>5
-----------------------------------------------------------------------------
(* A replica without conflicts: the incremental ledger and a replay.        *)

(* M holds c more than L on account a, and is otherwise L but for nonces.   *)
Richer(L, M, a, c) ==
    /\ M.balances = [L.balances EXCEPT ![a] = @ + c]
    /\ M.relay_credits = L.relay_credits
    /\ M.current_supply = L.current_supply
    /\ M.dag_tx_count = L.dag_tx_count

(* A credit that neither ledger refuses keeps the difference.               *)
LEMMA RicherMiner ==
    ASSUME NEW m \in Mints, NEW n \in Mints, NEW a \in Address, NEW c \in Nat,
           Richer(m.ledger, n.ledger, a, c),
           NEW to \in Address, NEW amount \in Nat,
           NEW r, r = CreditMiner(m, to, amount), r.ok,
           NEW s, s = CreditMiner(n, to, amount), s.ok
    PROVE  Richer(r.ledger, s.ledger, a, c)
  <1> DEFINE L == m.ledger
             M == n.ledger
             b == L.balances
             new == [b EXCEPT ![to] = @ + amount]
             newM == [M.balances EXCEPT ![to] = @ + amount]
  <1>1. L \in Ledgers /\ M \in Ledgers
    BY DEF Mints
  <1>2. b \in [Address -> Int] /\ M.balances = [b EXCEPT ![a] = @ + c]
    BY <1>1, LedgerFields DEF Richer
  <1>3. r = [m EXCEPT !.ledger = [L EXCEPT !.balances = new]]
    BY DEF CreditMiner, Mints
  <1>4. s = [n EXCEPT !.ledger = [M EXCEPT !.balances = newM]]
    BY DEF CreditMiner, Mints
  <1>5. newM = [new EXCEPT ![a] = @ + c]
    <2>1. \A x \in Address : newM[x] = [new EXCEPT ![a] = @ + c][x]
      BY <1>2
    <2> QED BY <1>2, <2>1
  <1> HIDE DEF new, newM
  <1>6. r.ledger = [L EXCEPT !.balances = new] /\ s.ledger = [M EXCEPT !.balances = newM]
    BY <1>3, <1>4 DEF Mints
  <1> QED BY <1>1, <1>5, <1>6 DEF Richer, Ledgers

(* So does a relay's credit.                                                *)
LEMMA RicherRelay ==
    ASSUME NEW m \in Mints, NEW n \in Mints, NEW a \in Address, NEW c \in Nat,
           Richer(m.ledger, n.ledger, a, c),
           NEW payout, payout.to \in Address, payout.amount \in Nat,
           NEW r, r = CreditRelay(m, payout), r.ok,
           NEW s, s = CreditRelay(n, payout), s.ok
    PROVE  Richer(r.ledger, s.ledger, a, c)
  <1> DEFINE to == payout.to
             amount == payout.amount
             p == CreditMiner(m, to, amount)
             q == CreditMiner(n, to, amount)
             new(x) == [x.ledger.relay_credits EXCEPT ![to] = @ + amount]
  <1>1. p \in Mints /\ q \in Mints
    BY CreditMinerFacts
  <1>d. /\ r = IF ~m.ok \/ ~p.ok THEN [m EXCEPT !.ok = FALSE]
               ELSE IF p.ledger.relay_credits[to] + amount > U64_MAX
               THEN [p EXCEPT !.ok = FALSE]
               ELSE [p EXCEPT !.ledger.relay_credits[to] = @ + amount]
        /\ s = IF ~n.ok \/ ~q.ok THEN [n EXCEPT !.ok = FALSE]
               ELSE IF q.ledger.relay_credits[to] + amount > U64_MAX
               THEN [q EXCEPT !.ok = FALSE]
               ELSE [q EXCEPT !.ledger.relay_credits[to] = @ + amount]
    BY DEF CreditRelay
  <1> HIDE DEF p, q
  <1>2. p.ok /\ q.ok
    BY <1>1, <1>d DEF Mints
  <1>3. Richer(p.ledger, q.ledger, a, c)
    BY <1>2, RicherMiner DEF p, q
  <1>4. /\ r = [p EXCEPT !.ledger = [p.ledger EXCEPT !.relay_credits = new(p)]]
        /\ s = [q EXCEPT !.ledger = [q.ledger EXCEPT !.relay_credits = new(q)]]
    BY <1>1, <1>d DEF Mints
  <1>5. new(p) = new(q)
    BY <1>3 DEF Richer
  <1> HIDE DEF new
  <1>6. /\ r.ledger = [p.ledger EXCEPT !.relay_credits = new(p)]
        /\ s.ledger = [q.ledger EXCEPT !.relay_credits = new(q)]
    BY <1>1, <1>4 DEF Mints
  <1>7. p.ledger \in Ledgers /\ q.ledger \in Ledgers
    BY <1>1 DEF Mints
  <1> QED BY <1>3, <1>5, <1>6, <1>7 DEF Richer, Ledgers

(* And all payouts of a mint.                                               *)
LEMMA RicherPaid ==
    ASSUME NEW m \in Mints, NEW n \in Mints, NEW a \in Address, NEW c \in Nat,
           m.ok /\ n.ok => Richer(m.ledger, n.ledger, a, c),
           NEW payouts, NEW N \in Nat, DOMAIN payouts = 1 .. N,
           \A k \in 1 .. N : payouts[k].to \in Address /\ payouts[k].amount \in Nat,
           NEW r, r = FoldLeft(CreditRelay, m, payouts), r.ok,
           NEW s, s = FoldLeft(CreditRelay, n, payouts), s.ok
    PROVE  Richer(r.ledger, s.ledger, a, c)
  <1>1. PICK f : IsPayoutRun(m, payouts, N, f)
    BY PayoutRun
  <1>2. PICK g : IsPayoutRun(n, payouts, N, g)
    BY PayoutRun
  <1> DEFINE P(k) == f[k].ok /\ g[k].ok => Richer(f[k].ledger, g[k].ledger, a, c)
             T == {k \in 0 .. N : P(k)}
  <1>3. 0 \in T
    BY <1>1, <1>2 DEF IsPayoutRun
  <1>4. ASSUME NEW k \in 1 .. N, k - 1 \in T PROVE k \in T
    <2> SUFFICES ASSUME f[k].ok, g[k].ok PROVE Richer(f[k].ledger, g[k].ledger, a, c)
      OBVIOUS
    <2> DEFINE x == f[k - 1]
               y == g[k - 1]
               v == f[k]
               w == g[k]
               payout == payouts[k]
    <2>1. k - 1 \in 0 .. N
      OBVIOUS
    <2>2. /\ x \in Mints /\ v = CreditRelay(x, payout)
          /\ y \in Mints /\ w = CreditRelay(y, payout)
          /\ payout.to \in Address /\ payout.amount \in Nat /\ v.ok /\ w.ok
      BY <1>1, <1>2, <2>1 DEF IsPayoutRun
    <2>3. x.ok /\ y.ok => Richer(x.ledger, y.ledger, a, c)
      BY <1>4
    <2> HIDE DEF x, y, v, w, payout
    <2>4. x.ok /\ y.ok
      BY <2>2, CreditRelayFacts
    <2>5. Richer(v.ledger, w.ledger, a, c)
      BY <2>2, <2>3, <2>4, RicherRelay
    <2> QED BY <2>5 DEF v, w
  <1>5. N \in T
    <2>1. \A k \in 0 .. N : k \in T
      <3> HIDE DEF T
      <3> QED BY <1>3, <1>4, IndexSetInduction
    <2> QED BY <2>1
  <1> QED BY <1>1, <1>2, <1>5 DEF IsPayoutRun

(* And the whole mint: the subsidy depends on what both agree on.           *)
LEMMA RicherMint ==
    ASSUME NEW L \in Ledgers, NEW M \in Ledgers, NEW a \in Address, NEW c \in Nat,
           Richer(L, M, a, c),
           NEW fee \in Nat, NEW miner \in Address, NEW relays \in Seq(Address),
           NEW r, r = mint_confirmed_tx(L, fee, miner, relays), r.ok,
           NEW s, s = mint_confirmed_tx(M, fee, miner, relays), s.ok
    PROVE  Richer(r.ledger, s.ledger, a, c)
  <1> DEFINE subsidy == get_current_tx_subsidy(L.dag_tx_count, L.current_supply)
             pool  == subsidy + fee
             total == dag_relay_total_of(pool)
             share == MinerPayout(relays, pool)
             list  == RelayPayouts(relays, total)
             startL == [ok |-> TRUE, ledger |-> L]
             startM == [ok |-> TRUE, ledger |-> M]
             firstL == CreditMiner(startL, miner, share)
             firstM == CreditMiner(startM, miner, share)
             paidL == FoldLeft(CreditRelay, firstL, list)
             paidM == FoldLeft(CreditRelay, firstM, list)
             Grown(P) == [P EXCEPT !.ledger.current_supply = @ + subsidy,
                                   !.ledger.dag_tx_count = @ + 1]
  <1>1. /\ L.current_supply \in 0 .. HARD_CAP /\ L.dag_tx_count \in Nat
        /\ U64_MAX \in Nat
    BY LedgerFields, EconomicsAssumption
  <1>2. pool \in Nat
    <2>1. subsidy \in 0 .. INITIAL_TX_SUBSIDY
      BY <1>1, SubsidyBound
    <2> HIDE DEF subsidy
    <2> QED BY <2>1
  <1>3. M.dag_tx_count = L.dag_tx_count /\ M.current_supply = L.current_supply
    BY DEF Richer
  <1>4. /\ r = IF pool > U64_MAX THEN [startL EXCEPT !.ok = FALSE]
               ELSE IF ~paidL.ok THEN paidL ELSE Grown(paidL)
        /\ s = IF pool > U64_MAX THEN [startM EXCEPT !.ok = FALSE]
               ELSE IF ~paidM.ok THEN paidM ELSE Grown(paidM)
    BY <1>3 DEF mint_confirmed_tx
  <1>5. startL \in Mints /\ startM \in Mints /\ startL.ledger = L /\ startM.ledger = M
    BY DEF Mints
  <1>6. ~(pool > U64_MAX)
    BY <1>4
  <1>7. paidL.ok /\ paidM.ok /\ r = Grown(paidL) /\ s = Grown(paidM)
    <2> HIDE DEF paidL, paidM, Grown, pool
    <2> QED BY <1>4, <1>6
  <1> HIDE DEF pool
  <1>8. /\ dag_miner_share_of(pool) \in Nat /\ total \in Nat
        /\ dag_miner_share_of(pool) + total = pool
    BY <1>2, SplitOfPool
  <1>9. share \in Nat
    <2>1. CASE relays = <<>>
      BY <1>1, <1>2, <1>6, <1>8, <2>1 DEF MinerPayout, SaturatingAdd
    <2>2. CASE relays # <<>>
      BY <1>8, <2>2 DEF MinerPayout
    <2> QED BY <2>1, <2>2
  <1> HIDE DEF total, share, startL, startM
  <1>10. firstL \in Mints /\ firstM \in Mints
    BY <1>5, <1>9, CreditMinerFacts
  <1>11. firstL.ok /\ firstM.ok => Richer(firstL.ledger, firstM.ledger, a, c)
    BY <1>5, <1>9, RicherMiner
  <1> HIDE DEF firstL, firstM
  <1>12. PICK n \in Nat : /\ DOMAIN list = 1 .. n
                          /\ \A k \in 1 .. n : list[k].to \in Address /\ list[k].amount \in Nat
    <2>1. CASE relays = <<>>
      <3>1. DOMAIN list = 1 .. 0
        BY <2>1 DEF RelayPayouts
      <3> HIDE DEF list
      <3> QED BY <3>1
    <2>2. CASE relays # <<>>
      <3> DEFINE k == Len(relays)
      <3>0. /\ DOMAIN list = 1 .. k
            /\ \E each \in Nat, dust \in Nat :
                  /\ k * each + dust = total
                  /\ \A i \in 1 .. k : /\ list[i].to \in Address
                                       /\ list[i].amount = IF i = 1 THEN each + dust ELSE each
        <4>1. total \in Nat
          BY <1>8
        <4> QED BY <2>2, <4>1, PayoutFacts, Zenon
      <3>2. DOMAIN list = 1 .. k /\ k \in Nat
        BY <3>0
      <3> HIDE DEF list, k
      <3>1. PICK each \in Nat, dust \in Nat :
               \A i \in 1 .. k : /\ list[i].to \in Address
                                 /\ list[i].amount = IF i = 1 THEN each + dust ELSE each
        BY <3>0
      <3>3. \A i \in 1 .. k : list[i].to \in Address /\ list[i].amount \in Nat
        BY <3>1
      <3> QED BY <3>2, <3>3
    <2> QED BY <2>1, <2>2
  <1> HIDE DEF list
  <1>13. paidL \in Mints /\ paidM \in Mints
    <2>1. \A m \in Mints : FoldLeft(CreditRelay, m, list) \in Mints
      <3> SUFFICES ASSUME NEW m \in Mints PROVE FoldLeft(CreditRelay, m, list) \in Mints
        OBVIOUS
      <3>1. PICK f : IsPayoutRun(m, list, n, f)
        BY <1>12, PayoutRun
      <3>2. n \in 0 .. n
        OBVIOUS
      <3> QED BY <3>1, <3>2 DEF IsPayoutRun
    <2> QED BY <1>10, <2>1
  <1>14. Richer(paidL.ledger, paidM.ledger, a, c)
    <2>1. paidL = FoldLeft(CreditRelay, firstL, list) /\ paidM = FoldLeft(CreditRelay, firstM, list)
      OBVIOUS
    <2> HIDE DEF paidL, paidM
    <2> QED BY <1>7, <1>10, <1>11, <1>12, <2>1, RicherPaid
  <1> HIDE DEF paidL, paidM, subsidy
  <1>15. ASSUME NEW m \in Mints
         PROVE  /\ Grown(m).ledger.balances = m.ledger.balances
                /\ Grown(m).ledger.relay_credits = m.ledger.relay_credits
                /\ Grown(m).ledger.current_supply = m.ledger.current_supply + subsidy
                /\ Grown(m).ledger.dag_tx_count = m.ledger.dag_tx_count + 1
    <2> DEFINE P == m.ledger
               grown == [[P EXCEPT !.current_supply = P.current_supply + subsidy]
                            EXCEPT !.dag_tx_count = P.dag_tx_count + 1]
    <2>1. Grown(m) = [m EXCEPT !.ledger = grown] /\ P \in Ledgers
      BY DEF Mints, Ledgers
    <2> HIDE DEF P
    <2>2. /\ grown.balances = P.balances /\ grown.relay_credits = P.relay_credits
          /\ grown.current_supply = P.current_supply + subsidy
          /\ grown.dag_tx_count = P.dag_tx_count + 1
      BY <2>1 DEF Ledgers
    <2> HIDE DEF grown, Grown
    <2>3. Grown(m).ledger = grown
      BY <2>1 DEF Mints
    <2> QED BY <2>2, <2>3 DEF P
  <1> HIDE DEF Grown
  <1> QED BY <1>7, <1>13, <1>14, <1>15 DEF Richer

(* A spend that both ledgers admit.                                         *)
LEMMA RicherSpend ==
    ASSUME NEW L \in Ledgers, NEW M \in Ledgers, NEW a \in Address, NEW c \in Nat,
           Richer(L, M, a, c), NEW t, IsTransaction(t),
           NEW S, S = Spend(L, t), NEW R, R = Spend(M, t)
    PROVE  Richer(S, R, a, c)
  <1> DEFINE b  == L.balances
             fee == Fee(t)
             Moved(held) == IF t.sender = t.recipient
                            THEN [held EXCEPT ![t.sender] = @ - fee]
                            ELSE [held EXCEPT ![t.sender] = @ - (t.amount + fee),
                                              ![t.recipient] = @ + t.amount]
  <1>1. /\ b \in [Address -> Int] /\ M.balances = [b EXCEPT ![a] = @ + c]
        /\ t.sender \in Address /\ t.recipient \in Address
        /\ t.amount \in Int /\ fee \in Int
    <2>1. b \in [Address -> Int]
      BY LedgerFields
    <2>2. M.balances = [b EXCEPT ![a] = @ + c]
      BY DEF Richer
    <2>3. t.sender \in Address /\ t.recipient \in Address /\ t.amount \in Int
      BY DEF IsTransaction
    <2>4. fee \in Int
      BY EconomicsAssumption DEF Fee
    <2> HIDE DEF b, fee
    <2> QED BY <2>1, <2>2, <2>3, <2>4
  <1>2. /\ S.balances = Moved(b) /\ R.balances = Moved(M.balances)
        /\ S.relay_credits = L.relay_credits /\ R.relay_credits = M.relay_credits
        /\ S.current_supply = L.current_supply /\ R.current_supply = M.current_supply
        /\ S.dag_tx_count = L.dag_tx_count /\ R.dag_tx_count = M.dag_tx_count
    BY DEF Spend, Ledgers
  <1>3. Moved(M.balances) = [Moved(b) EXCEPT ![a] = @ + c]
    <2> DEFINE h == M.balances
               x == t.sender
               y == t.recipient
               cost == t.amount + fee
    <2> HIDE DEF b, fee, h
    <2>0. /\ b \in [Address -> Int] /\ h = [b EXCEPT ![a] = @ + c]
          /\ h \in [Address -> Int] /\ cost \in Int
      BY <1>1 DEF h
    <2>t. x \in Address /\ y \in Address /\ t.amount \in Int /\ fee \in Int /\ c \in Int
      BY <1>1
    <2>h. \A z \in Address : h[z] = IF z = a THEN b[z] + c ELSE b[z]
      BY <2>0
    <2>v. ASSUME NEW d \in [Address -> Int], NEW e \in [Address -> Int],
                 NEW v \in [Address -> Int],
                 \A z \in Address : d[z] = b[z] + v[z],
                 \A z \in Address : e[z] = h[z] + v[z]
          PROVE  e = [d EXCEPT ![a] = @ + c]
      <3>1. ASSUME NEW z \in Address PROVE e[z] = IF z = a THEN d[z] + c ELSE d[z]
        <4>1. d[z] = b[z] + v[z] /\ e[z] = h[z] + v[z] /\ v[z] \in Int /\ b[z] \in Int
              /\ h[z] = IF z = a THEN b[z] + c ELSE b[z]
          BY <2>0, <2>h, <2>v
        <4> QED BY <2>t, <4>1
      <3> QED BY <3>1
    <2>1. CASE x = y
      <3> DEFINE v == [z \in Address |-> IF z = x THEN -fee ELSE 0]
      <3>1. Moved(b) = [b EXCEPT ![x] = @ - fee] /\ Moved(h) = [h EXCEPT ![x] = @ - fee]
        BY <2>1
      <3> HIDE DEF Moved, x, y, cost
      <3>2. /\ Moved(b) \in [Address -> Int] /\ Moved(h) \in [Address -> Int]
            /\ v \in [Address -> Int]
            /\ \A z \in Address : Moved(b)[z] = b[z] + v[z]
            /\ \A z \in Address : Moved(h)[z] = h[z] + v[z]
        <4>1. ASSUME NEW d \in [Address -> Int], NEW e, e = [d EXCEPT ![x] = @ - fee]
              PROVE  e \in [Address -> Int] /\ \A z \in Address : e[z] = d[z] + v[z]
          <5>1. ASSUME NEW z \in Address PROVE e[z] = d[z] + v[z] /\ e[z] \in Int
            <6>1. CASE z = x
              BY <2>t, <4>1, <6>1
            <6>2. CASE z # x
              BY <2>t, <4>1, <6>2
            <6> QED BY <6>1, <6>2
          <5> QED BY <4>1, <5>1
        <4>2. v \in [Address -> Int]
          BY <2>t
        <4> HIDE DEF v
        <4> QED BY <2>0, <3>1, <4>1, <4>2
      <3> HIDE DEF v
      <3>3. Moved(h) = [Moved(b) EXCEPT ![a] = @ + c]
        BY <2>v, <3>2
      <3> QED BY <3>3 DEF h
    <2>2. CASE x # y
      <3> DEFINE v == [z \in Address |-> IF z = x THEN -cost
                                         ELSE IF z = y THEN t.amount ELSE 0]
      <3>1. /\ Moved(b) = [b EXCEPT ![x] = @ - cost, ![y] = @ + t.amount]
            /\ Moved(h) = [h EXCEPT ![x] = @ - cost, ![y] = @ + t.amount]
        BY <2>2
      <3> HIDE DEF Moved, x, y, cost
      <3>2. /\ Moved(b) \in [Address -> Int] /\ Moved(h) \in [Address -> Int]
            /\ v \in [Address -> Int]
            /\ \A z \in Address : Moved(b)[z] = b[z] + v[z]
            /\ \A z \in Address : Moved(h)[z] = h[z] + v[z]
        <4>1. ASSUME NEW d \in [Address -> Int], NEW e,
                     e = [d EXCEPT ![x] = @ - cost, ![y] = @ + t.amount]
              PROVE  e \in [Address -> Int] /\ \A z \in Address : e[z] = d[z] + v[z]
          <5>0. x # y
            BY <2>2 DEF x, y
          <5>1. ASSUME NEW z \in Address PROVE e[z] = d[z] + v[z] /\ e[z] \in Int
            <6>1. CASE z = x
              BY <2>0, <2>t, <4>1, <5>0, <6>1
            <6>2. CASE z = y
              BY <2>0, <2>t, <4>1, <5>0, <6>2
            <6>3. CASE z # x /\ z # y
              BY <2>0, <2>t, <4>1, <6>3
            <6> QED BY <6>1, <6>2, <6>3
          <5> QED BY <4>1, <5>1
        <4>2. v \in [Address -> Int]
          BY <2>0, <2>t
        <4> HIDE DEF v
        <4> QED BY <2>0, <3>1, <4>1, <4>2
      <3> HIDE DEF v
      <3>3. Moved(h) = [Moved(b) EXCEPT ![a] = @ + c]
        BY <2>v, <3>2
      <3> QED BY <3>3 DEF h
    <2> QED BY <2>1, <2>2
  <1> HIDE DEF Moved
  <1> QED BY <1>2, <1>3 DEF Richer

(* What the poorer ledger admits the richer one admits.                     *)
IsRicherEffect(f, g, L, M, a, c, t, r, s) ==
    /\ IsEffect(f, L, t, r) /\ r.verdict = "Ok"
    /\ IsEffect(g, M, t, s) /\ s.verdict = "Ok"
    /\ Richer(r.ledger, s.ledger, a, c)

LEMMA RicherEffect ==
    ASSUME NEW f, NEW g, NEW L, LedgerOK(L, f), NEW M, LedgerOK(M, g),
           NEW a \in Address, NEW c \in Nat, Richer(L, M, a, c),
           NEW t, IsTransaction(t), ~is_genesis(t),
           t.amount + FIXED_TRANSACTION_FEE <= U64_MAX,
           M.next_nonce[t.sender] = L.next_nonce[t.sender],
           SpendVerdict(L, t) = "Ok",
           RoomFor(f, L.dag_tx_count + 1), RoomFor(g, L.dag_tx_count + 1),
           NEW r, r = apply_ledger_effects(L, t),
           NEW s, s = apply_ledger_effects(M, t)
    PROVE  IsRicherEffect(f, g, L, M, a, c, t, r, s)
  <1> DEFINE cost == t.amount + Fee(t)
             S == Spend(L, t)
             R == Spend(M, t)
  <1>1. L \in Ledgers /\ M \in Ledgers /\ M.dag_tx_count = L.dag_tx_count
    BY DEF LedgerOK, Richer
  <1>2. IsEffect(f, L, t, r) /\ IsEffect(g, M, t, s)
    BY <1>1, EffectsFacts
  <1>3. SpendVerdict(M, t) \notin {"DoubleSpend", "InsufficientBalance"}
    <2>1. t.nonce = L.next_nonce[t.sender] /\ ~(L.balances[t.sender] < cost)
      BY DEF SpendVerdict
    <2>2. M.balances[t.sender] \in Nat /\ M.balances[t.sender] >= L.balances[t.sender]
      <3>1. t.sender \in Address /\ L.balances \in [Address -> Nat]
        BY <1>1, LedgerFields DEF IsTransaction
      <3> QED BY <3>1 DEF Richer
    <2>3. L.balances[t.sender] \in Nat /\ cost \in Nat
      <3>1. t.sender \in Address /\ L.balances \in [Address -> Nat]
        BY <1>1, LedgerFields DEF IsTransaction
      <3>2. t.amount \in Nat
        BY DEF IsTransaction
      <3>3. Fee(t) \in Nat
        BY EconomicsAssumption DEF Fee
      <3>4. cost \in Nat
        BY <3>2, <3>3
      <3> HIDE DEF cost
      <3> QED BY <3>1, <3>4
    <2> HIDE DEF cost
    <2>4. ~(M.balances[t.sender] < cost)
      BY <2>1, <2>2, <2>3
    <2> QED BY <2>1, <2>4 DEF SpendVerdict, cost
  <1>4. r.verdict = "Ok" /\ s.verdict = "Ok"
    <2>1. SpendVerdict(M, t) # "Ok" => s.verdict = SpendVerdict(M, t)
      BY DEF apply_ledger_effects
    <2>2. s.verdict # "Overflow"
      <3>1. t.amount + FIXED_TRANSACTION_FEE \in Nat /\ U64_MAX \in Nat
        BY EconomicsAssumption DEF IsTransaction
      <3> QED BY <1>2, <3>1 DEF IsEffect
    <2> QED BY <1>2, <1>3, <2>1, <2>2 DEF IsEffect
  <1>5. SpendVerdict(M, t) = "Ok"
    BY <1>2, <1>4 DEF IsEffect
  <1> DEFINE mintL == mint_confirmed_tx(S, Fee(t), t.sender, t.relays)
             mintM == mint_confirmed_tx(R, Fee(t), t.sender, t.relays)
  <1>6. /\ r.verdict = (IF mintL.ok THEN "Ok" ELSE "Overflow") /\ r.ledger = mintL.ledger
        /\ s.verdict = (IF mintM.ok THEN "Ok" ELSE "Overflow") /\ s.ledger = mintM.ledger
    BY <1>5 DEF apply_ledger_effects
  <1>7. S \in Ledgers /\ R \in Ledgers /\ Fee(t) \in Nat
    BY <1>1, <1>5, SpendFacts
  <1>8. Richer(S, R, a, c)
    BY <1>1, RicherSpend
  <1> HIDE DEF S, R
  <1>9. t.sender \in Address /\ t.relays \in Seq(Address) /\ mintL.ok /\ mintM.ok
    BY <1>4, <1>6 DEF IsTransaction
  <1>10. Richer(mintL.ledger, mintM.ledger, a, c)
    BY <1>7, <1>8, <1>9, RicherMint
  <1> QED BY <1>2, <1>4, <1>6, <1>10 DEF IsRicherEffect

(* A replay that rejects nothing rejects nothing either when one account    *)
(* was credited more, and ends with that much more on it.                   *)
IsRicherReplay(r, s, a, c) ==
    /\ s.rejected = {} /\ ~s.aborted
    /\ r.ledger \in Ledgers /\ s.ledger \in Ledgers
    /\ Richer(r.ledger, s.ledger, a, c)
    /\ s.ledger.next_nonce = r.ledger.next_nonce
    /\ s.ledger.next_nonce[GenesisSender] = 0

(* The spends a replica replays: no genesis, none by the genesis key, none  *)
(* beyond 64 bits.                                                          *)
IsPayableSpend(t) ==
    /\ IsTransaction(t) /\ ~is_genesis(t)
    /\ t.sender # GenesisSender
    /\ t.amount + FIXED_TRANSACTION_FEE <= U64_MAX

LEMMA RicherReplay ==
    ASSUME NEW f, NEW a \in Address, NEW c \in Nat,
           NEW g, g = [f EXCEPT ![a] = @ + c],
           NEW N \in Nat, RoomFor(f, N), RoomFor(g, N),
           NEW txs, DOMAIN txs = 1 .. N, \A n \in 1 .. N : IsPayableSpend(txs[n]),
           NEW r, r = Replay(f, txs), r.rejected = {}, ~r.aborted,
           NEW s, s = Replay(g, txs)
    PROVE  IsRicherReplay(r, s, a, c)
  <1>1. PICK v : IsReplayRun(f, txs, N, v)
    BY ReplayRun
  <1>2. PICK w : IsReplayRun(g, txs, N, w)
    BY ReplayRun
  <1> DEFINE Clean(x) == x.rejected = {} /\ ~x.aborted
             Good(n) == /\ Clean(w[n])
                        /\ LedgerOK(v[n].ledger, f) /\ LedgerOK(w[n].ledger, g)
                        /\ v[n].ledger.dag_tx_count <= n
                        /\ Richer(v[n].ledger, w[n].ledger, a, c)
                        /\ w[n].ledger.next_nonce = v[n].ledger.next_nonce
                        /\ w[n].ledger.next_nonce[GenesisSender] = 0
             T == {n \in 0 .. N : Clean(v[n]) => Good(n)}
  <1>3. 0 \in T
    <2> DEFINE L == BaselineLedger(f)
               M == BaselineLedger(g)
    <2>1. /\ v[0].ledger = L /\ w[0].ledger = M
          /\ w[0].rejected = {} /\ w[0].aborted = FALSE
      BY <1>1, <1>2 DEF IsReplayRun
    <2>2. LedgerOK(L, f) /\ LedgerOK(M, g)
      BY BaselineLedgerOK DEF RoomFor
    <2>3. /\ Richer(L, M, a, c) /\ M.next_nonce = L.next_nonce
          /\ M.next_nonce[GenesisSender] = 0 /\ L.dag_tx_count = 0
      BY DagLedgerAssumption DEF BaselineLedger, Richer
    <2> HIDE DEF L, M
    <2>4. Good(0)
      BY <2>1, <2>2, <2>3
    <2> HIDE DEF Good
    <2> QED BY <2>4
  <1>4. ASSUME NEW n \in 1 .. N, n - 1 \in T PROVE n \in T
    <2> SUFFICES ASSUME Clean(v[n]) PROVE Good(n)
      OBVIOUS
    <2> DEFINE x == v[n - 1]
               y == w[n - 1]
               t == txs[n]
               L == x.ledger
               M == y.ledger
               d == apply_ledger_effects(L, t)
               e == apply_ledger_effects(M, t)
    <2>1. v[n] = ReplayStep(x, t) /\ w[n] = ReplayStep(y, t)
      BY <1>1, <1>2 DEF IsReplayRun
    <2>2. ~x.aborted
      <3> HIDE DEF x
      <3> QED BY <2>1 DEF ReplayStep
    <2>3. /\ v[n].ledger = d.ledger /\ d.verdict # "Overflow"
          /\ x.rejected = {} /\ d.verdict \notin {"DoubleSpend", "InsufficientBalance"}
      <3>1. v[n] = [ledger   |-> d.ledger,
                    rejected |-> IF d.verdict \in {"DoubleSpend", "InsufficientBalance"}
                                 THEN x.rejected \cup {t.id} ELSE x.rejected,
                    aborted  |-> d.verdict = "Overflow"]
        <4> HIDE DEF x, t, y
        <4> QED BY <2>1, <2>2 DEF ReplayStep
      <3>2. v[n].rejected = {} /\ ~v[n].aborted
        OBVIOUS
      <3> DEFINE z == v[n]
      <3> HIDE DEF x, t, y, d, z
      <3>3. /\ z.ledger = d.ledger /\ z.aborted = (d.verdict = "Overflow")
            /\ z.rejected = IF d.verdict \in {"DoubleSpend", "InsufficientBalance"}
                            THEN x.rejected \cup {t.id} ELSE x.rejected
        BY <3>1 DEF z
      <3>4. z.rejected = {} /\ ~z.aborted
        BY <3>2 DEF z
      <3>5. d.verdict # "Overflow"
        BY <3>3, <3>4, Zenon
      <3>6. x.rejected = {} /\ d.verdict \notin {"DoubleSpend", "InsufficientBalance"}
        BY <3>3, <3>4
      <3>7. v[n].ledger = d.ledger
        BY <3>3 DEF z
      <3> QED BY <3>5, <3>6, <3>7
    <2>4. Good(n - 1) /\ n \in 0 .. N
      BY <1>4, <2>2, <2>3
    <2>5. /\ Clean(y)
          /\ LedgerOK(L, f) /\ LedgerOK(M, g) /\ L.dag_tx_count <= n - 1
          /\ Richer(L, M, a, c) /\ M.next_nonce = L.next_nonce
          /\ M.next_nonce[GenesisSender] = 0
      BY <2>4
    <2>6. IsPayableSpend(t)
      OBVIOUS
    <2> HIDE DEF x, y, t, L, M, Good, Clean
    <2>7. RoomFor(f, L.dag_tx_count + 1) /\ RoomFor(g, L.dag_tx_count + 1)
      <3>1. L.dag_tx_count \in Nat
        BY <2>5, LedgerFields DEF LedgerOK
      <3>2. L.dag_tx_count + 1 \in 0 .. N
        BY <2>5, <3>1
      <3> QED BY <3>2, RoomBelow
    <2>8. SpendVerdict(L, t) = "Ok"
      <3> HIDE DEF d
      <3>1. IsEffect(f, L, t, d)
        BY <2>5, <2>6, <2>7, EffectsFacts DEF IsPayableSpend, d
      <3> QED BY <2>3, <3>1 DEF IsEffect
    <2>9. /\ IsEffect(f, L, t, d) /\ d.verdict = "Ok"
          /\ IsEffect(g, M, t, e) /\ e.verdict = "Ok"
          /\ Richer(d.ledger, e.ledger, a, c)
      <3>1. d = apply_ledger_effects(L, t) /\ e = apply_ledger_effects(M, t)
        OBVIOUS
      <3>2. M.next_nonce[t.sender] = L.next_nonce[t.sender]
        BY <2>5
      <3>3. IsTransaction(t) /\ ~is_genesis(t) /\ t.amount + FIXED_TRANSACTION_FEE <= U64_MAX
        BY <2>6 DEF IsPayableSpend
      <3>4. LedgerOK(L, f) /\ LedgerOK(M, g) /\ Richer(L, M, a, c)
        BY <2>5
      <3>5. c \in Nat /\ a \in Address /\ RoomFor(f, L.dag_tx_count + 1)
            /\ RoomFor(g, L.dag_tx_count + 1) /\ SpendVerdict(L, t) = "Ok"
        BY <2>7, <2>8
      <3> HIDE DEF d, e
      <3>6. IsRicherEffect(f, g, L, M, a, c, t, d, e)
        BY <3>1, <3>2, <3>3, <3>4, <3>5, RicherEffect
      <3> QED BY <3>6 DEF IsRicherEffect
    <2>10. w[n].ledger = e.ledger /\ Clean(w[n])
      <3>1. w[n] = [ledger |-> e.ledger, rejected |-> y.rejected, aborted |-> FALSE]
        BY <2>1, <2>5, <2>9 DEF ReplayStep, M, Clean
      <3> QED BY <2>5, <3>1 DEF Clean
    <2> HIDE DEF d, e
    <2>11. d.ledger.dag_tx_count <= n
      <3>1. d.ledger.dag_tx_count = L.dag_tx_count + 1 /\ L.dag_tx_count \in Nat
        BY <2>5, <2>9, LedgerFields DEF IsEffect, LedgerOK
      <3> QED BY <2>5, <3>1
    <2>12. /\ e.ledger.next_nonce = d.ledger.next_nonce
           /\ e.ledger.next_nonce[GenesisSender] = 0
      <3>1. /\ d.ledger.next_nonce = [L.next_nonce EXCEPT ![t.sender] = @ + 1]
            /\ e.ledger.next_nonce = [M.next_nonce EXCEPT ![t.sender] = @ + 1]
        BY <2>9 DEF IsEffect
      <3>2. M.next_nonce \in [Address -> 0 .. U64_MAX]
        BY <2>5, LedgerFields DEF LedgerOK
      <3> QED BY <2>5, <2>6, <3>1, <3>2, DagLedgerAssumption DEF IsPayableSpend
    <2>13. LedgerOK(d.ledger, f) /\ LedgerOK(e.ledger, g)
      BY <2>9 DEF IsEffect
    <2> QED BY <2>3, <2>9, <2>10, <2>11, <2>12, <2>13 DEF Good
  <1>5. Good(N)
    <2>1. \A n \in 0 .. N : n \in T
      <3> HIDE DEF T
      <3> QED BY <1>3, <1>4, IndexSetInduction
    <2>2. Clean(v[N]) /\ N \in 0 .. N
      BY <1>1 DEF IsReplayRun
    <2> HIDE DEF Good, Clean
    <2> QED BY <2>1, <2>2
  <1> QED BY <1>1, <1>2, <1>5 DEF IsReplayRun, IsRicherReplay, LedgerOK

(* A replay of one vertex more takes one step more.                         *)
LEMMA ReplayAppend ==
    ASSUME NEW f, NEW W, NEW txs \in Seq(W), NEW t \in W
    PROVE  Replay(f, Append(txs, t)) = ReplayStep(Replay(f, txs), t)
  <1> DEFINE N == Len(txs)
             more == Append(txs, t)
  <1>1. /\ N \in Nat /\ DOMAIN txs = 1 .. N /\ DOMAIN more = 1 .. N + 1
        /\ more[N + 1] = t /\ \A n \in 1 .. N : more[n] = txs[n]
    OBVIOUS
  <1>k. N + 1 \in Nat /\ N + 1 \in 1 .. N + 1 /\ N + 1 - 1 = N
    BY <1>1
  <1> HIDE DEF N, more
  <1>2. PICK v : IsReplayRun(f, txs, N, v)
    BY <1>1, ReplayRun
  <1>3. PICK w : IsReplayRun(f, more, N + 1, w)
    BY <1>1, <1>k, ReplayRun
  <1> DEFINE T == {n \in 0 .. N : w[n] = v[n]}
  <1>4. 0 \in T
    BY <1>1, <1>2, <1>3 DEF IsReplayRun
  <1>5. ASSUME NEW n \in 1 .. N, n - 1 \in T PROVE n \in T
    <2>1. n \in 1 .. N + 1 /\ n \in 0 .. N /\ w[n - 1] = v[n - 1]
      BY <1>1, <1>5
    <2>2. w[n] = ReplayStep(w[n - 1], more[n]) /\ v[n] = ReplayStep(v[n - 1], txs[n])
      BY <1>2, <1>3, <2>1 DEF IsReplayRun
    <2> QED BY <1>1, <2>1, <2>2
  <1>6. w[N] = v[N]
    <2>1. \A n \in 0 .. N : n \in T
      <3> HIDE DEF T
      <3> QED BY <1>1, <1>4, <1>5, IndexSetInduction
    <2> QED BY <1>1, <2>1
  <1>7. w[N + 1] = ReplayStep(w[N], t)
    <2> DEFINE K == N + 1
    <2>1. K \in 1 .. K /\ K - 1 = N /\ more[K] = t
      BY <1>1, <1>k
    <2>2. \A n \in 1 .. K : w[n] = ReplayStep(w[n - 1], more[n])
      BY <1>3 DEF IsReplayRun
    <2> HIDE DEF K
    <2>3. w[K] = ReplayStep(w[K - 1], more[K])
      BY <2>1, <2>2
    <2>4. w[K] = ReplayStep(w[N], t)
      BY <2>1, <2>3
    <2> QED BY <2>4 DEF K
  <1> QED BY <1>2, <1>3, <1>6, <1>7 DEF IsReplayRun, more
-----------------------------------------------------------------------------
(* The spends of a graph without conflicts.                                 *)

(* The genesis key signs none of the known vertices.                        *)
GenesisSilent(Known) == \A t \in Known : t.sender # GenesisSender

(* A rebuild that loses no spend replays the new vertex after all others.   *)
LEMMA SpendsAppend ==
    ASSUME NEW g, NEW Known, GraphOK(g), StoredFrom(g, Known), KnownOK(Known),
           NEW t \in Known, GraphVerdict(g, t) = "Ok",
           NEW h, h = InsertVertex(g, t)
    PROVE  SpendsInOrder(h, {}) = Append(SpendsInOrder(g, {}), t)
  <1> DEFINE N == Len(g.attach_order)
             K == N + 1
             old == UserVertices(g) \ {}
             new == UserVertices(h) \ {}
  <1>1. /\ GraphOK(h)
        /\ t.id \notin VertexSet(g)
        /\ h.vertices[t.id] = t
        /\ \A i \in VertexSet(g) : h.vertices[i] = g.vertices[i]
        /\ UserVertices(h) = UserVertices(g) \cup {t.id}
    BY InsertedUsers
  <1>2. h.attach_order = Append(g.attach_order, t.id)
    BY InsertedFields
  <1>3. g.attach_order \in Seq(TxHash) /\ ToSet(g.attach_order) = VertexSet(g)
    BY DEF GraphOK, OrderTopological
  <1>4. /\ N \in Nat /\ Len(h.attach_order) = K /\ h.attach_order[K] = t.id
        /\ \A n \in 1 .. N : h.attach_order[n] = g.attach_order[n]
        /\ \A n \in 1 .. N : g.attach_order[n] \in VertexSet(g)
    <2>1. t.id \in TxHash
      BY DEF KnownOK
    <2> QED BY <1>2, <1>3, <2>1 DEF ToSet
  <1>5. PICK v : IsBodyRun(g, old, v)
    BY BodyRun
  <1>6. PICK w : IsBodyRun(h, new, w)
    BY <1>1, BodyRun
  <1>7. /\ v[0] = <<>> /\ \A n \in 1 .. N : v[n] = Listed(g, old, v[n - 1], n)
        /\ SpendsInOrder(g, {}) = v[N]
    BY <1>5 DEF IsBodyRun, SpendsInOrder
  <1>8. /\ w[0] = <<>> /\ \A n \in 1 .. K : w[n] = Listed(h, new, w[n - 1], n)
        /\ SpendsInOrder(h, {}) = w[K]
    BY <1>4, <1>6 DEF IsBodyRun, SpendsInOrder
  <1>k. K \in 1 .. K /\ K - 1 = N /\ \A n \in 1 .. N : n \in 1 .. K /\ n \in 0 .. N
    BY <1>4
  <1> HIDE DEF N, K
  <1> DEFINE T == {n \in 0 .. N : w[n] = v[n]}
  <1>9. 0 \in T
    BY <1>4, <1>7, <1>8
  <1>10. ASSUME NEW n \in 1 .. N, n - 1 \in T PROVE n \in T
    <2> DEFINE x == g.attach_order[n]
    <2>1. n \in 1 .. K /\ n \in 0 .. N /\ w[n - 1] = v[n - 1]
      BY <1>k, <1>10
    <2>2. x \in VertexSet(g) /\ h.attach_order[n] = x
      BY <1>4
    <2>3. (x \in new <=> x \in old) /\ h.vertices[x] = g.vertices[x]
      BY <1>1, <2>2
    <2>4. w[n] = Listed(h, new, w[n - 1], n) /\ v[n] = Listed(g, old, v[n - 1], n)
      BY <1>7, <1>8, <2>1
    <2> HIDE DEF new, old
    <2>5. w[n] = v[n]
      BY <2>1, <2>2, <2>3, <2>4 DEF Listed
    <2> QED BY <2>1, <2>5
  <1>11. w[N] = v[N]
    <2>1. \A n \in 0 .. N : n \in T
      <3> HIDE DEF T
      <3> QED BY <1>4, <1>9, <1>10, IndexSetInduction
    <2> QED BY <1>4, <2>1
  <1>12. w[K] = Listed(h, new, w[N], K)
    BY <1>8, <1>k
  <1>13. t.id \in new
    BY <1>1
  <1> HIDE DEF new
  <1> QED BY <1>1, <1>4, <1>7, <1>8, <1>11, <1>12, <1>13 DEF Listed

(* Where no two spends compete, none loses.                                 *)
LEMMA QuietLosers ==
    ASSUME NEW g, GraphOK(g), \A i \in UserVertices(g) : Rivals(g, i) = {i}
    PROVE  Losers(g) = {}
  <1> SUFFICES ASSUME NEW i \in UserVertices(g) PROVE Winner(g, i) = i
    BY DEF Losers
  <1>1. Winner(g, i) \in Rivals(g, i)
    BY WinnerFacts
  <1> QED BY <1>1

(* Nothing competed before either.                                          *)
LEMMA QuietBefore ==
    ASSUME NEW g, NEW Known, GraphOK(g), StoredFrom(g, Known), KnownOK(Known),
           NEW t \in Known, GraphVerdict(g, t) = "Ok",
           NEW h, h = InsertVertex(g, t),
           \A i \in UserVertices(h) : Rivals(h, i) = {i}
    PROVE  \A i \in UserVertices(g) : Rivals(g, i) = {i}
  <1>1. /\ \A i \in VertexSet(g) : h.vertices[i] = g.vertices[i]
        /\ UserVertices(h) = UserVertices(g) \cup {t.id}
    BY InsertedUsers
  <1> SUFFICES ASSUME NEW i \in UserVertices(g) PROVE Rivals(g, i) = {i}
    OBVIOUS
  <1>2. UserVertices(g) \subseteq VertexSet(g)
    BY DEF UserVertices
  <1>3. Rivals(g, i) \subseteq Rivals(h, i)
    BY <1>1, <1>2 DEF Rivals
  <1>4. i \in Rivals(g, i)
    BY DEF Rivals
  <1> QED BY <1>1, <1>3, <1>4

(* The spends of a replica are all payable, and there is room for them.     *)
IsReplayList(faucet, Known, txs) ==
    /\ Len(txs) \in Nat /\ DOMAIN txs = 1 .. Len(txs)
    /\ \A n \in 1 .. Len(txs) : IsPayableSpend(txs[n])
    /\ RoomFor(faucet, Len(txs))
    /\ txs \in Seq(Known)

LEMMA SpendsToReplay ==
    ASSUME NEW Known, KnownOK(Known), Payable(Known), GenesisSilent(Known),
           NEW g, GraphOK(g), StoredFrom(g, Known),
           NEW faucet, KnownRoom(Known, faucet),
           NEW txs, txs = SpendsInOrder(g, {})
    PROVE  IsReplayList(faucet, Known, txs)
  <1> DEFINE chosen == UserVertices(g) \ {}
             N == Len(txs)
             K == Cardinality({t.id : t \in Known})
  <1>1. /\ UserVertices(g) \subseteq VertexSet(g)
        /\ IsFiniteSet(UserVertices(g))
        /\ Cardinality(UserVertices(g)) <= K
        /\ \A i \in UserVertices(g) : IsTransaction(g.vertices[i]) /\ ~is_genesis(g.vertices[i])
    BY UserVerticesFacts
  <1>2. ListsOnce(g, chosen, txs)
    <2>1. \A i \in VertexSet(g) : g.vertices[i].id = i
      BY DEF StoredFrom
    <2>2. chosen \subseteq VertexSet(g) /\ txs = transactions_for_in_order(g, chosen)
      BY <1>1 DEF SpendsInOrder
    <2> HIDE DEF chosen
    <2> QED BY <2>1, <2>2, OrderedBodies
  <1>3. /\ DOMAIN txs = 1 .. N /\ N \in Nat /\ N = Cardinality(UserVertices(g))
        /\ {txs[n].id : n \in 1 .. N} = UserVertices(g)
        /\ \A n \in 1 .. N : txs[n] = g.vertices[txs[n].id]
    BY <1>2 DEF ListsOnce
  <1>4. RoomFor(faucet, N)
    <2>1. K \in Nat /\ RoomFor(faucet, K)
      BY FS_CardinalityType DEF KnownOK, KnownRoom
    <2> HIDE DEF K, N
    <2>2. N \in 0 .. K
      BY <1>1, <1>3, <2>1
    <2> QED BY <2>1, <2>2, RoomBelow
  <1> HIDE DEF K, N
  <1>5. ASSUME NEW n \in 1 .. N PROVE txs[n] \in Known /\ IsPayableSpend(txs[n])
    <2>1. txs[n].id \in UserVertices(g) /\ txs[n] = g.vertices[txs[n].id]
      BY <1>3
    <2>2. txs[n].id # GenesisId
      <3>1. is_genesis(signed_genesis_tx)
        BY DEF is_genesis, signed_genesis_tx
      <3> QED BY <1>1, <2>1, <3>1 DEF StoredFrom
    <2>3. txs[n] \in Known
      BY <1>1, <2>1, <2>2 DEF StoredFrom
    <2> QED BY <1>1, <2>1, <2>3 DEF IsPayableSpend, Payable, GenesisSilent
  <1>6. txs \in Seq(Known)
    <2>1. \A i \in VertexSet(g) : g.vertices[i].id = i
      BY DEF StoredFrom
    <2>2. IsBodyList(g, chosen, txs)
      BY <2>1, StoredBodies DEF SpendsInOrder
    <2>3. txs \in Seq({g.vertices[i] : i \in VertexSet(g)})
      BY <2>2 DEF IsBodyList
    <2> QED BY <1>3, <1>5, <2>3 DEF N
  <1> QED BY <1>3, <1>4, <1>5, <1>6 DEF IsReplayList, N
-----------------------------------------------------------------------------
(* Rebuilding a replica without conflicts.                                  *)

(* Replaying every stored spend over the faucet baseline loses none and     *)
(* gives the ledger back, but for the nonce that genesis took.              *)
Replayable(d) ==
    LET r == Replay(d.faucet, SpendsInOrder(d.graph, {}))
    IN  /\ r.rejected = {} /\ ~r.aborted
        /\ r.ledger = [d.ledger EXCEPT !.next_nonce[GenesisSender] = 0]

QuietReplays(d) == Quiet(d) => Replayable(d)

(* The reset of that nonce, field by field.                                 *)
LEMMA ResetLedger ==
    ASSUME NEW L \in Ledgers, NEW M \in Ledgers
    PROVE  M = [L EXCEPT !.next_nonce[GenesisSender] = 0]
             <=> /\ Richer(L, M, GenesisSender, 0)
                 /\ M.next_nonce = [L.next_nonce EXCEPT ![GenesisSender] = 0]
  <1> DEFINE b   == L.balances
             new == [L.next_nonce EXCEPT ![GenesisSender] = 0]
  <1>1. [b EXCEPT ![GenesisSender] = @ + 0] = b
    <2>1. b \in [Address -> Int]
      BY LedgerFields
    <2> HIDE DEF b
    <2> QED BY <2>1, DagLedgerAssumption
  <1>2. [L EXCEPT !.next_nonce[GenesisSender] = 0] = [L EXCEPT !.next_nonce = new]
    OBVIOUS
  <1> HIDE DEF new
  <1>3. M = [L EXCEPT !.next_nonce = new]
          <=> /\ M.balances = b /\ M.relay_credits = L.relay_credits
              /\ M.current_supply = L.current_supply
              /\ M.dag_tx_count = L.dag_tx_count
              /\ M.next_nonce = new
    BY DEF Ledgers
  <1> QED BY <1>1, <1>2, <1>3 DEF Richer, new

(* Genesis alone: there is nothing to replay.                               *)
LEMMA QuietGenesis ==
    ASSUME NEW Known, KnownOK(Known)
    PROVE  Replayable(with_genesis)
  <1> DEFINE w   == with_genesis
             L   == w.ledger
             txs == SpendsInOrder(w.graph, {})
             R   == Replay(NoFaucet, txs)
             B   == BaselineLedger(NoFaucet)
  <1>1. /\ ReplicaState(w, Known) /\ Counted(w)
        /\ w.faucet = NoFaucet /\ UserVertices(w.graph) = {}
        /\ L.balances = NoFaucet /\ NoFaucet \in [Address -> 0 .. U64_MAX]
    BY GenesisState
  <1> HIDE DEF w
  <1>2. DOMAIN txs = 1 .. 0
    <2> DEFINE ids == UserVertices(w.graph) \ {}
    <2>1. /\ \A i \in VertexSet(w.graph) : w.graph.vertices[i].id = i
          /\ ids \subseteq VertexSet(w.graph) /\ ids = {}
          /\ txs = transactions_for_in_order(w.graph, ids) /\ GraphOK(w.graph)
      BY <1>1 DEF ReplicaState, ReplicaOK, StoredFrom, SpendsInOrder
    <2> HIDE DEF ids, txs
    <2>2. ListsOnce(w.graph, ids, txs)
      BY <2>1, OrderedBodies
    <2>3. Len(txs) = 0
      BY <2>1, <2>2, FS_EmptySet DEF ListsOnce
    <2> QED BY <2>2, <2>3 DEF ListsOnce
  <1> HIDE DEF txs
  <1>3. PICK run : IsReplayRun(NoFaucet, txs, 0, run)
    BY <1>2, ReplayRun, 0 \in Nat
  <1>4. R.ledger = B /\ R.rejected = {} /\ ~R.aborted
    BY <1>3 DEF IsReplayRun
  <1>5. /\ B.balances = NoFaucet /\ B.current_supply = 0 /\ B.dag_tx_count = 0
        /\ B.next_nonce = [a \in Address |-> 0] /\ B.relay_credits = [a \in Address |-> 0]
    BY DEF BaselineLedger
  <1>6. L \in Ledgers /\ B \in Ledgers /\ LedgerOK(L, NoFaucet)
    BY <1>1, BaselineTyped DEF ReplicaState, LedgerOK
  <1>7. /\ L.dag_tx_count \in Nat /\ L.relay_credits \in [Address -> 0 .. U64_MAX]
        /\ L.next_nonce \in [Address -> 0 .. U64_MAX] /\ NoFaucet \in [Address -> Int]
    <2>1. NoFaucet \in [Address -> Int]
      BY DEF NoFaucet
    <2> QED BY <1>6, <2>1, LedgerFields
  <1> HIDE DEF R, B
  <1>8. L.dag_tx_count = 0
    <2>1. L.dag_tx_count <= Cardinality({})
      BY <1>1 DEF ReplicaState
    <2> HIDE DEF L
    <2> QED BY <1>7, <2>1, FS_EmptySet
  <1>9. L.current_supply = 0
    BY <1>6, <1>8, EmissionSchedule DEF LedgerOK
  <1>10. L.relay_credits = [a \in Address |-> 0]
    <2>1. PoolBound \in Nat /\ 0 * PoolBound = 0
      BY EconomicsAssumption DEF PoolBound
    <2>2. \A a \in Address : L.relay_credits[a] <= 0
      BY <1>6, <1>8, <2>1 DEF LedgerOK
    <2> HIDE DEF L
    <2>3. \A a \in Address : L.relay_credits[a] = 0
      BY <1>7, <2>2, EconomicsAssumption
    <2> QED BY <1>7, <2>3
  <1>11. \A a \in Users : L.next_nonce[a] = 0
    <2>1. Applied(w) = {}
      BY <1>1 DEF Applied
    <2>2. LedgerCounts(L, w.graph.vertices, {})
      BY <1>1, <2>1 DEF Counted
    <2>3. \A a \in Users : SpentBy(w.graph.vertices, {}, a) = {}
      BY DEF SpentBy
    <2> QED BY <2>2, <2>3, FS_EmptySet DEF LedgerCounts
  <1>12. B.next_nonce = [L.next_nonce EXCEPT ![GenesisSender] = 0]
    <2> HIDE DEF L
    <2> QED BY <1>5, <1>7, <1>11, DagLedgerAssumption DEF Users
  <1>13. Richer(L, B, GenesisSender, 0)
    <2>1. [NoFaucet EXCEPT ![GenesisSender] = @ + 0] = NoFaucet
      BY DagLedgerAssumption DEF NoFaucet
    <2> HIDE DEF L
    <2> QED BY <1>1, <1>5, <1>8, <1>9, <1>10, <2>1 DEF Richer, L
  <1>14. B = [L EXCEPT !.next_nonce[GenesisSender] = 0]
    BY <1>6, <1>12, <1>13, ResetLedger
  <1> QED BY <1>1, <1>4, <1>14 DEF Replayable, R, txs, w

(* A spend applied at once is replayed last, with the same effect.          *)
LEMMA QuietAttach ==
    ASSUME NEW Known, KnownOK(Known), Payable(Known), GenesisSilent(Known),
           NEW d, ReplicaState(d, Known), KnownRoom(Known, d.faucet), QuietReplays(d),
           NEW t \in Known,
           NEW r, r = attach_and_verify_tx(d, t)
    PROVE  QuietReplays(r.dag)
  <1> DEFINE g == d.graph
             h == InsertVertex(g, t)
             L == d.ledger
             e == apply_ledger_effects(L, t)
             R == Replay(d.faucet, SpendsInOrder(g, {}))
             M == R.ledger
             s == apply_ledger_effects(M, t)
  <1>1. CASE GraphVerdict(g, t) # "Ok" \/ SpendVerdict(L, t) # "Ok"
    <2>1. r.dag = d
      BY <1>1 DEF attach_and_verify_tx
    <2> QED BY <2>1
  <1>2. CASE GraphVerdict(g, t) = "Ok" /\ SpendVerdict(L, t) = "Ok"
    <2>1. /\ IsRecord(d) /\ GraphOK(g) /\ StoredFrom(g, Known)
          /\ d.faucet \in [Address -> 0 .. U64_MAX]
          /\ LedgerOK(L, d.faucet) /\ L \in Ledgers
          /\ L.dag_tx_count <= Cardinality(UserVertices(g))
      BY DEF ReplicaState, ReplicaOK, LedgerOK
    <2>2. /\ GraphOK(h) /\ StoredFrom(h, Known) /\ ~is_genesis(t)
          /\ Cardinality(UserVertices(h)) = Cardinality(UserVertices(g)) + 1
      BY <1>2, <2>1, InsertedUsers
    <2>3. r.dag = [d EXCEPT !.graph = h, !.ledger = e.ledger]
      BY <1>2, <2>2 DEF attach_and_verify_tx
    <2> HIDE DEF h, e
    <2>4. /\ r.dag.graph = h /\ r.dag.ledger = e.ledger /\ r.dag.faucet = d.faucet
          /\ r.dag.conflicts = d.conflicts
      BY <2>1, <2>3 DEF IsRecord
    <2> SUFFICES ASSUME Quiet(r.dag) PROVE Replayable(r.dag)
      BY DEF QuietReplays
    <2>5. Quiet(d)
      <3>1. \A i \in UserVertices(h) : Rivals(h, i) = {i}
        BY <2>4 DEF Quiet
      <3>2. \A i \in UserVertices(g) : Rivals(g, i) = {i}
        BY <1>2, <2>1, <3>1, QuietBefore DEF h
      <3> QED BY <2>4, <3>2 DEF Quiet
    <2>6. /\ R.rejected = {} /\ ~R.aborted
          /\ M = [L EXCEPT !.next_nonce[GenesisSender] = 0]
      BY <2>5 DEF QuietReplays, Replayable
    <2>7. Replay(d.faucet, SpendsInOrder(h, {})) = ReplayStep(R, t)
      <3>1. SpendsInOrder(h, {}) = Append(SpendsInOrder(g, {}), t)
        BY <1>2, <2>1, SpendsAppend DEF h
      <3>2. SpendsInOrder(g, {}) \in Seq(Known)
        BY <2>1, SpendsToReplay DEF IsReplayList
      <3> DEFINE txs == SpendsInOrder(g, {})
      <3> HIDE DEF txs
      <3>3. Replay(d.faucet, Append(txs, t)) = ReplayStep(Replay(d.faucet, txs), t)
        BY <3>2, ReplayAppend DEF txs
      <3> QED BY <3>1, <3>3 DEF txs
    <2> HIDE DEF R
    <2>8. M \in Ledgers /\ LedgerOK(M, d.faucet)
      <3> DEFINE new == [L.next_nonce EXCEPT ![GenesisSender] = 0]
      <3> HIDE DEF M, L
      <3>1. /\ L.next_nonce \in [Address -> 0 .. U64_MAX] /\ 0 \in 0 .. U64_MAX
            /\ L.dag_tx_count \in Nat
        BY <2>1, LedgerFields, EconomicsAssumption
      <3>2. /\ new \in [Address -> 0 .. U64_MAX]
            /\ \A a \in Address : new[a] = 0 \/ new[a] = L.next_nonce[a]
        BY <3>1, DagLedgerAssumption
      <3>3. M = [L EXCEPT !.next_nonce = new]
        BY <2>6
      <3> HIDE DEF new
      <3>4. /\ M \in Ledgers /\ M.balances = L.balances /\ M.next_nonce = new
            /\ M.relay_credits = L.relay_credits
            /\ M.current_supply = L.current_supply /\ M.dag_tx_count = L.dag_tx_count
        BY <2>1, <3>2, <3>3 DEF Ledgers
      <3>5. \A a \in Address : M.next_nonce[a] <= M.dag_tx_count + 1
        BY <2>1, <3>1, <3>2, <3>4 DEF LedgerOK
      <3> QED BY <2>1, <3>4, <3>5 DEF LedgerOK
    <2>9. /\ Richer(L, M, GenesisSender, 0)
          /\ M.next_nonce = [L.next_nonce EXCEPT ![GenesisSender] = 0]
      BY <2>1, <2>6, <2>8, ResetLedger
    <2>10. RoomFor(d.faucet, L.dag_tx_count + 1)
      <3> DEFINE N == Cardinality({x.id : x \in Known})
      <3>1. /\ Cardinality(UserVertices(h)) <= N /\ Cardinality(UserVertices(g)) \in Nat
        BY <2>1, <2>2, UserVerticesFacts
      <3>2. N \in Nat
        BY FS_CardinalityType DEF KnownOK
      <3>3. RoomFor(d.faucet, N)
        BY DEF KnownRoom
      <3>4. L.dag_tx_count \in Nat
        BY <2>1, LedgerFields
      <3> HIDE DEF N
      <3>5. L.dag_tx_count + 1 \in 0 .. N
        BY <2>1, <2>2, <3>1, <3>2, <3>4
      <3> QED BY <3>2, <3>3, <3>5, RoomBelow
    <2>11. /\ IsTransaction(t) /\ t.sender \in Address
           /\ t.sender # GenesisSender /\ t.amount + FIXED_TRANSACTION_FEE <= U64_MAX
      BY DEF KnownOK, GenesisSilent, Payable, IsTransaction
    <2>12. L.next_nonce \in [Address -> 0 .. U64_MAX] /\ GenesisSender \in Address
      BY <2>1, LedgerFields, DagLedgerAssumption
    <2>13. M.next_nonce[t.sender] = L.next_nonce[t.sender]
      BY <2>9, <2>11, <2>12
    <2> HIDE DEF L, M
    <2>14. IsRicherEffect(d.faucet, d.faucet, L, M, GenesisSender, 0, t, e, s)
      BY <1>2, <2>1, <2>2, <2>8, <2>9, <2>10, <2>11, <2>12, <2>13, RicherEffect DEF e
    <2> HIDE DEF s
    <2>15. /\ LedgerOK(e.ledger, d.faucet) /\ LedgerOK(s.ledger, d.faucet) /\ s.verdict = "Ok"
           /\ e.ledger.next_nonce = [L.next_nonce EXCEPT ![t.sender] = @ + 1]
           /\ s.ledger.next_nonce = [M.next_nonce EXCEPT ![t.sender] = @ + 1]
           /\ Richer(e.ledger, s.ledger, GenesisSender, 0)
      BY <2>14 DEF IsRicherEffect, IsEffect
    <2>16. s.ledger.next_nonce = [e.ledger.next_nonce EXCEPT ![GenesisSender] = 0]
      BY <2>9, <2>11, <2>12, <2>15
    <2>17. s.ledger = [e.ledger EXCEPT !.next_nonce[GenesisSender] = 0]
      BY <2>15, <2>16, ResetLedger DEF LedgerOK
    <2>18. ReplayStep(R, t) = [ledger |-> s.ledger, rejected |-> {}, aborted |-> FALSE]
      BY <2>6, <2>15 DEF ReplayStep, s, M
    <2> QED BY <2>4, <2>7, <2>17, <2>18 DEF Replayable
  <1> QED BY <1>1, <1>2
(* A rebuild that finds no conflict has just replayed every spend.          *)
LEMMA QuietRebuild ==
    ASSUME NEW Known, KnownOK(Known), Payable(Known), GenesisSilent(Known),
           NEW d, ReplicaState(d, Known), KnownRoom(Known, d.faucet),
           NEW r, r = resolve_conflicts_and_rebuild_ledger(d)
    PROVE  QuietReplays(r.dag)
  <1> DEFINE g == d.graph
             f == d.faucet
             losers == Losers(g)
             R == Replay(f, SpendsInOrder(g, losers))
             lost == [i \in losers \cup R.rejected |->
                        IF i \in losers THEN Winner(g, i) ELSE NULL_PARENT]
  <1>1. /\ IsRecord(d) /\ GraphOK(g) /\ StoredFrom(g, Known)
        /\ f \in [Address -> 0 .. U64_MAX]
    BY DEF ReplicaState, ReplicaOK
  <1>2. r.verdict = "Ok"
    <2>1. AmountsFit(g)
      BY <1>1, StoredAmounts
    <2>2. IsRebuild(d, Known, r)
      BY RebuildState
    <2> QED BY <2>1, <2>2 DEF IsRebuild
  <1>3. /\ r.verdict = IF R.aborted THEN "Overflow" ELSE "Ok"
        /\ r.dag = [d EXCEPT !.ledger = R.ledger,
                             !.conflicts = IF R.aborted THEN d.conflicts ELSE lost]
    BY DEF resolve_conflicts_and_rebuild_ledger
  <1> HIDE DEF R, lost
  <1>4. ~R.aborted
    BY <1>2, <1>3
  <1>5. /\ r.dag.graph = g /\ r.dag.faucet = f /\ r.dag.ledger = R.ledger
        /\ r.dag.conflicts = lost
    BY <1>1, <1>3, <1>4 DEF IsRecord
  <1> SUFFICES ASSUME Quiet(r.dag) PROVE Replayable(r.dag)
    BY DEF QuietReplays
  <1>6. losers = {} /\ R.rejected = {}
    BY <1>5 DEF Quiet, lost
  <1> DEFINE txs == SpendsInOrder(g, {})
             N == Len(txs)
  <1>7. R = Replay(f, txs)
    BY <1>6 DEF R
  <1>8. IsReplayList(f, Known, txs)
    BY <1>1, SpendsToReplay
  <1> HIDE DEF txs, f, g
  <1>9. /\ N \in Nat /\ DOMAIN txs = 1 .. N /\ RoomFor(f, N)
        /\ \A n \in 1 .. N : IsPayableSpend(txs[n])
    BY <1>8 DEF IsReplayList
  <1>10. f = [f EXCEPT ![GenesisSender] = @ + 0]
    BY <1>1, EconomicsAssumption
  <1> HIDE DEF N
  <1>11. IsRicherReplay(R, R, GenesisSender, 0)
    BY <1>4, <1>6, <1>7, <1>9, <1>10, DagLedgerAssumption, 0 \in Nat, RicherReplay
  <1>12. /\ R.ledger \in Ledgers /\ R.ledger.next_nonce[GenesisSender] = 0
         /\ Richer(R.ledger, R.ledger, GenesisSender, 0)
    BY <1>11 DEF IsRicherReplay
  <1>13. R.ledger.next_nonce = [R.ledger.next_nonce EXCEPT ![GenesisSender] = 0]
    BY <1>12, LedgerFields
  <1>14. R.ledger = [R.ledger EXCEPT !.next_nonce[GenesisSender] = 0]
    BY <1>12, <1>13, ResetLedger
  <1> QED BY <1>4, <1>5, <1>6, <1>7, <1>14 DEF Replayable, txs

(* Live ingest attaches or rebuilds.                                        *)
LEMMA QuietAccept ==
    ASSUME NEW Known, KnownOK(Known), Payable(Known), GenesisSilent(Known),
           NEW d, ReplicaState(d, Known), KnownRoom(Known, d.faucet), QuietReplays(d),
           NEW t \in Known,
           NEW r, r = accept_wire_vertex(d, t)
    PROVE  QuietReplays(r.dag)
  <1> DEFINE g        == d.graph
             attached == attach_and_verify_tx(d, t)
             s        == [d EXCEPT !.graph = InsertVertex(d.graph, t)]
             rebuilt  == resolve_conflicts_and_rebuild_ledger(s)
  <1>1. \/ r.dag = d
        \/ r.dag = attached.dag
        \/ GraphVerdict(g, t) = "Ok" /\ r = rebuilt
    BY DEF accept_wire_vertex, insert_graph_only
  <1>2. QuietReplays(attached.dag)
    BY QuietAttach
  <1>3. ASSUME GraphVerdict(g, t) = "Ok" PROVE QuietReplays(rebuilt.dag)
    <2>1. ReplicaState(s, Known)
      BY <1>3, StoredState
    <2>2. s.faucet = d.faucet
      BY DEF ReplicaState, ReplicaOK, IsRecord
    <2> HIDE DEF s
    <2> QED BY <2>1, <2>2, QuietRebuild
  <1> HIDE DEF attached, rebuilt
  <1> QED BY <1>1, <1>2, <1>3

(* A credit is the same before the spends and after them.                   *)
LEMMA QuietCredit ==
    ASSUME NEW Known, KnownOK(Known), Payable(Known), GenesisSilent(Known),
           NEW d, ReplicaState(d, Known), KnownRoom(Known, d.faucet), QuietReplays(d),
           NEW a \in Address, NEW amount \in Nat, d.faucet[a] + amount <= U64_MAX,
           NEW r, r = credit_account(d, a, amount),
           KnownRoom(Known, [d.faucet EXCEPT ![a] = @ + amount])
    PROVE  QuietReplays(r)
  <1> DEFINE g == d.graph
             f == d.faucet
             L == d.ledger
             fau == [f EXCEPT ![a] = @ + amount]
             txs == SpendsInOrder(g, {})
             N == Len(txs)
             R == Replay(f, txs)
             S == Replay(fau, txs)
  <1>1. /\ IsRecord(d) /\ GraphOK(g) /\ StoredFrom(g, Known)
        /\ f \in [Address -> 0 .. U64_MAX] /\ L \in Ledgers
    BY DEF ReplicaState, ReplicaOK, LedgerOK
  <1>2. r.faucet = fau /\ r.graph = g /\ r.conflicts = d.conflicts
    <2>1. r.faucet = fau /\ r.graph = g
      BY CreditState
    <2> QED BY <1>1, <2>1 DEF credit_account, IsRecord
  <1> SUFFICES ASSUME Quiet(r) PROVE Replayable(r)
    BY DEF QuietReplays
  <1>3. Replayable(d)
    BY <1>2 DEF Quiet, QuietReplays
  <1>4. /\ R.rejected = {} /\ ~R.aborted
        /\ R.ledger = [L EXCEPT !.next_nonce[GenesisSender] = 0]
    BY <1>3 DEF Replayable
  <1>5. IsReplayList(f, Known, txs) /\ IsReplayList(fau, Known, txs)
    BY <1>1, SpendsToReplay
  <1> HIDE DEF txs
  <1>6. /\ N \in Nat /\ DOMAIN txs = 1 .. N /\ RoomFor(f, N) /\ RoomFor(fau, N)
        /\ \A n \in 1 .. N : IsPayableSpend(txs[n])
    BY <1>5 DEF IsReplayList
  <1>7. IsRicherReplay(R, S, a, amount)
    <2>1. fau = [f EXCEPT ![a] = @ + amount] /\ R = Replay(f, txs) /\ S = Replay(fau, txs)
      OBVIOUS
    <2> HIDE DEF f, fau, R, S, N
    <2> QED BY <1>4, <1>6, <2>1, RicherReplay
  <1> HIDE DEF R, S, fau
  <1>8. /\ S.rejected = {} /\ ~S.aborted
        /\ R.ledger \in Ledgers /\ S.ledger \in Ledgers
        /\ Richer(R.ledger, S.ledger, a, amount)
        /\ S.ledger.next_nonce = R.ledger.next_nonce
    BY <1>7 DEF IsRicherReplay
  <1>9. /\ Richer(L, R.ledger, GenesisSender, 0)
        /\ R.ledger.next_nonce = [L.next_nonce EXCEPT ![GenesisSender] = 0]
    BY <1>1, <1>4, <1>8, ResetLedger
  <1>10. /\ L.balances \in [Address -> 0 .. U64_MAX] /\ L.balances \in [Address -> Int]
         /\ S.ledger.balances \in [Address -> 0 .. U64_MAX]
    BY <1>1, <1>8, LedgerFields
  <1>11. R.ledger.balances = L.balances
    BY <1>9, <1>10, DagLedgerAssumption DEF Richer
  <1>12. S.ledger.balances = [L.balances EXCEPT ![a] = @ + amount]
    BY <1>8, <1>11 DEF Richer
  <1>13. SaturatingAdd(L.balances[a], amount) = L.balances[a] + amount
    <2>1. S.ledger.balances[a] = L.balances[a] + amount
      BY <1>10, <1>12
    <2>2. S.ledger.balances[a] <= U64_MAX /\ L.balances[a] \in Nat
      BY <1>10, EconomicsAssumption
    <2> QED BY <2>1, <2>2, EconomicsAssumption DEF SaturatingAdd
  <1>14. r.ledger = [L EXCEPT !.balances = S.ledger.balances]
    <2> DEFINE new == [L.balances EXCEPT ![a] = SaturatingAdd(L.balances[a], amount)]
    <2>1. new = S.ledger.balances
      BY <1>12, <1>13
    <2>2. r.ledger = [L EXCEPT !.balances = new]
      BY <1>1 DEF credit_account, IsRecord
    <2> HIDE DEF new
    <2> QED BY <2>1, <2>2
  <1>15. /\ r.ledger \in Ledgers /\ r.ledger.balances = S.ledger.balances
         /\ r.ledger.next_nonce = L.next_nonce
         /\ r.ledger.relay_credits = L.relay_credits
         /\ r.ledger.current_supply = L.current_supply
         /\ r.ledger.dag_tx_count = L.dag_tx_count
    <2> DEFINE b == S.ledger.balances
    <2>1. b \in [Address -> 0 .. U64_MAX]
      BY <1>10
    <2> HIDE DEF b, L
    <2> QED BY <1>1, <1>14, <2>1 DEF Ledgers, b
  <1>16. Richer(r.ledger, S.ledger, GenesisSender, 0)
    <2>1. S.ledger.balances = [S.ledger.balances EXCEPT ![GenesisSender] = @ + 0]
      BY <1>10, EconomicsAssumption
    <2> QED BY <1>8, <1>9, <1>15, <2>1 DEF Richer
  <1>17. S.ledger = [r.ledger EXCEPT !.next_nonce[GenesisSender] = 0]
    BY <1>8, <1>9, <1>15, <1>16, ResetLedger
  <1> QED BY <1>2, <1>8, <1>17 DEF Replayable, S, txs

(* A rebuild gives a replica back that replays that way.                    *)
LEMMA QuietSurvives ==
    ASSUME NEW Known, NEW d, ReplicaState(d, Known), Quiet(d), Replayable(d),
           NEW r, r = resolve_conflicts_and_rebuild_ledger(d)
    PROVE  r.verdict = "Ok" /\ r.dag = [d EXCEPT !.ledger.next_nonce[GenesisSender] = 0]
  <1> DEFINE g == d.graph
             R == Replay(d.faucet, SpendsInOrder(g, {}))
             none == [i \in {} |-> NULL_PARENT]
  <1>1. IsRecord(d) /\ GraphOK(g) /\ ConflictsOK(d)
    BY DEF ReplicaState, ReplicaOK
  <1>2. Losers(g) = {}
    BY <1>1, QuietLosers DEF Quiet
  <1>3. /\ R.rejected = {} /\ ~R.aborted
        /\ R.ledger = [d.ledger EXCEPT !.next_nonce[GenesisSender] = 0]
    BY DEF Replayable
  <1>4. d.conflicts = none
    BY <1>1 DEF Quiet, ConflictsOK
  <1>5. /\ r.verdict = IF R.aborted THEN "Overflow" ELSE "Ok"
        /\ r.dag = [d EXCEPT !.ledger = R.ledger,
                             !.conflicts = IF R.aborted THEN d.conflicts
                                           ELSE [i \in {} \cup R.rejected |->
                                                   IF i \in {} THEN Winner(g, i)
                                                   ELSE NULL_PARENT]]
    BY <1>2 DEF resolve_conflicts_and_rebuild_ledger
  <1> HIDE DEF R
  <1>6. r.verdict = "Ok" /\ r.dag = [d EXCEPT !.ledger = R.ledger, !.conflicts = none]
    <2>1. [i \in {} \cup R.rejected |-> IF i \in {} THEN Winner(g, i) ELSE NULL_PARENT] = none
      BY <1>3
    <2> QED BY <1>3, <1>5, <2>1
  <1> HIDE DEF none
  <1>7. r.dag = [d EXCEPT !.ledger = R.ledger]
    BY <1>1, <1>4, <1>6 DEF IsRecord
  <1> QED BY <1>3, <1>6, <1>7
-----------------------------------------------------------------------------
(* Sets of numbers, sorted.                                                 *)


(* A finite set of numbers can be listed from the least up.                 *)
IsAscending(S, s) ==
    /\ s \in [1 .. Cardinality(S) -> S]
    /\ \A m, n \in 1 .. Cardinality(S) : m < n => s[m] < s[n]

(* By induction over the set, its largest member last.                      *)
LEMMA AscendingExists ==
    ASSUME NEW S, S \subseteq Nat, IsFiniteSet(S)
    PROVE  \E s : IsAscending(S, s)
  <1> DEFINE T == {R \in SUBSET S : \E s : IsAscending(R, s)}
  <1>1. {} \in T
    <2>1. Cardinality({}) = 0
      BY FS_EmptySet
    <2>2. IsAscending({}, [n \in 1 .. 0 |-> 0])
      BY <2>1 DEF IsAscending
    <2> QED BY <2>2
  <1>2. ASSUME NEW R \in SUBSET S, R # {}, \A x \in R : R \ {x} \in T
        PROVE  R \in T
    <2> DEFINE top == Max(R)
               Q   == R \ {top}
               k   == Cardinality(Q)
    <2>1. IsFiniteSet(R) /\ R \subseteq Nat
      BY FS_Subset
    <2>2. top \in R /\ \A y \in R : y <= top
      BY <1>2, <2>1, GreatestNat
    <2>3. PICK s : IsAscending(Q, s)
      <3> HIDE DEF IsAscending
      <3> QED BY <1>2, <2>2
    <2>4. k \in Nat /\ Cardinality(R) = k + 1
      <3>1. IsFiniteSet(Q) /\ Cardinality(Q) = Cardinality(R) - 1
        BY <2>1, <2>2, FS_RemoveElement
      <3>2. Cardinality(R) \in Nat /\ Cardinality(Q) \in Nat
        BY <2>1, <3>1, FS_CardinalityType
      <3> QED BY <3>1, <3>2
    <2>5. \A y \in Q : y \in R /\ y < top
      <3> HIDE DEF top
      <3> SUFFICES ASSUME NEW y \in Q PROVE y \in R /\ y < top
        OBVIOUS
      <3>1. y \in R /\ y # top
        OBVIOUS
      <3>2. y <= top /\ y \in Nat /\ top \in Nat
        BY <2>1, <2>2, <3>1
      <3> QED BY <3>1, <3>2
    <2>6. s \in [1 .. k -> Q] /\ \A m, n \in 1 .. k : m < n => s[m] < s[n]
      BY <2>3 DEF IsAscending
    <2> HIDE DEF top, Q, k
    <2> DEFINE u == [n \in 1 .. k + 1 |-> IF n = k + 1 THEN top ELSE s[n]]
    <2>7. \A n \in 1 .. k + 1 : n # k + 1 => n \in 1 .. k
      BY <2>4
    <2>8. u \in [1 .. k + 1 -> R]
      BY <2>2, <2>5, <2>6, <2>7
    <2>9. ASSUME NEW m \in 1 .. k + 1, NEW n \in 1 .. k + 1, m < n PROVE u[m] < u[n]
      <3>1. m \in 1 .. k
        BY <2>4, <2>9
      <3>2. u[m] = s[m] /\ s[m] \in Q
        BY <2>4, <2>6, <3>1
      <3>3. CASE n = k + 1
        BY <2>5, <3>2, <3>3
      <3>4. CASE n # k + 1
        BY <2>6, <2>7, <2>9, <3>1, <3>2, <3>4
      <3> QED BY <3>3, <3>4
    <2>10. IsAscending(R, u)
      <3> HIDE DEF u
      <3> QED BY <2>4, <2>8, <2>9 DEF IsAscending
    <2> QED BY <2>10
  <1>3. S \in T
    <2> HIDE DEF T
    <2> QED BY <1>1, <1>2, SubsetInduction
  <1> QED BY <1>3

(* That list is the one Ascending chooses.                                 *)
LEMMA AscendingFacts ==
    ASSUME NEW S, S \subseteq Nat, IsFiniteSet(S)
    PROVE  IsAscending(S, Ascending(S)) /\ Ascending(S) \in Seq(S)
  <1>1. Cardinality(S) \in Nat
    BY FS_CardinalityType
  <1>2. PICK s : IsAscending(S, s)
    BY AscendingExists
  <1>3. \A u \in [1 .. Cardinality(S) -> S] : DOMAIN u = 1 .. Cardinality(S)
    OBVIOUS
  <1>4. IsAscending(S, Ascending(S))
    BY <1>2, <1>3 DEF IsAscending, Ascending
  <1>5. Ascending(S) \in Seq(S)
    BY <1>1, <1>4 DEF IsAscending
  <1> QED BY <1>4, <1>5
-----------------------------------------------------------------------------
(* Graphs that can be sent.                                                *)

(* A graph over the protocol genesis: every other vertex is well formed and *)
(* has both parents.                                                        *)
Stocked(g) ==
    /\ g.genesis_id = GenesisId
    /\ \A i \in VertexSet(g) \ {GenesisId} :
          /\ g.vertices[i].wellformed
          /\ {g.vertices[i].parent_1, g.vertices[i].parent_2} \subseteq VertexSet(g)

(* Genesis alone is such a graph ...                                        *)
LEMMA GenesisStocked == Stocked(with_genesis.graph)
  <1>1. /\ KnownOK({}) => VertexSet(with_genesis.graph) = {GenesisId}
        /\ KnownOK({}) => with_genesis.graph = InsertVertex(EmptyGraph, signed_genesis_tx)
    BY GenesisState
  <1>2. KnownOK({})
    BY FS_EmptySet DEF KnownOK
  <1>3. is_genesis(signed_genesis_tx) /\ signed_genesis_tx.id = GenesisId
    BY DEF is_genesis, signed_genesis_tx
  <1> QED BY <1>1, <1>2, <1>3 DEF Stocked, InsertVertex

(* ... and remains one whatever is stored.                                  *)
LEMMA InsertKeepsStock ==
    ASSUME NEW g, NEW Known, GraphOK(g), StoredFrom(g, Known), KnownOK(Known),
           Stocked(g), NEW t \in Known, GraphVerdict(g, t) = "Ok",
           NEW h, h = InsertVertex(g, t)
    PROVE  Stocked(h)
  <1>1. /\ ~is_genesis(t) /\ h.vertices[t.id] = t
        /\ \A i \in VertexSet(g) : h.vertices[i] = g.vertices[i]
    BY InsertedUsers
  <1>2. VertexSet(h) = VertexSet(g) \cup {t.id}
    BY InsertedFields
  <1>3. h.genesis_id = g.genesis_id
    BY <1>1 DEF InsertVertex
  <1>4. t.wellformed /\ {t.parent_1, t.parent_2} \subseteq VertexSet(g)
    BY <1>1 DEF GraphVerdict, ParentsAdmitted
  <1> QED BY <1>1, <1>2, <1>3, <1>4 DEF Stocked

(* What holds all tips and the parents of what it holds, holds all.         *)
LEMMA TipsReachAll ==
    ASSUME NEW g, GraphOK(g), NEW C, IsClosed(g, C), g.tips \subseteq C
    PROVE  C = VertexSet(g)
  <1> DEFINE order == g.attach_order
             N     == Len(order)
             U     == {n \in 1 .. N : order[n] \notin C}
  <1>1. /\ N \in Nat
        /\ {order[n] : n \in 1 .. N} = VertexSet(g)
        /\ \A m, n \in 1 .. N : order[m] = order[n] => m = n
        /\ \A n \in 1 .. N :
              {g.vertices[order[n]].parent_1, g.vertices[order[n]].parent_2}
                  \subseteq {order[m] : m \in 1 .. n - 1} \cup {NULL_PARENT}
    <2>1. order \in Seq(TxHash) /\ DOMAIN order = 1 .. N /\ N \in Nat
      BY DEF GraphOK
    <2> QED BY <2>1 DEF GraphOK, OrderTopological, ToSet, NoRepeats
  <1>2. NULL_PARENT \notin VertexSet(g)
    BY DagGraphAssumption DEF GraphOK
  <1> HIDE DEF order, N
  <1>3. ASSUME U # {} PROVE FALSE
    <2> DEFINE n == Max(U)
               i == order[n]
    <2>1. n \in U /\ \A y \in U : y <= n
      BY <1>1, <1>3, MaxOfIndices
    <2> HIDE DEF n
    <2>2. n \in 1 .. N /\ i \in VertexSet(g) /\ i \notin C
      BY <1>1, <2>1
    <2>3. g.children[i] # {}
      BY <2>2 DEF GraphOK, TipsConsistent
    <2>c. \A k \in VertexSet(g) :
             g.children[k] =
                 {j \in VertexSet(g) : k \in {g.vertices[j].parent_1, g.vertices[j].parent_2}}
      BY DEF GraphOK, TipsConsistent
    <2>4. PICK j \in VertexSet(g) : i \in {g.vertices[j].parent_1, g.vertices[j].parent_2}
      <3> HIDE DEF i
      <3> QED BY <2>2, <2>3, <2>c
    <2>5. PICK m \in 1 .. N : order[m] = j
      BY <1>1
    <2>6. PICK k \in 1 .. m - 1 : order[k] = i
      BY <1>1, <1>2, <2>2, <2>4, <2>5
    <2>7. k \in 1 .. N /\ k < m
      BY <1>1, <2>5, <2>6
    <2>8. k = n
      BY <1>1, <2>2, <2>6, <2>7
    <2>9. m \notin U
      BY <1>1, <2>1, <2>2, <2>7, <2>8
    <2>10. j \in C
      BY <2>5, <2>9
    <2>11. i \in ParentSet(g.vertices[j])
      BY <1>2, <2>2, <2>4 DEF ParentSet
    <2> QED BY <2>2, <2>10, <2>11 DEF IsClosed
  <1>4. VertexSet(g) \subseteq C
    BY <1>1, <1>3
  <1> QED BY <1>4 DEF IsClosed

(* No closure of an inventory is cut short: graph walks visit genesis and   *)
(* all other vertices within the bound.                                     *)
ClosuresUncut(Known) == Cardinality({t.id : t \in Known}) < ANCESTOR_WALK_BOUND

(* Then the closures of the tips are the whole graph.                       *)
LEMMA TipsSeeAll ==
    ASSUME NEW Known, KnownOK(Known), ClosuresUncut(Known),
           NEW g, GraphOK(g), StoredFrom(g, Known)
    PROVE  UNION {parent_closure(g, tip) : tip \in g.tips} = VertexSet(g)
  <1> DEFINE I == {t.id : t \in Known}
             B == VertexSet(g) \ {GenesisId}
  <1>1. IsFiniteSet(I) /\ Cardinality(I) \in Nat
    BY FS_CardinalityType DEF KnownOK
  <1>2. B \subseteq I /\ GenesisId \in VertexSet(g) /\ IsFiniteSet(VertexSet(g))
    BY DEF StoredFrom, GraphOK
  <1>3. Cardinality(B) <= Cardinality(I)
    BY <1>1, <1>2, FS_Subset
  <1>4. /\ Cardinality(B) = Cardinality(VertexSet(g)) - 1
        /\ Cardinality(VertexSet(g)) \in Nat
    BY <1>2, FS_RemoveElement, FS_CardinalityType
  <1>5. Cardinality(VertexSet(g)) <= ANCESTOR_WALK_BOUND
    <2> DEFINE n == Cardinality(I)
               m == Cardinality(B)
               k == Cardinality(VertexSet(g))
    <2>1. n < ANCESTOR_WALK_BOUND /\ ANCESTOR_WALK_BOUND \in Nat
      BY DagGraphAssumption DEF ClosuresUncut
    <2> HIDE DEF I, B
    <2>2. n \in Nat /\ k \in Nat /\ m = k - 1 /\ m <= n
      BY <1>1, <1>3, <1>4
    <2> HIDE DEF n, m, k
    <2>3. k <= ANCESTOR_WALK_BOUND
      BY <2>1, <2>2
    <2> QED BY <2>3 DEF k
  <1> DEFINE C == UNION {parent_closure(g, tip) : tip \in g.tips}
  <1>6. g.tips \subseteq VertexSet(g)
    BY DEF GraphOK, TipsConsistent
  <1>7. ASSUME NEW tip \in g.tips
        PROVE  IsClosed(g, parent_closure(g, tip)) /\ tip \in parent_closure(g, tip)
    <2> DEFINE s == <<tip>>
               w == Walk(g, s)
    <2>1. s \in Seq(VertexSet(g)) /\ Len(s) <= 2 /\ tip \in Elements(s)
      BY <1>6 DEF Elements
    <2>2. parent_closure(g, tip) = w.visited \cup w.cut
      BY DEF parent_closure
    <2> HIDE DEF s
    <2>3. IsClosure(g, Elements(s), w.visited) /\ w.cut = {}
      BY <1>5, <2>1, WalkFacts
    <2> QED BY <2>1, <2>2, <2>3 DEF IsClosure
  <1>8. IsClosed(g, C) /\ g.tips \subseteq C
    <2>1. C \subseteq VertexSet(g)
      BY <1>7 DEF IsClosed
    <2>2. ASSUME NEW i \in C PROVE ParentSet(g.vertices[i]) \subseteq C
      <3>1. PICK tip \in g.tips : i \in parent_closure(g, tip)
        OBVIOUS
      <3>2. ParentSet(g.vertices[i]) \subseteq parent_closure(g, tip)
        BY <1>7, <3>1 DEF IsClosed
      <3> QED BY <3>2
    <2>3. g.tips \subseteq C
      BY <1>7
    <2> HIDE DEF C
    <2> QED BY <2>1, <2>2, <2>3 DEF IsClosed
  <1> HIDE DEF C
  <1>9. C = VertexSet(g)
    BY <1>8, TipsReachAll
  <1> QED BY <1>9 DEF C
=============================================================================
