----------------------- MODULE RebalanceStrategyProofs -----------------------
(***************************************************************************)
(* Sums and folds, for any finite set: the library's folds are recursive   *)
(* functions, whose existence has to be shown before they can be unfolded. *)
(* Then what the projections of the balances do to their total.            *)
(***************************************************************************)
EXTENDS RebalanceStrategy, FiniteSetTheorems, WellFoundedInduction, TLAPS

-----------------------------------------------------------------------------
(* Induction.                                                              *)

\* A non-empty set of naturals has a least element.
LEMMA LeastOf ==
  ASSUME NEW T, T \subseteq Nat, T # {}
  PROVE  \E x \in T : \A y \in T : x <= y
<1> DEFINE R == OpToRel(<, Nat)
<1>1. \E x \in T : \A y \in T : ~ (<<y, x>> \in R)
  <2>1. IsWellFoundedOn(R, Nat)
    BY NatLessThanWellFounded
  <2> HIDE DEF R
  <2> QED BY <2>1, WFMin
<1>2. PICK x \in T : \A y \in T : ~ (<<y, x>> \in R)
  BY <1>1
<1>3. ASSUME NEW y \in T PROVE x <= y
  <2>1. R = {ss \in Nat \X Nat : ss[1] < ss[2]}
    BY DEF OpToRel
  <2> HIDE DEF R
  <2>2. y < x => <<y, x>> \in R
    BY <2>1
  <2> QED BY <1>2, <2>2
<1> QED BY <1>3

\* Induction over the natural numbers, for a set of them.
LEMMA NatSetInduction ==
  ASSUME NEW P, 0 \in P, \A n \in Nat : n \in P => n + 1 \in P
  PROVE  Nat \subseteq P
<1> SUFFICES ASSUME NEW m \in Nat, m \notin P PROVE FALSE
  OBVIOUS
<1>1. PICK x \in {n \in Nat : n \notin P} : \A y \in {n \in Nat : n \notin P} : x <= y
  <2>1. {n \in Nat : n \notin P} \subseteq Nat /\ {n \in Nat : n \notin P} # {}
    OBVIOUS
  <2> QED BY <2>1, LeastOf
<1>2. x # 0 /\ x \in Nat
  BY <1>1
<1>3. x - 1 \in Nat /\ x - 1 \in P
  BY <1>1, <1>2
<1>4. (x - 1) + 1 = x
  BY <1>2
<1> QED BY <1>1, <1>3, <1>4

\* Induction over the subsets of a finite set: what holds of the empty one, and
\* of any other if it holds of it less any member, holds of all.
LEMMA SubsetInduction ==
  ASSUME NEW S, IsFiniteSet(S), NEW P, {} \in P,
         \A s \in SUBSET S : s # {} /\ (\A x \in s : s \ {x} \in P) => s \in P
  PROVE  SUBSET S \subseteq P
<1> DEFINE Q == {n \in Nat : \A s \in SUBSET S : Cardinality(s) = n => s \in P}
<1>1. 0 \in Q
  <2> SUFFICES ASSUME NEW s \in SUBSET S, Cardinality(s) = 0 PROVE s \in P
    OBVIOUS
  <2>1. IsFiniteSet(s)
    BY FS_Subset
  <2>2. s = {}
    BY <2>1, FS_EmptySet
  <2> QED BY <2>2
<1>2. ASSUME NEW n \in Nat, n \in Q PROVE n + 1 \in Q
  <2> SUFFICES ASSUME NEW s \in SUBSET S, Cardinality(s) = n + 1 PROVE s \in P
    OBVIOUS
  <2>1. IsFiniteSet(s)
    BY FS_Subset
  <2>2. s # {}
    <3> SUFFICES ASSUME s = {} PROVE FALSE
      OBVIOUS
    <3>1. Cardinality(s) = 0
      BY FS_EmptySet
    <3>2. n + 1 # 0
      OBVIOUS
    <3> QED BY <3>1, <3>2
  <2>3. ASSUME NEW x \in s PROVE s \ {x} \in P
    <3>1. Cardinality(s \ {x}) = Cardinality(s) - 1
      BY <2>1, FS_RemoveElement
    <3>2. Cardinality(s \ {x}) = n
      BY <3>1
    <3> QED BY <1>2, <3>2
  <2> QED BY <2>2, <2>3
<1>3. Nat \subseteq Q
  <2> HIDE DEF Q
  <2> QED BY <1>1, <1>2, NatSetInduction
<1>4. ASSUME NEW s \in SUBSET S PROVE s \in P
  <2>1. Cardinality(s) \in Nat
    BY FS_Subset, FS_CardinalityType
  <2> QED BY <1>3, <2>1
<1> QED BY <1>4

-----------------------------------------------------------------------------
(* Folds.                                                                  *)

\* h is the fold over the subsets of S: `pick' chooses the member folded last,
\* `step' folds it in.
Folds(h, S, base, pick, step) ==
  \A s \in SUBSET S :
    h[s] = IF s = {} THEN base ELSE step[pick[s]][h[s \ {pick[s]}]]

\* A fold over the subsets of a finite set exists if it stays in D.
LEMMA FoldExists ==
  ASSUME NEW S, IsFiniteSet(S), NEW D, NEW base \in D, NEW pick, NEW step,
         \A s \in SUBSET S : s # {} => pick[s] \in s,
         \A x \in S, d \in D : step[x][d] \in D
  PROVE  \E h \in [SUBSET S -> D] : Folds(h, S, base, pick, step)
<1> DEFINE Fold(h, s) == h[s] = IF s = {} THEN base ELSE step[pick[s]][h[s \ {pick[s]}]]
           Q == {n \in Nat : \E h \in [SUBSET S -> D] : \A s \in SUBSET S :
                               Cardinality(s) <= n => Fold(h, s)}
<1>0. \A s \in SUBSET S : IsFiniteSet(s) /\ Cardinality(s) \in Nat
  BY FS_Subset, FS_CardinalityType
<1>1. 0 \in Q
  <2>1. \A s \in SUBSET S : Cardinality(s) <= 0 => s = {}
    BY <1>0, FS_EmptySet
  <2>2. [s \in SUBSET S |-> base] \in [SUBSET S -> D]
    OBVIOUS
  <2>3. \A s \in SUBSET S : Cardinality(s) <= 0 => Fold([u \in SUBSET S |-> base], s)
    BY <2>1
  <2> QED BY <2>2, <2>3
<1>2. ASSUME NEW n \in Nat, n \in Q PROVE n + 1 \in Q
  <2>1. PICK h \in [SUBSET S -> D] : \A s \in SUBSET S : Cardinality(s) <= n => Fold(h, s)
    BY <1>2
  <2> DEFINE k == [s \in SUBSET S |-> IF Cardinality(s) <= n THEN h[s]
                                      ELSE step[pick[s]][h[s \ {pick[s]}]]]
  <2>2. \A s \in SUBSET S : Cardinality(s) > n => /\ s # {} /\ pick[s] \in s
                                                  /\ s \ {pick[s]} \in SUBSET S
    <3> SUFFICES ASSUME NEW s \in SUBSET S, Cardinality(s) > n PROVE s # {}
      OBVIOUS
    <3>1. Cardinality({}) = 0
      BY FS_EmptySet
    <3>2. ~(0 > n)
      OBVIOUS
    <3>3. ASSUME s = {} PROVE FALSE
      <4>1. Cardinality(s) = 0
        BY <3>1, <3>3
      <4> HIDE DEF k, Q, Fold
      <4> QED BY <3>2, <4>1
    <3> QED BY <3>3
  <2>3. k \in [SUBSET S -> D]
    <3> SUFFICES ASSUME NEW s \in SUBSET S
                 PROVE  (IF Cardinality(s) <= n THEN h[s] ELSE step[pick[s]][h[s \ {pick[s]}]]) \in D
      OBVIOUS
    <3>1. CASE Cardinality(s) <= n
      BY <3>1
    <3>2. CASE ~(Cardinality(s) <= n)
      BY <1>0, <2>2, <3>2
    <3> QED BY <3>1, <3>2
  <2>4. ASSUME NEW s \in SUBSET S, Cardinality(s) <= n + 1 PROVE Fold(k, s)
    <3>1. CASE s = {}
      <4>1. Cardinality(s) <= n
        BY <3>1, FS_EmptySet
      <4> QED BY <2>1, <3>1, <4>1
    <3>2. CASE s # {}
      <4>1. pick[s] \in s /\ s \ {pick[s]} \in SUBSET S
        BY <3>2
      <4>2. Cardinality(s \ {pick[s]}) = Cardinality(s) - 1
        BY <1>0, <4>1, FS_RemoveElement
      <4>3. Cardinality(s \ {pick[s]}) <= n
        BY <1>0, <2>4, <4>2
      <4>4. k[s \ {pick[s]}] = h[s \ {pick[s]}]
        BY <4>1, <4>3
      <4>5. k[s] = step[pick[s]][h[s \ {pick[s]}]]
        <5>1. CASE Cardinality(s) <= n
          BY <2>1, <3>2, <5>1
        <5>2. CASE ~(Cardinality(s) <= n)
          BY <5>2
        <5> QED BY <5>1, <5>2
      <4> QED BY <3>2, <4>4, <4>5
    <3> QED BY <3>1, <3>2
  <2> HIDE DEF k, Fold
  <2> QED BY <2>3, <2>4
<1>3. Nat \subseteq Q
  <2> HIDE DEF Q
  <2> QED BY <1>1, <1>2, NatSetInduction
<1>4. Cardinality(S) \in Q
  BY <1>0, <1>3
<1>5. PICK h \in [SUBSET S -> D] : \A s \in SUBSET S : Cardinality(s) <= Cardinality(S) => Fold(h, s)
  BY <1>4
<1>6. \A s \in SUBSET S : Cardinality(s) <= Cardinality(S)
  BY FS_Subset
<1> QED BY <1>5, <1>6 DEF Folds

-----------------------------------------------------------------------------
(* Sums.                                                                   *)

\* The fold behind a sum.
Summing(h, f, S) ==
  \A s \in SUBSET S :
    h[s] = IF s = {} THEN 0
           ELSE f[CHOOSE x \in s : TRUE] + h[s \ {CHOOSE x \in s : TRUE}]

\* A sum of integers is the value of such a fold.
LEMMA SumFolds ==
  ASSUME NEW S, IsFiniteSet(S), NEW f, \A x \in S : f[x] \in Int
  PROVE  \E h \in [SUBSET S -> Int] : Summing(h, f, S) /\ SumFunctionOnSet(f, S) = h[S]
<1> DEFINE pick == [s \in SUBSET S |-> CHOOSE x \in s : TRUE]
           step == [x \in S |-> [d \in Int |-> f[x] + d]]
           Sums(h) == [s \in SUBSET S |-> IF s = {} THEN 0
                         ELSE f[CHOOSE x \in s : TRUE] + h[s \ {CHOOSE x \in s : TRUE}]]
<1>1. \A s \in SUBSET S : s # {} => pick[s] \in s
  OBVIOUS
<1>2. \A x \in S, d \in Int : step[x][d] \in Int
  OBVIOUS
<1>3. PICK h \in [SUBSET S -> Int] : \A s \in SUBSET S :
        h[s] = IF s = {} THEN 0 ELSE step[pick[s]][h[s \ {pick[s]}]]
  <2> DEFINE zero == 0
             D == Int
  <2>1. zero \in D /\ \A x \in S, d \in D : step[x][d] \in D
    BY <1>2
  <2>2. \E h \in [SUBSET S -> D] : Folds(h, S, zero, pick, step)
    <3> HIDE DEF pick, step, zero, D
    <3> QED BY <1>1, <2>1, FoldExists
  <2> QED BY <2>2 DEF Folds
<1>4. \A s \in SUBSET S : h[s] = Sums(h)[s]
  <2> SUFFICES ASSUME NEW s \in SUBSET S, s # {}
               PROVE  step[pick[s]][h[s \ {pick[s]}]]
                        = f[CHOOSE x \in s : TRUE] + h[s \ {CHOOSE x \in s : TRUE}]
    BY <1>3
  <2>1. pick[s] \in S /\ s \ {pick[s]} \in SUBSET S
    BY <1>1
  <2>2. h[s \ {pick[s]}] \in Int
    BY <2>1
  <2>3. pick[s] = CHOOSE x \in s : TRUE
    OBVIOUS
  <2> HIDE DEF pick
  <2> QED BY <2>1, <2>2, <2>3
<1>5. h = Sums(h)
  BY <1>4
<1>6. PICK k : k = Sums(k) /\ SumFunctionOnSet(f, S) = k[S]
  BY <1>5 DEF SumFunctionOnSet, FoldFunctionOnSet, MapThenFoldSet
<1>7. Summing(k, f, S)
  <2> SUFFICES ASSUME NEW s \in SUBSET S PROVE k[s] = Sums(k)[s]
    BY DEF Summing
  <2> QED BY <1>6
<1>8. k \in [SUBSET S -> Int]
  <2> DEFINE P == {s \in SUBSET S : k[s] \in Int}
  <2>1. {} \in P
    <3>1. k[{}] = 0
      BY <1>7 DEF Summing
    <3> QED BY <3>1
  <2>2. ASSUME NEW s \in SUBSET S, s # {}, \A x \in s : s \ {x} \in P
        PROVE  s \in P
    <3>1. PICK x \in s : x = CHOOSE y \in s : TRUE
      BY <2>2
    <3>2. k[s] = f[x] + k[s \ {x}]
      BY <1>7, <2>2, <3>1 DEF Summing
    <3>3. f[x] \in Int /\ k[s \ {x}] \in Int
      BY <2>2
    <3> QED BY <3>2, <3>3
  <2>3. SUBSET S \subseteq P
    <3> HIDE DEF P
    <3> QED BY <2>1, <2>2, SubsetInduction
  <2> QED BY <1>6, <2>3
<1> QED BY <1>6, <1>7, <1>8

\* The empty sum, and the type of a sum.
LEMMA SumType ==
  ASSUME NEW S, IsFiniteSet(S), NEW f, \A x \in S : f[x] \in Int
  PROVE  SumFunctionOnSet(f, S) \in Int /\ (S = {} => SumFunctionOnSet(f, S) = 0)
<1>1. PICK h \in [SUBSET S -> Int] : Summing(h, f, S) /\ SumFunctionOnSet(f, S) = h[S]
  BY SumFolds
<1> QED BY <1>1 DEF Summing

\* The member that the fold picks first may be taken out of a sum.
LEMMA SumPicked ==
  ASSUME NEW S, IsFiniteSet(S), NEW f, \A x \in S : f[x] \in Int, S # {}
  PROVE  \E y \in S : SumFunctionOnSet(f, S) = f[y] + SumFunctionOnSet(f, S \ {y})
<1>0. PICK y \in S : y = CHOOSE x \in S : TRUE
  OBVIOUS
<1>1. PICK h \in [SUBSET S -> Int] : Summing(h, f, S) /\ SumFunctionOnSet(f, S) = h[S]
  BY SumFolds
<1> DEFINE T == S \ {y}
<1>2. IsFiniteSet(T) /\ \A x \in T : f[x] \in Int
  BY FS_Subset
<1>3. PICK k \in [SUBSET T -> Int] : Summing(k, f, T) /\ SumFunctionOnSet(f, T) = k[T]
  <2> HIDE DEF T
  <2> QED BY <1>2, SumFolds
<1> DEFINE P == {s \in SUBSET T : k[s] = h[s]}
<1>4. {} \in P
  BY <1>1, <1>3 DEF Summing
<1>5. ASSUME NEW s \in SUBSET T, s # {}, \A x \in s : s \ {x} \in P
      PROVE  s \in P
  <2>1. PICK x \in s : x = CHOOSE z \in s : TRUE
    BY <1>5
  <2>2. k[s] = f[x] + k[s \ {x}]
    BY <1>3, <1>5, <2>1 DEF Summing
  <2>3. h[s] = f[x] + h[s \ {x}]
    BY <1>1, <1>5, <2>1 DEF Summing
  <2> QED BY <1>5, <2>2, <2>3
<1>6. SUBSET T \subseteq P
  <2> HIDE DEF P, T
  <2> QED BY <1>2, <1>4, <1>5, SubsetInduction
<1>7. k[T] = h[T]
  BY <1>6
<1>8. h[S] = f[y] + h[T]
  BY <1>0, <1>1 DEF Summing
<1> QED BY <1>1, <1>3, <1>7, <1>8

\* Any member may be taken out of a sum.
LEMMA SumSplit ==
  ASSUME NEW S, IsFiniteSet(S), NEW f, \A x \in S : f[x] \in Int, NEW y \in S
  PROVE  SumFunctionOnSet(f, S) = f[y] + SumFunctionOnSet(f, S \ {y})
<1> DEFINE Total0(s) == SumFunctionOnSet(f, s)
           P == {s \in SUBSET S : \A z \in s : Total0(s) = f[z] + Total0(s \ {z})}
<1>0. \A s \in SUBSET S : IsFiniteSet(s) /\ Total0(s) \in Int
  BY FS_Subset, SumType
<1>1. {} \in P
  OBVIOUS
<1>2. ASSUME NEW s \in SUBSET S, s # {}, \A x \in s : s \ {x} \in P
      PROVE  s \in P
  <2> SUFFICES ASSUME NEW z \in s PROVE Total0(s) = f[z] + Total0(s \ {z})
    OBVIOUS
  <2>2. PICK x \in s : Total0(s) = f[x] + Total0(s \ {x})
    <3>1. IsFiniteSet(s) /\ s # {} /\ \A w \in s : f[w] \in Int
      BY <1>0, <1>2
    <3> QED BY <3>1, SumPicked
  <2>3. CASE z = x
    BY <2>2, <2>3
  <2>4. CASE z # x
    <3>1. Total0(s \ {x}) = f[z] + Total0((s \ {x}) \ {z})
      BY <1>2, <2>2, <2>4
    <3>2. Total0(s \ {z}) = f[x] + Total0((s \ {z}) \ {x})
      BY <1>2, <2>2, <2>4
    <3>3. (s \ {x}) \ {z} = (s \ {z}) \ {x} /\ (s \ {x}) \ {z} \in SUBSET S
      OBVIOUS
    <3>4. PICK a \in Int, b \in Int, c \in Int :
            a = f[x] /\ b = f[z] /\ c = Total0((s \ {x}) \ {z})
      BY <1>0, <2>2, <3>3
    <3>5. Total0(s) = a + (b + c) /\ Total0(s \ {z}) = a + c
      BY <2>2, <3>1, <3>2, <3>3, <3>4
    <3> HIDE DEF Total0
    <3> QED BY <3>4, <3>5
  <2> QED BY <2>3, <2>4
<1>3. SUBSET S \subseteq P
  <2> HIDE DEF P
  <2> QED BY <1>1, <1>2, SubsetInduction
<1> QED BY <1>3

\* Sums of functions that agree are equal.
LEMMA SumEq ==
  ASSUME NEW S, IsFiniteSet(S), NEW f, NEW g,
         \A x \in S : f[x] \in Int /\ g[x] = f[x]
  PROVE  SumFunctionOnSet(g, S) = SumFunctionOnSet(f, S)
<1> DEFINE P == {s \in SUBSET S : SumFunctionOnSet(g, s) = SumFunctionOnSet(f, s)}
<1>0. \A s \in SUBSET S : /\ IsFiniteSet(s)
                          /\ \A x \in s : f[x] \in Int /\ g[x] \in Int
  BY FS_Subset
<1>1. {} \in P
  <2>1. SumFunctionOnSet(g, {}) = 0 /\ SumFunctionOnSet(f, {}) = 0
    BY <1>0, SumType
  <2> QED BY <2>1
<1>2. ASSUME NEW s \in SUBSET S, s # {}, \A x \in s : s \ {x} \in P
      PROVE  s \in P
  <2>1. PICK y \in s : TRUE
    BY <1>2
  <2>2. IsFiniteSet(s) /\ (\A x \in s : f[x] \in Int) /\ (\A x \in s : g[x] \in Int)
    BY <1>0
  <2>3. SumFunctionOnSet(f, s) = f[y] + SumFunctionOnSet(f, s \ {y})
    BY <2>2, SumSplit
  <2>4. SumFunctionOnSet(g, s) = g[y] + SumFunctionOnSet(g, s \ {y})
    BY <2>2, SumSplit
  <2>5. SumFunctionOnSet(g, s \ {y}) = SumFunctionOnSet(f, s \ {y}) /\ g[y] = f[y]
    BY <1>2
  <2> QED BY <2>3, <2>4, <2>5
<1>3. SUBSET S \subseteq P
  <2> HIDE DEF P
  <2> QED BY <1>1, <1>2, SubsetInduction
<1> QED BY <1>3

\* Two functions to the integers that differ at one place at most.
DifferAt(f, g, S, d) ==
  \A x \in S : f[x] \in Int /\ g[x] \in Int /\ (x # d => g[x] = f[x])

\* A sum changes by what the function changes at one place.
LEMMA SumChange ==
  ASSUME NEW S, IsFiniteSet(S), NEW f, NEW g, NEW d \in S, DifferAt(f, g, S, d)
  PROVE  SumFunctionOnSet(g, S) = SumFunctionOnSet(f, S) + (g[d] - f[d])
<1> USE DEF DifferAt
<1>1. SumFunctionOnSet(f, S) = f[d] + SumFunctionOnSet(f, S \ {d})
  BY SumSplit
<1>2. SumFunctionOnSet(g, S) = g[d] + SumFunctionOnSet(g, S \ {d})
  BY SumSplit
<1>3. IsFiniteSet(S \ {d}) /\ \A x \in S \ {d} : f[x] \in Int /\ g[x] = f[x]
  BY FS_Subset
<1>4. SumFunctionOnSet(g, S \ {d}) = SumFunctionOnSet(f, S \ {d})
  <2> DEFINE T == S \ {d}
  <2> HIDE DEF T
  <2> QED BY <1>3, SumEq DEF T
<1>5. PICK n \in Int : n = SumFunctionOnSet(f, S \ {d})
  BY <1>3, SumType
<1>6. PICK a \in Int, b \in Int : a = f[d] /\ b = g[d]
  OBVIOUS
<1>7. SumFunctionOnSet(f, S) = a + n /\ SumFunctionOnSet(g, S) = b + n
  BY <1>1, <1>2, <1>4, <1>5, <1>6
<1> QED BY <1>6, <1>7

\* The last summand of a sum over an interval.
LEMMA SumLast ==
  ASSUME NEW n \in Nat, NEW f, \A i \in 1..(n + 1) : f[i] \in Int
  PROVE  SumFunctionOnSet(f, 1..(n + 1)) = SumFunctionOnSet(f, 1..n) + f[n + 1]
<1>1. IsFiniteSet(1..(n + 1)) /\ n + 1 \in 1..(n + 1)
  BY FS_Interval
<1>2. SumFunctionOnSet(f, 1..(n + 1)) = f[n + 1] + SumFunctionOnSet(f, 1..(n + 1) \ {n + 1})
  BY <1>1, SumSplit
<1>3. 1..(n + 1) \ {n + 1} = 1..n
  OBVIOUS
<1>4. IsFiniteSet(1..n) /\ \A i \in 1..n : f[i] \in Int
  BY FS_Interval
<1>5. PICK a \in Int, b \in Int : a = f[n + 1] /\ b = SumFunctionOnSet(f, 1..n)
  BY <1>1, <1>4, SumType
<1>6. SumFunctionOnSet(f, 1..(n + 1)) = a + b
  BY <1>2, <1>3, <1>5
<1> QED BY <1>5, <1>6

\* Zeros at the end of an interval do not count.
LEMMA SumTail ==
  ASSUME NEW m \in Nat, NEW n \in Nat, NEW f, \A i \in 1..(m + n) : f[i] \in Int,
         \A i \in (m + 1)..(m + n) : f[i] = 0
  PROVE  SumFunctionOnSet(f, 1..(m + n)) = SumFunctionOnSet(f, 1..m)
<1> DEFINE P == {j \in Nat : j <= n => SumFunctionOnSet(f, 1..(m + j)) = SumFunctionOnSet(f, 1..m)}
<1>1. 0 \in P
  <2>1. m + 0 = m
    OBVIOUS
  <2> QED BY <2>1
<1>2. ASSUME NEW j \in Nat, j \in P PROVE j + 1 \in P
  <2> SUFFICES ASSUME j + 1 <= n
               PROVE  SumFunctionOnSet(f, 1..(m + (j + 1))) = SumFunctionOnSet(f, 1..m)
    OBVIOUS
  <2>1. PICK k \in Nat : k = m + j /\ k + 1 = m + (j + 1)
    OBVIOUS
  <2>2. \A i \in 1..(k + 1) : f[i] \in Int
    BY <2>1
  <2>3. SumFunctionOnSet(f, 1..(k + 1)) = SumFunctionOnSet(f, 1..k) + f[k + 1]
    BY <2>2, SumLast
  <2>4. f[k + 1] = 0
    BY <2>1
  <2>5. SumFunctionOnSet(f, 1..k) = SumFunctionOnSet(f, 1..m)
    BY <1>2, <2>1
  <2>6. PICK t \in Int : t = SumFunctionOnSet(f, 1..k)
    <3>1. IsFiniteSet(1..k) /\ \A i \in 1..k : f[i] \in Int
      BY <2>2, FS_Interval
    <3> QED BY <3>1, SumType
  <2>7. SumFunctionOnSet(f, 1..(k + 1)) = t
    BY <2>3, <2>4, <2>6
  <2> QED BY <2>1, <2>5, <2>6, <2>7
<1>3. Nat \subseteq P
  <2> HIDE DEF P
  <2> QED BY <1>1, <1>2, NatSetInduction
<1> QED BY <1>3

-----------------------------------------------------------------------------
(* Folds over sequences.                                                   *)

\* A non-empty set of positions has a last one.
LEMMA LastPosition ==
  ASSUME NEW n \in Nat, NEW s \in SUBSET (1..n), s # {}
  PROVE  Max(s) \in s /\ \A y \in s : Max(s) >= y
<1> DEFINE T == {n - x : x \in s}
<1>1. T \subseteq Nat /\ T # {}
  <2>1. ASSUME NEW x \in s PROVE n - x \in Nat
    <3>1. x \in 1..n
      OBVIOUS
    <3> QED BY <3>1
  <2>2. PICK x \in s : TRUE
    OBVIOUS
  <2> QED BY <2>1, <2>2
<1>2. PICK m \in T : \A y \in T : m <= y
  <2> HIDE DEF T
  <2> QED BY <1>1, LeastOf
<1>3. PICK x \in s : m = n - x
  BY <1>2
<1>4. ASSUME NEW y \in s PROVE x >= y
  <2>1. n - y \in T /\ y \in Int /\ x \in Int
    OBVIOUS
  <2>2. n - x <= n - y
    BY <1>2, <1>3, <2>1
  <2> QED BY <2>1, <2>2
<1> QED BY <1>4 DEF Max

\* The last position of an interval, and what is before it.
LEMMA LastOfInterval ==
  ASSUME NEW n \in Nat, NEW k \in 1..n
  PROVE  /\ 1..k \in SUBSET (1..n) /\ 1..k # {} /\ 1..(k - 1) \in SUBSET (1..n)
         /\ Max(1..k) = k /\ 1..k \ {k} = 1..(k - 1)
<1>1. 1..k \in SUBSET (1..n) /\ 1..k # {} /\ k \in 1..k
  OBVIOUS
<1>2. Max(1..k) \in 1..k /\ Max(1..k) >= k
  BY <1>1, LastPosition
<1> QED BY <1>1, <1>2

-----------------------------------------------------------------------------
(* The projections of the balances.                                        *)

\* What one rebalance in flight adds to the balances together.
Gain(r) ==
  IF r.method = "inventory"
  THEN Positive(r.amount - r.delivered - r.awaiting) - Positive(r.amount - r.delivered)
  ELSE r.amount

\* The rebalances in flight that the tracker reports.
Pendable(r) ==
  /\ r.origin \in Chains /\ r.destination \in Chains
  /\ r.amount \in Int /\ r.delivered \in Int /\ r.awaiting \in Int

\* A total is an integer.
LEMMA TotalType ==
  ASSUME NEW b \in [Chains -> Int]
  PROVE  Total(b) \in Int
<1> DEFINE f == [c \in Chains |-> b[c]]
<1>1. IsFiniteSet(Chains) /\ \A c \in Chains : f[c] \in Int
  BY ChainsAssumption
<1>2. Total(b) = SumFunctionOnSet(f, Chains)
  BY DEF Total, Sum
<1> HIDE DEF f
<1> QED BY <1>1, <1>2, SumType

\* A total changes by what one balance changes.
LEMMA TotalChange ==
  ASSUME NEW b \in [Chains -> Int], NEW new \in [Chains -> Int], NEW d \in Chains,
         \A c \in Chains : c # d => new[c] = b[c]
  PROVE  Total(new) = Total(b) + (new[d] - b[d])
<1> DEFINE f == [c \in Chains |-> b[c]]
           g == [c \in Chains |-> new[c]]
<1>1. IsFiniteSet(Chains)
  BY ChainsAssumption
<1>2. DifferAt(f, g, Chains, d)
  BY DEF DifferAt
<1>4. Total(b) = SumFunctionOnSet(f, Chains) /\ Total(new) = SumFunctionOnSet(g, Chains)
  BY DEF Total, Sum
<1>5. f[d] = b[d] /\ g[d] = new[d]
  OBVIOUS
<1> HIDE DEF f, g
<1>6. SumFunctionOnSet(g, Chains) = SumFunctionOnSet(f, Chains) + (g[d] - f[d])
  BY <1>1, <1>2, SumChange
<1> QED BY <1>4, <1>5, <1>6

\* The body of the loop of simulatePendingRebalances.
SimulateOne(b, r) ==
  IF r.method = "inventory"
  THEN [[b EXCEPT ![r.destination] = @ + Positive(r.amount - r.delivered - r.awaiting)]
          EXCEPT ![r.origin] = @ - Positive(r.amount - r.delivered)]
  ELSE [b EXCEPT ![r.destination] = @ + r.amount]

\* One turn changes the total by the gain of the rebalance.
LEMMA SimulateOneTotal ==
  ASSUME NEW b \in [Chains -> Int], NEW r, Pendable(r)
  PROVE  /\ SimulateOne(b, r) \in [Chains -> Int]
         /\ Total(SimulateOne(b, r)) = Total(b) + Gain(r)
         /\ Total(b) \in Int /\ Gain(r) \in Int
<1>0. \A n \in Int : Positive(n) \in Int
  BY DEF Positive
<1>1. PICK t \in Int : t = Total(b)
  BY TotalType
<1>2. CASE r.method # "inventory"
  <2>1. SimulateOne(b, r) = [b EXCEPT ![r.destination] = @ + r.amount] /\ Gain(r) = r.amount
    BY <1>2 DEF SimulateOne, Gain
  <2>2. PICK d \in Chains, n \in Int : d = r.destination /\ n = r.amount
    BY DEF Pendable
  <2> DEFINE new == [b EXCEPT ![d] = @ + n]
  <2>3. /\ new \in [Chains -> Int] /\ \A c \in Chains : c # d => new[c] = b[c]
        /\ new[d] - b[d] = n
    OBVIOUS
  <2>4. SimulateOne(b, r) = new
    BY <2>1, <2>2
  <2> HIDE DEF new
  <2>5. Total(new) = Total(b) + (new[d] - b[d])
    BY <2>3, TotalChange
  <2> QED BY <1>1, <2>1, <2>2, <2>3, <2>4, <2>5
<1>3. CASE r.method = "inventory"
  <2>1. PICK d \in Chains, o \in Chains, x \in Int, y \in Int :
          /\ d = r.destination /\ o = r.origin
          /\ x = Positive(r.amount - r.delivered - r.awaiting)
          /\ y = Positive(r.amount - r.delivered)
    BY <1>0 DEF Pendable
  <2> DEFINE filled == [b EXCEPT ![d] = @ + x]
             new == [filled EXCEPT ![o] = @ - y]
  <2>2. Gain(r) = x - y
    BY <1>3, <2>1 DEF Gain
  <2>3. SimulateOne(b, r) = new
    BY <1>3, <2>1 DEF SimulateOne
  <2>4. /\ filled \in [Chains -> Int] /\ \A c \in Chains : c # d => filled[c] = b[c]
        /\ filled[d] - b[d] = x
    OBVIOUS
  <2>5. /\ new \in [Chains -> Int] /\ \A c \in Chains : c # o => new[c] = filled[c]
        /\ new[o] - filled[o] = 0 - y
    <3> HIDE DEF filled
    <3> QED BY <2>4
  <2> HIDE DEF filled, new
  <2>6. Total(filled) = Total(b) + (filled[d] - b[d])
    BY <2>4, TotalChange
  <2>7. Total(new) = Total(filled) + (new[o] - filled[o])
    BY <2>4, <2>5, TotalChange
  <2>8. Total(filled) = t + x /\ Total(new) = (t + x) + (0 - y)
    BY <1>1, <2>4, <2>5, <2>6, <2>7
  <2> QED BY <1>1, <2>1, <2>2, <2>3, <2>5, <2>8
<1> QED BY <1>2, <1>3

\* simulatePendingRebalances goes through the rebalances in their order.
LEMMA SimulatedInOrder ==
  ASSUME NEW n \in Nat, NEW p, DOMAIN p = 1..n, NEW b \in [Chains -> Int],
         \A k \in 1..n : Pendable(p[k])
  PROVE  \E h : /\ h[{}] = b
                /\ \A k \in 1..n : h[1..k] = SimulateOne(h[1..(k - 1)], p[k])
                /\ simulatePendingRebalances(b, p) = h[1..n]
<1> DEFINE S == 1..n
           D == [Chains -> Int]
           pick == [s \in SUBSET S |-> Max(s)]
           step == [k \in S |-> [d \in D |-> SimulateOne(d, p[k])]]
           Loop(h) == [s \in SUBSET S |-> IF s = {} THEN b
                                          ELSE SimulateOne(h[s \ {Max(s)}], p[Max(s)])]
<1>1. \A s \in SUBSET S : s # {} => pick[s] = Max(s) /\ Max(s) \in s
  BY LastPosition
<1>2. \A k \in S, d \in D : step[k][d] = SimulateOne(d, p[k]) /\ step[k][d] \in D
  BY SimulateOneTotal
<1>3. PICK h \in [SUBSET S -> D] : Folds(h, S, b, pick, step)
  <2>1. IsFiniteSet(S) /\ b \in D
    BY FS_Interval
  <2>2. ASSUME NEW s \in SUBSET S, s # {} PROVE pick[s] \in s
    <3> HIDE DEF pick
    <3> QED BY <1>1, <2>2
  <2> HIDE DEF S, D, pick, step
  <2> QED BY <1>2, <2>1, <2>2, FoldExists
<1>4. ASSUME NEW s \in SUBSET S PROVE h[s] = Loop(h)[s]
  <2>1. CASE s = {}
    BY <1>3, <2>1 DEF Folds
  <2>2. CASE s # {}
    <3>1. h[s] = step[pick[s]][h[s \ {pick[s]}]]
      BY <1>3, <2>2 DEF Folds
    <3>2. pick[s] = Max(s) /\ Max(s) \in S /\ h[s \ {Max(s)}] \in D
      BY <1>1, <2>2
    <3>3. h[s] = SimulateOne(h[s \ {Max(s)}], p[Max(s)])
      <4> HIDE DEF pick, step, D
      <4> QED BY <1>2, <3>1, <3>2
    <3> QED BY <2>2, <3>3
  <2> QED BY <2>1, <2>2
<1>5. h = Loop(h)
  BY <1>4
<1>6. PICK k : k = Loop(k) /\ simulatePendingRebalances(b, p) = k[S]
  BY <1>5, ZenonT(30) DEF simulatePendingRebalances, FoldLeft, MapThenFoldSet, SimulateOne
<1>7. k[{}] = b
  BY <1>6
<1>8. ASSUME NEW i \in 1..n PROVE k[1..i] = SimulateOne(k[1..(i - 1)], p[i])
  <2>1. k[1..i] = SimulateOne(k[1..i \ {Max(1..i)}], p[Max(1..i)])
    BY <1>6, LastOfInterval
  <2> QED BY <2>1, LastOfInterval
<1> QED BY <1>6, <1>7, <1>8

\* Together the balances gain what the rebalances in flight gain, in whatever
\* order simulatePendingRebalances meets them.
LEMMA SimulatedTotal ==
  ASSUME NEW n \in Nat, NEW p, DOMAIN p = 1..n, NEW b \in [Chains -> Int],
         \A k \in 1..n : Pendable(p[k]),
         NEW gain, \A k \in 1..n : gain[k] = Gain(p[k])
  PROVE  /\ simulatePendingRebalances(b, p) \in [Chains -> Int]
         /\ Total(simulatePendingRebalances(b, p)) = Total(b) + SumFunctionOnSet(gain, 1..n)
<1>1. PICK h : /\ h[{}] = b
               /\ \A k \in 1..n : h[1..k] = SimulateOne(h[1..(k - 1)], p[k])
               /\ simulatePendingRebalances(b, p) = h[1..n]
  BY SimulatedInOrder, ZenonT(30)
<1>2. PICK t \in Int : t = Total(b)
  BY TotalType
<1>3. \A k \in 1..n : Gain(p[k]) \in Int
  BY SimulateOneTotal
<1> DEFINE P == {k \in Nat : k <= n => /\ h[1..k] \in [Chains -> Int]
                                       /\ Total(h[1..k]) = t + SumFunctionOnSet(gain, 1..k)}
<1>4. 0 \in P
  <2>1. 1..0 = {}
    OBVIOUS
  <2>2. SumFunctionOnSet(gain, {}) = 0
    BY FS_EmptySet, SumType
  <2>3. t = t + 0
    OBVIOUS
  <2> QED BY <1>1, <1>2, <2>1, <2>2, <2>3
<1>5. ASSUME NEW k \in Nat, k \in P PROVE k + 1 \in P
  <2> SUFFICES ASSUME k + 1 <= n
               PROVE  /\ h[1..(k + 1)] \in [Chains -> Int]
                      /\ Total(h[1..(k + 1)]) = t + SumFunctionOnSet(gain, 1..(k + 1))
    OBVIOUS
  <2>1. k + 1 \in 1..n /\ (k + 1) - 1 = k /\ k <= n
    OBVIOUS
  <2>2. /\ h[1..k] \in [Chains -> Int]
        /\ Total(h[1..k]) = t + SumFunctionOnSet(gain, 1..k)
    BY <1>5, <2>1
  <2>3. h[1..(k + 1)] = SimulateOne(h[1..k], p[k + 1])
    BY <1>1, <2>1
  <2>4. /\ h[1..(k + 1)] \in [Chains -> Int]
        /\ Total(h[1..(k + 1)]) = Total(h[1..k]) + Gain(p[k + 1])
    BY <2>1, <2>2, <2>3, SimulateOneTotal
  <2>5. \A i \in 1..(k + 1) : gain[i] \in Int
    BY <1>3, <2>1
  <2>6. SumFunctionOnSet(gain, 1..(k + 1)) = SumFunctionOnSet(gain, 1..k) + gain[k + 1]
    BY <2>5, SumLast
  <2>7. PICK a \in Int, g \in Int : a = SumFunctionOnSet(gain, 1..k) /\ g = gain[k + 1]
    <3>1. IsFiniteSet(1..k) /\ \A i \in 1..k : gain[i] \in Int
      BY <2>5, FS_Interval
    <3> QED BY <2>5, <3>1, SumType
  <2>8. gain[k + 1] = Gain(p[k + 1])
    BY <2>1
  <2>9. Total(h[1..(k + 1)]) = (t + a) + g /\ SumFunctionOnSet(gain, 1..(k + 1)) = a + g
    BY <2>2, <2>4, <2>6, <2>7, <2>8
  <2> QED BY <2>4, <2>9
<1>6. Nat \subseteq P
  <2> HIDE DEF P
  <2> QED BY <1>4, <1>5, NatSetInduction
<1>7. h[1..n] \in [Chains -> Int] /\ Total(h[1..n]) = t + SumFunctionOnSet(gain, 1..n)
  BY <1>6
<1> QED BY <1>1, <1>2, <1>7

-----------------------------------------------------------------------------
(* Loops: a fold over a sequence, element by element.                      *)

\* h is a fold over the positions of a sequence, the last position last.
Loops(h, n, base, step) ==
  /\ h[{}] = base
  /\ \A s \in SUBSET (1..n) : s # {} => h[s] = step[Max(s)][h[s \ {Max(s)}]]

\* The body of a loop stays in D; h does its turns as long as it is in D; r is
\* what the loop goes through, one value after each element.
Closed(n, D, step) == \A k \in 1..n, d \in D : step[k][d] \in D
Turns(h, n, D, base, step) ==
  /\ h[{}] = base
  /\ \A s \in SUBSET (1..n) : s # {} /\ h[s \ {Max(s)}] \in D =>
                                 h[s] = step[Max(s)][h[s \ {Max(s)}]]
Run(r, n, base, step, last) ==
  r[0] = base /\ r[n] = last /\ \A k \in 1..n : r[k] = step[k][r[k - 1]]

\* A loop whose body stays in D exists.
LEMMA LoopExists ==
  ASSUME NEW n \in Nat, NEW D, NEW base \in D, NEW step, Closed(n, D, step)
  PROVE  \E h \in [SUBSET (1..n) -> D] : Loops(h, n, base, step)
<1> DEFINE S == 1..n
           pick == [s \in SUBSET S |-> Max(s)]
<1>1. \A s \in SUBSET S : s # {} => pick[s] = Max(s) /\ Max(s) \in s
  BY LastPosition
<1>2. PICK h \in [SUBSET S -> D] : Folds(h, S, base, pick, step)
  <2>1. IsFiniteSet(S)
    BY FS_Interval
  <2>2. ASSUME NEW s \in SUBSET S, s # {} PROVE pick[s] \in s
    <3> HIDE DEF pick
    <3> QED BY <1>1, <2>2
  <2>3. \A k \in S, d \in D : step[k][d] \in D
    BY DEF Closed
  <2> HIDE DEF S, pick
  <2> QED BY <2>1, <2>2, <2>3, FoldExists
<1>3. h[{}] = base
  <2> HIDE DEF pick
  <2> QED BY <1>2 DEF Folds
<1>4. ASSUME NEW s \in SUBSET S, s # {} PROVE h[s] = step[Max(s)][h[s \ {Max(s)}]]
  <2>1. h[s] = step[pick[s]][h[s \ {pick[s]}]]
    <3> HIDE DEF pick
    <3> QED BY <1>2, <1>4 DEF Folds
  <2>2. pick[s] = Max(s)
    BY <1>1, <1>4
  <2> QED BY <2>1, <2>2
<1> QED BY <1>2, <1>3, <1>4 DEF Loops

\* The values a loop goes through, one after each element.
LEMMA LoopRuns ==
  ASSUME NEW n \in Nat, NEW D, NEW base \in D, NEW step, Closed(n, D, step),
         NEW h, Turns(h, n, D, base, step)
  PROVE  \E r \in [0..n -> D] : Run(r, n, base, step, h[1..n])
<1> DEFINE P == {k \in Nat : k <= n => h[1..k] \in D}
<1>1. 1..0 = {}
  OBVIOUS
<1>2. 0 \in P
  BY <1>1 DEF Turns
<1>3. ASSUME NEW k \in 1..n, h[1..(k - 1)] \in D
      PROVE  h[1..k] = step[k][h[1..(k - 1)]] /\ h[1..k] \in D
  <2>1. /\ 1..k \in SUBSET (1..n) /\ 1..k # {}
        /\ Max(1..k) = k /\ 1..k \ {k} = 1..(k - 1)
    BY LastOfInterval
  <2>2. PICK s \in SUBSET (1..n) : s = 1..k
    BY <2>1
  <2>3. s # {} /\ Max(s) = k /\ s \ {Max(s)} = 1..(k - 1)
    BY <2>1, <2>2
  <2>4. h[s] = step[Max(s)][h[s \ {Max(s)}]]
    BY <1>3, <2>3 DEF Turns
  <2>5. h[1..k] = step[k][h[1..(k - 1)]]
    BY <2>2, <2>3, <2>4
  <2>6. step[k][h[1..(k - 1)]] \in D
    BY <1>3 DEF Closed
  <2> QED BY <2>5, <2>6
<1>4. ASSUME NEW k \in Nat, k \in P PROVE k + 1 \in P
  <2> SUFFICES ASSUME k + 1 <= n PROVE h[1..(k + 1)] \in D
    OBVIOUS
  <2>1. k + 1 \in 1..n /\ (k + 1) - 1 = k /\ k <= n
    OBVIOUS
  <2>2. h[1..k] \in D
    BY <1>4, <2>1
  <2>3. PICK j \in 1..n : j = k + 1 /\ j - 1 = k
    BY <2>1
  <2>4. h[1..(j - 1)] \in D
    BY <2>2, <2>3
  <2>5. h[1..j] \in D
    BY <1>3, <2>4
  <2> QED BY <2>3, <2>5
<1>5. \A k \in 0..n : h[1..k] \in D
  <2>1. Nat \subseteq P
    <3> HIDE DEF P
    <3> QED BY <1>2, <1>4, NatSetInduction
  <2> QED BY <2>1
<1> DEFINE r == [k \in 0..n |-> h[1..k]]
<1>6. r \in [0..n -> D] /\ r[0] = base /\ r[n] = h[1..n]
  BY <1>1, <1>5 DEF Turns
<1>7. ASSUME NEW k \in 1..n PROVE r[k] = step[k][r[k - 1]]
  <2>1. k - 1 \in 0..n /\ k \in 0..n
    OBVIOUS
  <2>2. h[1..k] = step[k][h[1..(k - 1)]]
    BY <1>3, <1>5, <2>1
  <2> QED BY <2>1, <2>2
<1> HIDE DEF r
<1> QED BY <1>6, <1>7 DEF Run

\* One turn of Selected.
SelectOne(d, x, S) == IF x \in S THEN Append(d, x) ELSE d

\* Selected takes the elements in their order.
LEMMA SelectedInOrder ==
  ASSUME NEW n \in Nat, NEW q, DOMAIN q = 1..n, NEW D, NEW base \in D, base = <<>>, NEW S, NEW step,
         \A k \in 1..n, d \in D : step[k][d] = SelectOne(d, q[k], S) /\ step[k][d] \in D
  PROVE  \E r \in [0..n -> D] : Run(r, n, base, step, Selected(q, S))
<1> DEFINE Loop(h) == [s \in SUBSET (1..n) |-> IF s = {} THEN base
                         ELSE SelectOne(h[s \ {Max(s)}], q[Max(s)], S)]
<1>1. Closed(n, D, step)
  BY DEF Closed
<1>2. PICK h \in [SUBSET (1..n) -> D] : Loops(h, n, base, step)
  BY <1>1, LoopExists
<1>3. ASSUME NEW s \in SUBSET (1..n), s # {}
      PROVE  Max(s) \in 1..n /\ s \ {Max(s)} \in SUBSET (1..n)
  BY <1>3, LastPosition
<1>4. h = Loop(h)
  <2>1. ASSUME NEW s \in SUBSET (1..n) PROVE h[s] = Loop(h)[s]
    <3>1. CASE s = {}
      BY <1>2, <3>1 DEF Loops
    <3>2. CASE s # {}
      <4>1. h[s] = step[Max(s)][h[s \ {Max(s)}]]
        BY <1>2, <3>2 DEF Loops
      <4>2. h[s \ {Max(s)}] \in D
        BY <1>3, <3>2
      <4>3. h[s] = SelectOne(h[s \ {Max(s)}], q[Max(s)], S)
        BY <1>3, <3>2, <4>1, <4>2
      <4> QED BY <3>2, <4>3
    <3> QED BY <3>1, <3>2
  <2> QED BY <2>1
<1>5. PICK f : f = Loop(f) /\ Selected(q, S) = f[1..n]
  BY <1>4, ZenonT(30) DEF Selected, FoldLeft, MapThenFoldSet, SelectOne
<1>6. Turns(f, n, D, base, step)
  <2>1. f[{}] = base
    BY <1>5
  <2>2. ASSUME NEW s \in SUBSET (1..n), s # {}, f[s \ {Max(s)}] \in D
        PROVE  f[s] = step[Max(s)][f[s \ {Max(s)}]]
    <3>1. f[s] = SelectOne(f[s \ {Max(s)}], q[Max(s)], S)
      BY <1>5, <2>2
    <3> QED BY <1>3, <2>2, <3>1
  <2> HIDE DEF Loop
  <2> QED BY <2>1, <2>2 DEF Turns
<1>7. \E r \in [0..n -> D] : Run(r, n, base, step, f[1..n])
  <2> HIDE DEF Loop
  <2> QED BY <1>1, <1>6, LoopRuns
<1> QED BY <1>5, <1>7

\* Selected keeps only what is in S.
LEMMA SelectedType ==
  ASSUME NEW U, NEW q \in Seq(U), NEW S
  PROVE  Selected(q, S) \in Seq(U \cap S)
<1>0. PICK n \in Nat : n = Len(q) /\ DOMAIN q = 1..n
  OBVIOUS
<1> DEFINE D == Seq(U \cap S)
           none == << >>
           step == [k \in 1..n |-> [d \in D |-> SelectOne(d, q[k], S)]]
<1>1. none \in D /\ none = <<>>
  OBVIOUS
<1>2. ASSUME NEW k \in 1..n, NEW d \in D
      PROVE  step[k][d] = SelectOne(d, q[k], S) /\ step[k][d] \in D
  <2>1. q[k] \in U
    BY <1>0
  <2>2. SelectOne(d, q[k], S) \in D
    BY <2>1 DEF SelectOne
  <2> HIDE DEF D
  <2> QED BY <2>2
<1>3. PICK r \in [0..n -> D] : Run(r, n, none, step, Selected(q, S))
  <2> HIDE DEF D, none, step
  <2> QED BY <1>0, <1>1, <1>2, SelectedInOrder
<1>4. Selected(q, S) \in D
  <2> HIDE DEF D, none, step
  <2> QED BY <1>3 DEF Run
<1> QED BY <1>4

-----------------------------------------------------------------------------
(* The routes of a cycle: from chains of the route to chains of the route, *)
(* of an amount that is not zero.                                          *)

PendingTransfer == [origin : Chains, destination : Chains, amount : Int]
Route == [origin : Chains, destination : Chains, amount : Nat \ {0}, bridge : STRING]
Delta == [chain : Chains, amount : Int]

\* One turn of reserveCollateral.
ReserveOne(b, t) == [b EXCEPT ![t.destination] = @ - t.amount]

\* reserveCollateral goes through the transfers in their order.
LEMMA ReservedInOrder ==
  ASSUME NEW n \in Nat, NEW q, DOMAIN q = 1..n, NEW D, NEW base \in D, NEW step,
         \A k \in 1..n, d \in D : step[k][d] = ReserveOne(d, q[k]) /\ step[k][d] \in D
  PROVE  \E r \in [0..n -> D] : Run(r, n, base, step, reserveCollateral(base, q))
<1> DEFINE Loop(h) == [s \in SUBSET (1..n) |-> IF s = {} THEN base
                         ELSE ReserveOne(h[s \ {Max(s)}], q[Max(s)])]
<1>1. Closed(n, D, step)
  BY DEF Closed
<1>2. PICK h \in [SUBSET (1..n) -> D] : Loops(h, n, base, step)
  BY <1>1, LoopExists
<1>3. ASSUME NEW s \in SUBSET (1..n), s # {}
      PROVE  Max(s) \in 1..n /\ s \ {Max(s)} \in SUBSET (1..n)
  BY <1>3, LastPosition
<1>4. h = Loop(h)
  <2>1. ASSUME NEW s \in SUBSET (1..n) PROVE h[s] = Loop(h)[s]
    <3>1. CASE s = {}
      BY <1>2, <3>1 DEF Loops
    <3>2. CASE s # {}
      <4>1. h[s] = step[Max(s)][h[s \ {Max(s)}]]
        BY <1>2, <3>2 DEF Loops
      <4>2. h[s \ {Max(s)}] \in D
        BY <1>3, <3>2
      <4>3. h[s] = ReserveOne(h[s \ {Max(s)}], q[Max(s)])
        BY <1>3, <3>2, <4>1, <4>2
      <4> QED BY <3>2, <4>3
    <3> QED BY <3>1, <3>2
  <2> QED BY <2>1
<1>5. PICK f : f = Loop(f) /\ reserveCollateral(base, q) = f[1..n]
  BY <1>4, ZenonT(30) DEF reserveCollateral, FoldLeft, MapThenFoldSet, ReserveOne
<1>6. Turns(f, n, D, base, step)
  <2>1. f[{}] = base
    BY <1>5
  <2>2. ASSUME NEW s \in SUBSET (1..n), s # {}, f[s \ {Max(s)}] \in D
        PROVE  f[s] = step[Max(s)][f[s \ {Max(s)}]]
    <3>1. f[s] = ReserveOne(f[s \ {Max(s)}], q[Max(s)])
      BY <1>5, <2>2
    <3> QED BY <1>3, <2>2, <3>1
  <2> HIDE DEF Loop
  <2> QED BY <2>1, <2>2 DEF Turns
<1>7. \E r \in [0..n -> D] : Run(r, n, base, step, f[1..n])
  <2> HIDE DEF Loop
  <2> QED BY <1>1, <1>6, LoopRuns
<1> QED BY <1>5, <1>7

\* Reserving keeps the balances integers.
LEMMA ReservedType ==
  ASSUME NEW b \in [Chains -> Int], NEW q \in Seq(PendingTransfer)
  PROVE  reserveCollateral(b, q) \in [Chains -> Int]
<1>0. PICK n \in Nat : n = Len(q) /\ DOMAIN q = 1..n
  OBVIOUS
<1> DEFINE D == [Chains -> Int]
           step == [k \in 1..n |-> [d \in D |-> ReserveOne(d, q[k])]]
<1>1. b \in D
  OBVIOUS
<1>2. ASSUME NEW k \in 1..n, NEW d \in D
      PROVE  step[k][d] = ReserveOne(d, q[k]) /\ step[k][d] \in D
  <2>0. q[k] \in PendingTransfer
    BY <1>0
  <2>1. q[k].destination \in Chains /\ q[k].amount \in Int
    BY <2>0 DEF PendingTransfer
  <2>2. ReserveOne(d, q[k]) \in D
    BY <2>1 DEF ReserveOne
  <2> HIDE DEF D
  <2> QED BY <2>2
<1>3. PICK r \in [0..n -> D] : Run(r, n, b, step, reserveCollateral(b, q))
  <2> HIDE DEF D, step
  <2> QED BY <1>0, <1>1, <1>2, ReservedInOrder
<1>4. reserveCollateral(b, q) \in D
  <2> HIDE DEF D, step
  <2> QED BY <1>3 DEF Run
<1> QED BY <1>4

\* simulateProposedRebalances goes through the routes in their order.
LEMMA ProposedInOrder ==
  ASSUME NEW n \in Nat, NEW q, DOMAIN q = 1..n, NEW D, NEW base \in D, NEW step,
         \A k \in 1..n, d \in D : step[k][d] = SimulateRoute(d, q[k]) /\ step[k][d] \in D
  PROVE  \E r \in [0..n -> D] : Run(r, n, base, step, simulateProposedRebalances(base, q))
<1> DEFINE Loop(h) == [s \in SUBSET (1..n) |-> IF s = {} THEN base
                         ELSE SimulateRoute(h[s \ {Max(s)}], q[Max(s)])]
<1>1. Closed(n, D, step)
  BY DEF Closed
<1>2. PICK h \in [SUBSET (1..n) -> D] : Loops(h, n, base, step)
  BY <1>1, LoopExists
<1>3. ASSUME NEW s \in SUBSET (1..n), s # {}
      PROVE  Max(s) \in 1..n /\ s \ {Max(s)} \in SUBSET (1..n)
  BY <1>3, LastPosition
<1>4. h = Loop(h)
  <2>1. ASSUME NEW s \in SUBSET (1..n) PROVE h[s] = Loop(h)[s]
    <3>1. CASE s = {}
      BY <1>2, <3>1 DEF Loops
    <3>2. CASE s # {}
      <4>1. h[s] = step[Max(s)][h[s \ {Max(s)}]]
        BY <1>2, <3>2 DEF Loops
      <4>2. h[s \ {Max(s)}] \in D
        BY <1>3, <3>2
      <4>3. h[s] = SimulateRoute(h[s \ {Max(s)}], q[Max(s)])
        BY <1>3, <3>2, <4>1, <4>2
      <4> QED BY <3>2, <4>3
    <3> QED BY <3>1, <3>2
  <2> QED BY <2>1
<1>5. PICK f : f = Loop(f) /\ simulateProposedRebalances(base, q) = f[1..n]
  BY <1>4, ZenonT(30) DEF simulateProposedRebalances, FoldLeft, MapThenFoldSet
<1>6. Turns(f, n, D, base, step)
  <2>1. f[{}] = base
    BY <1>5
  <2>2. ASSUME NEW s \in SUBSET (1..n), s # {}, f[s \ {Max(s)}] \in D
        PROVE  f[s] = step[Max(s)][f[s \ {Max(s)}]]
    <3>1. f[s] = SimulateRoute(f[s \ {Max(s)}], q[Max(s)])
      BY <1>5, <2>2
    <3> QED BY <1>3, <2>2, <3>1
  <2> HIDE DEF Loop
  <2> QED BY <2>1, <2>2 DEF Turns
<1>7. \E r \in [0..n -> D] : Run(r, n, base, step, f[1..n])
  <2> HIDE DEF Loop
  <2> QED BY <1>1, <1>6, LoopRuns
<1> QED BY <1>5, <1>7

\* Simulating the routes of earlier strategies keeps the balances integers.
LEMMA ProposedType ==
  ASSUME NEW b \in [Chains -> Int], NEW q \in Seq(Route)
  PROVE  simulateProposedRebalances(b, q) \in [Chains -> Int]
<1>0. PICK n \in Nat : n = Len(q) /\ DOMAIN q = 1..n
  OBVIOUS
<1> DEFINE D == [Chains -> Int]
           step == [k \in 1..n |-> [d \in D |-> SimulateRoute(d, q[k])]]
<1>1. b \in D
  OBVIOUS
<1>2. ASSUME NEW k \in 1..n, NEW d \in D
      PROVE  step[k][d] = SimulateRoute(d, q[k]) /\ step[k][d] \in D
  <2>0. q[k] \in Route
    BY <1>0
  <2>1. q[k].origin \in Chains /\ q[k].destination \in Chains /\ q[k].amount \in Int
    BY <2>0 DEF Route
  <2>2. PICK e : e = [d EXCEPT ![q[k].origin] = @ - q[k].amount]
    OBVIOUS
  <2>3. e \in D
    BY <2>1, <2>2
  <2>4. [e EXCEPT ![q[k].destination] = @ + q[k].amount] \in D
    BY <2>1, <2>3
  <2>5. SimulateRoute(d, q[k]) \in D
    BY <2>2, <2>4 DEF SimulateRoute
  <2> HIDE DEF D
  <2> QED BY <2>5
<1>3. PICK r \in [0..n -> D] : Run(r, n, b, step, simulateProposedRebalances(b, q))
  <2> HIDE DEF D, step
  <2> QED BY <1>0, <1>1, <1>2, ProposedInOrder
<1>4. simulateProposedRebalances(b, q) \in D
  <2> HIDE DEF D, step
  <2> QED BY <1>3 DEF Run
<1> QED BY <1>4

\* A rebalance in flight, as the tracker reports it to the strategies.
Reportable(q) == /\ q \in Seq({q[k] : k \in DOMAIN q})
                 /\ \A k \in DOMAIN q : Pendable(q[k])

\* Simulating the rebalances in flight keeps the balances integers.
LEMMA PendingType ==
  ASSUME NEW b \in [Chains -> Int], NEW q, Reportable(q)
  PROVE  simulatePendingRebalances(b, q) \in [Chains -> Int]
<1>1. PICK n \in Nat : n = Len(q) /\ DOMAIN q = 1..n
  BY DEF Reportable
<1>2. \A k \in 1..n : Pendable(q[k])
  BY <1>1 DEF Reportable
<1> DEFINE gain == [k \in 1..n |-> Gain(q[k])]
<1>3. \A k \in 1..n : gain[k] = Gain(q[k])
  OBVIOUS
<1> HIDE DEF gain
<1> QED BY <1>1, <1>2, <1>3, SimulatedTotal

\* So does what a strategy makes of them.
LEMMA SimulatedType ==
  ASSUME NEW strategy, NEW b \in [Chains -> Int], NEW pending, Reportable(pending),
         NEW proposed \in Seq(Route)
  PROVE  Simulated(strategy, b, pending, proposed) \in [Chains -> Int]
<1> DEFINE S(q) == {r \in Range(q) : r.bridge = "none"
                                      \/ r.bridge = strategy.bridge[r.origin, r.destination]}
           seenPending == IF strategy.kind = "collateralDeficit"
                          THEN filterByConfiguredBridges(strategy, pending) ELSE pending
           seenProposed == IF strategy.kind = "collateralDeficit"
                           THEN filterByConfiguredBridges(strategy, proposed) ELSE proposed
<1>1. Reportable(seenPending)
  <2>1. PICK U : U = {pending[k] : k \in DOMAIN pending}
    OBVIOUS
  <2>2. pending \in Seq(U) /\ \A u \in U : Pendable(u)
    BY <2>1 DEF Reportable
  <2>3. PICK T : T = S(pending)
    OBVIOUS
  <2>4. Selected(pending, T) \in Seq(U \cap T)
    BY <2>2, SelectedType
  <2>5. Reportable(Selected(pending, T))
    <3>1. PICK p : p = Selected(pending, T)
      OBVIOUS
    <3>2. p \in Seq(U)
      BY <2>4, <3>1
    <3>3. p \in Seq({p[k] : k \in DOMAIN p}) /\ \A k \in DOMAIN p : p[k] \in U
      BY <3>2
    <3> QED BY <2>2, <3>1, <3>3 DEF Reportable
  <2>6. filterByConfiguredBridges(strategy, pending) = Selected(pending, T)
    BY <2>3 DEF filterByConfiguredBridges
  <2> QED BY <2>5, <2>6
<1>2. seenProposed \in Seq(Route)
  <2>1. PICK T : T = S(proposed)
    OBVIOUS
  <2>2. Selected(proposed, T) \in Seq(Route \cap T)
    BY SelectedType
  <2>3. Selected(proposed, T) \in Seq(Route)
    BY <2>2
  <2>4. filterByConfiguredBridges(strategy, proposed) = Selected(proposed, T)
    BY <2>1 DEF filterByConfiguredBridges
  <2> QED BY <2>3, <2>4
<1>3. Simulated(strategy, b, pending, proposed)
        = simulateProposedRebalances(simulatePendingRebalances(b, seenPending), seenProposed)
  BY DEF Simulated
<1> HIDE DEF seenPending, seenProposed
<1> QED BY <1>1, <1>2, <1>3, PendingType, ProposedType

\* A sum of natural numbers is one, and is no less than any of them.
LEMMA SumNat ==
  ASSUME NEW S, IsFiniteSet(S), NEW f, \A x \in S : f[x] \in Nat
  PROVE  SumFunctionOnSet(f, S) \in Nat /\ \A x \in S : SumFunctionOnSet(f, S) >= f[x]
<1> DEFINE P == {s \in SUBSET S : SumFunctionOnSet(f, s) \in Nat}
<1>1. {} \in P
  BY FS_EmptySet, SumType
<1>2. ASSUME NEW s \in SUBSET S, s # {}, \A x \in s : s \ {x} \in P
      PROVE  s \in P
  <2>1. PICK x \in s : TRUE
    BY <1>2
  <2>2. IsFiniteSet(s) /\ \A y \in s : f[y] \in Int
    BY FS_Subset
  <2>3. SumFunctionOnSet(f, s) = f[x] + SumFunctionOnSet(f, s \ {x})
    BY <2>2, SumSplit
  <2> QED BY <1>2, <2>3
<1>3. SUBSET S \subseteq P
  <2> HIDE DEF P
  <2> QED BY <1>1, <1>2, SubsetInduction
<1>4. ASSUME NEW x \in S PROVE SumFunctionOnSet(f, S) >= f[x]
  <2>1. SumFunctionOnSet(f, S) = f[x] + SumFunctionOnSet(f, S \ {x})
    BY SumSplit
  <2>2. PICK a \in Nat, b \in Nat : a = f[x] /\ b = SumFunctionOnSet(f, S \ {x})
    BY <1>3
  <2> QED BY <2>1, <2>2
<1> QED BY <1>3, <1>4

\* BigInt division by a positive number gives an integer.
LEMMA BigIntDivType ==
  ASSUME NEW a \in Int, NEW b \in Int, b > 0
  PROVE  BigIntDiv(a, b) \in Int
BY DEF BigIntDiv

\* Deltas of different chains.
Deltas(S) == S \subseteq Delta /\ \A d, e \in S : d.chain = e.chain => d = e

\* There are finitely many of them.
LEMMA DeltasFinite ==
  ASSUME NEW S, Deltas(S)
  PROVE  IsFiniteSet(S)
<1> DEFINE f == [d \in S |-> d.chain]
<1>1. f \in [S -> Chains] /\ \A d, e \in S : f[d] = f[e] => d = e
  BY DEF Deltas, Delta
<1>2. f \in Injection(S, Chains)
  BY <1>1 DEF Injection, IsInjective
<1> QED BY <1>2, ChainsAssumption, FS_Injection

\* Sorting deltas of different chains gives a sequence of them in order: no two
\* are preceded by equally many, so that every position is taken.
LEMMA SortedType ==
  ASSUME NEW S, Deltas(S), NEW first
  PROVE  /\ SortedDeltas(S, first) \in Seq(S)
         /\ \A j, k \in DOMAIN SortedDeltas(S, first) : j < k =>
              Precedes(SortedDeltas(S, first)[j], SortedDeltas(S, first)[k], first)
<1> DEFINE Earlier(d) == {e \in S : Precedes(e, d, first)}
           rank == [d \in S |-> Cardinality(Earlier(d))]
           nth(k) == CHOOSE d \in S : Cardinality(Earlier(d)) = k - 1
<1>0. IsFiniteSet(S)
  BY DeltasFinite
<1>1. PICK n \in Nat : n = Cardinality(S)
  BY <1>0, FS_CardinalityType
<1>2. ASSUME NEW d \in S PROVE d.chain \in Int /\ d.amount \in Int
  <2>1. d \in Delta
    BY DEF Deltas
  <2>2. d.chain \in Chains /\ d.amount \in Int
    BY <2>1 DEF Delta
  <2>3. Chains \subseteq Nat
    BY ChainsAssumption
  <2>4. d.chain \in Nat
    BY <2>2, <2>3
  <2> QED BY <2>2, <2>4
<1>3. ASSUME NEW d \in S, NEW e \in S, d # e PROVE Precedes(d, e, first) \/ Precedes(e, d, first)
  <2>1. d.chain # e.chain
    BY <1>3 DEF Deltas
  <2> QED BY <1>2, <2>1 DEF Precedes
<1>4. ASSUME NEW d \in S PROVE ~Precedes(d, d, first)
  BY <1>2 DEF Precedes
<1>5. ASSUME NEW d \in S, NEW e \in S, NEW g \in S, Precedes(d, e, first), Precedes(e, g, first)
      PROVE  Precedes(d, g, first)
  BY <1>2, <1>5 DEF Precedes
<1>6. ASSUME NEW d \in S
      PROVE  IsFiniteSet(Earlier(d)) /\ rank[d] \in 0..(n - 1)
  <2>1. Earlier(d) \in SUBSET S /\ d \notin Earlier(d)
    BY <1>4
  <2>2. IsFiniteSet(Earlier(d)) /\ Cardinality(Earlier(d)) \in Nat
    BY <1>0, <2>1, FS_Subset, FS_CardinalityType
  <2>3. Cardinality(Earlier(d)) <= n /\ Cardinality(Earlier(d)) # n
    <3> HIDE DEF Earlier
    <3> QED BY <1>0, <1>1, <2>1, FS_Subset
  <2>4. rank[d] = Cardinality(Earlier(d))
    OBVIOUS
  <2> HIDE DEF Earlier, rank
  <2> QED BY <2>2, <2>3, <2>4
<1>7. ASSUME NEW d \in S, NEW e \in S, Precedes(d, e, first) PROVE rank[d] < rank[e]
  <2>1. Earlier(d) \in SUBSET Earlier(e)
    BY <1>5, <1>7
  <2>2. d \in Earlier(e) /\ d \notin Earlier(d)
    BY <1>4, <1>7
  <2>3. IsFiniteSet(Earlier(e))
    BY <1>6
  <2>4. /\ Cardinality(Earlier(d)) # Cardinality(Earlier(e))
        /\ Cardinality(Earlier(d)) <= Cardinality(Earlier(e))
    <3> HIDE DEF Earlier
    <3> QED BY <2>1, <2>2, <2>3, FS_Subset
  <2>5. rank[d] = Cardinality(Earlier(d)) /\ rank[e] = Cardinality(Earlier(e))
    OBVIOUS
  <2>6. rank[d] \in Int /\ rank[e] \in Int
    BY <1>6
  <2> HIDE DEF Earlier, rank
  <2> QED BY <2>4, <2>5, <2>6
<1>8. rank \in [S -> 0..(n - 1)]
  <2>1. \A d \in S : rank[d] \in 0..(n - 1)
    BY <1>6
  <2> QED BY <2>1
<1>9. \A d, e \in S : rank[d] = rank[e] => d = e
  <2> HIDE DEF rank
  <2> QED BY <1>3, <1>7, <1>8
<1>10. rank \in Injection(S, 0..(n - 1))
  <2> HIDE DEF rank
  <2> QED BY <1>8, <1>9 DEF Injection, IsInjective
<1>11. IsFiniteSet(0..(n - 1)) /\ Cardinality(0..(n - 1)) = n
  BY FS_Interval
<1>12. rank \in Surjection(S, 0..(n - 1))
  <2> HIDE DEF rank
  <2> QED BY <1>1, <1>10, <1>11, FS_Injection
<1>13. ASSUME NEW k \in 1..n
       PROVE  nth(k) \in S /\ rank[nth(k)] = k - 1
  <2>1. k - 1 \in 0..(n - 1)
    OBVIOUS
  <2>2. \E d \in S : rank[d] = k - 1
    <3> HIDE DEF rank
    <3> QED BY <1>12, <2>1 DEF Surjection
  <2> QED BY <2>2
<1>14. SortedDeltas(S, first) = [k \in 1..n |-> nth(k)]
  BY <1>1 DEF SortedDeltas
<1>15. ASSUME NEW j \in 1..n, NEW k \in 1..n, j < k PROVE Precedes(nth(j), nth(k), first)
  <2> HIDE DEF nth, rank
  <2>1. PICK d \in S, e \in S : d = nth(j) /\ e = nth(k) /\ rank[d] = j - 1 /\ rank[e] = k - 1
    BY <1>13
  <2>2. rank[d] < rank[e]
    BY <1>15, <2>1
  <2>3. ~Precedes(e, d, first) /\ d # e
    BY <1>7, <1>8, <2>2
  <2> QED BY <1>3, <2>1, <2>3
<1> HIDE DEF nth
<1>16. PICK q : q = SortedDeltas(S, first) /\ q = [k \in 1..n |-> nth(k)]
  BY <1>14
<1>17. q \in Seq(S)
  <2>1. \A k \in 1..n : nth(k) \in S
    BY <1>13
  <2> QED BY <1>16, <2>1
<1>18. \A j, k \in DOMAIN q : j < k => Precedes(q[j], q[k], first)
  <2>1. DOMAIN q = 1..n /\ \A k \in 1..n : q[k] = nth(k)
    BY <1>16
  <2> QED BY <1>15, <2>1
<1> QED BY <1>16, <1>17, <1>18

Bounds == [chain : Chains, below : Int, fill : Int, keep : Int]

\* The band of a chain is made of integers.
LEMMA BandType ==
  ASSUME NEW strategy, ValidStrategy(strategy), NEW total \in Int, NEW c \in Chains
  PROVE  Band(strategy, total, c) \in Bounds /\ Band(strategy, total, c).chain = c
<1>1. CASE strategy.kind = "weighted"
  <2>1. /\ strategy.weight \in [Chains -> Nat] /\ Total(strategy.weight) > 0
        /\ strategy.tolerance \in [Chains -> 0..100]
    BY <1>1 DEF ValidStrategy
  <2>2. strategy.weight \in [Chains -> Int] /\ strategy.weight[c] \in Int
    BY <2>1
  <2>3. PICK w \in Int : w = Total(strategy.weight) /\ w > 0
    BY <2>1, <2>2, TotalType
  <2>4. PICK x \in Int : x = total * strategy.weight[c]
    BY <2>2
  <2>5. PICK target \in Int : target = BigIntDiv(x, w)
    BY <2>3, BigIntDivType
  <2>6. PICK y \in Int : y = target * strategy.tolerance[c]
    BY <2>1
  <2>7. PICK z \in Int : z = BigIntDiv(y, 100)
    BY BigIntDivType
  <2>8. Band(strategy, total, c) = WeightedBand(strategy, total, c)
    BY <1>1 DEF Band
  <2>9. WeightedBand(strategy, total, c)
          = [chain |-> c, below |-> target - z, fill |-> target, keep |-> target]
    BY <2>3, <2>4, <2>5, <2>6, <2>7 DEF WeightedBand
  <2> QED BY <2>8, <2>9 DEF Bounds
<1>2. CASE strategy.kind = "minAmount"
  <2>1. /\ strategy.relative \in BOOLEAN
        /\ strategy.min \in [Chains -> Nat] /\ strategy.target \in [Chains -> Nat]
    BY <1>2 DEF ValidStrategy
  <2> DEFINE amount(x) == IF strategy.relative THEN (total * x) \div 100 ELSE x
  <2>2. ASSUME NEW x \in Nat PROVE amount(x) \in Int
    <3>1. PICK y \in Int : y = total * x
      OBVIOUS
    <3>2. y \div 100 \in Int
      OBVIOUS
    <3> QED BY <3>1, <3>2
  <2>3. Band(strategy, total, c) = MinAmountBand(strategy, total, c)
    BY <1>2 DEF Band
  <2>4. MinAmountBand(strategy, total, c)
          = [chain |-> c, below |-> amount(strategy.min[c]), fill |-> amount(strategy.target[c]),
             keep |-> amount(strategy.min[c])]
    BY DEF MinAmountBand
  <2>5. amount(strategy.min[c]) \in Int /\ amount(strategy.target[c]) \in Int
    <3>1. strategy.min[c] \in Nat /\ strategy.target[c] \in Nat
      BY <2>1
    <3> HIDE DEF amount
    <3> QED BY <2>2, <3>1
  <2> HIDE DEF amount
  <2> QED BY <2>3, <2>4, <2>5 DEF Bounds
<1>3. CASE strategy.kind = "collateralDeficit"
  <2>1. strategy.buffer[c] \in Int
    BY <1>3 DEF ValidStrategy
  <2>2. Band(strategy, total, c) = CollateralDeficitBand(strategy, c)
    BY <1>3 DEF Band
  <2> QED BY <2>1, <2>2 DEF CollateralDeficitBand, Bounds
<1> QED BY <1>1, <1>2, <1>3 DEF ValidStrategy

\* The bands of the chains, one for each.
OneBandEach(bands) == bands \subseteq Bounds /\ \A v, w \in bands : v.chain = w.chain => v = w

\* The bands of a strategy are such.
LEMMA BandsType ==
  ASSUME NEW strategy, ValidStrategy(strategy), NEW b \in [Chains -> Int]
  PROVE  OneBandEach(Bands(strategy, b))
<1>1. PICK t \in Int : t = Total(b)
  BY TotalType
<1>2. \A w \in Bands(strategy, b) : \E c \in Chains : w = Band(strategy, t, c)
  BY <1>1 DEF Bands
<1>3. \A c \in Chains : Band(strategy, t, c) \in Bounds /\ Band(strategy, t, c).chain = c
  BY BandType
<1> QED BY <1>2, <1>3 DEF OneBandEach

\* Deficits and surpluses are deltas of different chains, and a surplus is more
\* than nothing.
LEMMA DeltasType ==
  ASSUME NEW b \in [Chains -> Int], NEW bands, OneBandEach(bands)
  PROVE  /\ Deltas(Deficits(b, bands)) /\ Deltas(Surpluses(b, bands))
         /\ \A d \in Surpluses(b, bands) : d.amount \in Nat
<1>1. ASSUME NEW w \in bands
      PROVE  /\ w.chain \in Chains /\ w.fill \in Int /\ w.keep \in Int /\ b[w.chain] \in Int
  <2>1. w \in Bounds
    BY DEF OneBandEach
  <2>2. w.chain \in Chains /\ w.fill \in Int /\ w.keep \in Int
    BY <2>1 DEF Bounds
  <2> QED BY <2>2
<1>2. Deltas(Deficits(b, bands))
  <2> DEFINE d(w) == [chain |-> w.chain, amount |-> w.fill - b[w.chain]]
  <2>1. \A x \in Deficits(b, bands) : \E w \in bands : x = d(w)
    BY DEF Deficits
  <2>2. \A w \in bands : d(w) \in Delta /\ d(w).chain = w.chain
    BY <1>1 DEF Delta
  <2>3. \A v, w \in bands : v.chain = w.chain => v = w
    BY DEF OneBandEach
  <2> HIDE DEF d
  <2> QED BY <2>1, <2>2, <2>3 DEF Deltas
<1>3. Deltas(Surpluses(b, bands)) /\ \A x \in Surpluses(b, bands) : x.amount \in Nat
  <2> DEFINE d(w) == [chain |-> w.chain, amount |-> b[w.chain] - w.keep]
  <2>1. \A x \in Surpluses(b, bands) : \E w \in bands : x = d(w) /\ b[w.chain] > w.keep
    BY DEF Surpluses
  <2>2. \A w \in bands : d(w) \in Delta /\ d(w).chain = w.chain
    BY <1>1 DEF Delta
  <2>3. \A v, w \in bands : v.chain = w.chain => v = w
    BY DEF OneBandEach
  <2>4. \A w \in bands : b[w.chain] > w.keep => d(w).amount \in Nat
    BY <1>1
  <2> HIDE DEF d
  <2> QED BY <2>1, <2>2, <2>3, <2>4 DEF Deltas
<1> QED BY <1>2, <1>3

\* Scaling keeps the deficits deltas of different chains.
LEMMA ScaledType ==
  ASSUME NEW deficits, Deltas(deficits), NEW surpluses, Deltas(surpluses),
         \A d \in surpluses : d.amount \in Nat
  PROVE  Deltas(Scaled(deficits, surpluses))
<1>1. IsFiniteSet(deficits) /\ IsFiniteSet(surpluses)
  BY DeltasFinite
<1>2. PICK a \in Nat : a = Amount(surpluses)
  <2> DEFINE f == [d \in surpluses |-> d.amount]
  <2>1. \A d \in surpluses : f[d] \in Nat
    OBVIOUS
  <2>2. Amount(surpluses) = SumFunctionOnSet(f, surpluses)
    BY DEF Amount, Sum
  <2> HIDE DEF f
  <2> QED BY <1>1, <2>1, <2>2, SumNat
<1>3. \A d \in deficits : d \in Delta /\ d.chain \in Chains /\ d.amount \in Int
  BY DEF Deltas, Delta
<1>4. PICK t \in Int : t = Amount(deficits)
  <2> DEFINE f == [d \in deficits |-> d.amount]
  <2>1. \A d \in deficits : f[d] \in Int
    BY <1>3
  <2>2. Amount(deficits) = SumFunctionOnSet(f, deficits)
    BY DEF Amount, Sum
  <2> HIDE DEF f
  <2> QED BY <1>1, <2>1, <2>2, SumType
<1>5. CASE a >= t
  BY <1>2, <1>4, <1>5 DEF Scaled
<1>6. CASE ~(a >= t)
  <2> DEFINE e(d) == [d EXCEPT !.amount = BigIntDiv(@ * a, t)]
  <2>1. t > 0
    BY <1>6
  <2>2. ASSUME NEW d \in deficits PROVE e(d) \in Delta /\ e(d).chain = d.chain
    <3>1. PICK x \in Int : x = d.amount * a
      BY <1>3
    <3>2. PICK y \in Int : y = BigIntDiv(x, t)
      BY <2>1, BigIntDivType
    <3>3. e(d) = [d EXCEPT !.amount = y]
      BY <3>1, <3>2
    <3> HIDE DEF e
    <3> QED BY <1>3, <3>3 DEF Delta
  <2>3. Scaled(deficits, surpluses) = {e(d) : d \in deficits}
    BY <1>2, <1>4, <1>6 DEF Scaled
  <2>4. \A d, g \in deficits : d.chain = g.chain => d = g
    BY DEF Deltas
  <2> HIDE DEF e
  <2> QED BY <2>2, <2>3, <2>4 DEF Deltas
<1> QED BY <1>5, <1>6

Matching == [surpluses : Seq(Delta), deficits : Seq(Delta), routes : Seq(Route)]

\* What is left of a list once its head has been shrunk is a list of deltas.
LEMMA ShrinkType ==
  ASSUME NEW q \in Seq(Delta), q # <<>>, NEW x \in Int
  PROVE  Shrink(q, x) \in Seq(Delta)
<1>1. Head(q) \in Delta /\ Tail(q) \in Seq(Delta)
  OBVIOUS
<1>2. PICK d \in Delta : d = Head(q)
  BY <1>1
<1>3. PICK y \in Int : y = d.amount - x
  BY DEF Delta
<1>4. [d EXCEPT !.amount = y] \in Delta
  BY DEF Delta
<1>5. <<[d EXCEPT !.amount = y]>> \o Tail(q) \in Seq(Delta)
  BY <1>1, <1>4
<1>6. Shrink(q, x) = IF y <= 0 THEN Tail(q) ELSE <<[d EXCEPT !.amount = y]>> \o Tail(q)
  BY <1>2, <1>3 DEF Shrink
<1> QED BY <1>1, <1>5, <1>6

\* The smaller of two numbers.
LEMMA MinOfTwo ==
  ASSUME NEW a \in Int, NEW b \in Int
  PROVE  /\ Min({a, b}) = IF a <= b THEN a ELSE b
         /\ Min({a, b}) \in {a, b} /\ Min({a, b}) <= a /\ Min({a, b}) <= b
<1> DEFINE m == IF a <= b THEN a ELSE b
<1>1. m \in {a, b} /\ \A y \in {a, b} : m <= y
  OBVIOUS
<1>2. \A x \in {a, b} : (\A y \in {a, b} : x <= y) => x = m
  OBVIOUS
<1>3. Min({a, b}) = m
  <2> HIDE DEF m
  <2> QED BY <1>1, <1>2 DEF Min
<1> QED BY <1>3

\* A turn of the matching keeps its lists, and adds only a route of some amount.
LEMMA MatchStepType ==
  ASSUME NEW strategy, ValidStrategy(strategy), NEW m \in Matching
  PROVE  MatchStep(strategy, m) \in Matching
<1>1. m.surpluses \in Seq(Delta) /\ m.deficits \in Seq(Delta) /\ m.routes \in Seq(Route)
  BY DEF Matching
<1>2. CASE m.surpluses = <<>> \/ m.deficits = <<>>
  BY <1>2 DEF MatchStep
<1>3. CASE ~(m.surpluses = <<>> \/ m.deficits = <<>>)
  <2>1. PICK s \in Delta : s = Head(m.surpluses)
    BY <1>1, <1>3
  <2>2. PICK d \in Delta : d = Head(m.deficits)
    BY <1>1, <1>3
  <2>3. s.amount \in Int /\ d.amount \in Int /\ s.chain \in Chains /\ d.chain \in Chains
    BY DEF Delta
  <2>4. PICK a \in Int : a = Min({s.amount, d.amount})
    BY <2>3, MinOfTwo
  <2>5. Shrink(m.surpluses, a) \in Seq(Delta) /\ Shrink(m.deficits, a) \in Seq(Delta)
    BY <1>1, <1>3, ShrinkType
  <2>6. PICK w \in STRING : w = strategy.bridge[s.chain, d.chain]
    BY <2>3 DEF ValidStrategy
  <2> DEFINE route == [origin |-> s.chain, destination |-> d.chain, amount |-> a,
                       bridge |-> strategy.bridge[s.chain, d.chain]]
  <2>7. a > 0 => route \in Route
    <3>1. a > 0 => a \in Nat \ {0}
      OBVIOUS
    <3>2. \A x, y : x \in Chains /\ y \in Chains /\ a > 0 =>
            [origin |-> x, destination |-> y, amount |-> a, bridge |-> w] \in Route
      BY <3>1 DEF Route
    <3>3. route = [origin |-> s.chain, destination |-> d.chain, amount |-> a, bridge |-> w]
      BY <2>6, Zenon
    <3> HIDE DEF route
    <3> QED BY <2>3, <3>2, <3>3
  <2>8. PICK routes : routes = IF a > 0 THEN Append(m.routes, route) ELSE m.routes
    OBVIOUS
  <2>9. routes \in Seq(Route)
    <3> HIDE DEF route
    <3> QED BY <1>1, <2>7, <2>8
  <2>10. MatchStep(strategy, m) = [surpluses |-> Shrink(m.surpluses, a),
                                   deficits |-> Shrink(m.deficits, a), routes |-> routes]
    BY <1>3, <2>1, <2>2, <2>4, <2>8 DEF MatchStep
  <2> QED BY <2>5, <2>9, <2>10 DEF Matching
<1> QED BY <1>2, <1>3

\* The turns of the matching, from `base'.
MatchTurn(strategy, m) == Only({MatchStep(strategy, x) : x \in {m}})
MatchLoop(strategy, base, q) ==
  FoldLeft(LAMBDA m, turn : Only({MatchStep(strategy, x) : x \in {m}}), base, q)

\* The matching takes one turn after the other.
LEMMA MatchedInOrder ==
  ASSUME NEW n \in Nat, NEW q, DOMAIN q = 1..n, NEW D, NEW base \in D, NEW strategy, NEW step,
         \A k \in 1..n, d \in D : step[k][d] = MatchTurn(strategy, d) /\ step[k][d] \in D
  PROVE  \E r \in [0..n -> D] : Run(r, n, base, step, MatchLoop(strategy, base, q))
<1> DEFINE Loop(h) == [s \in SUBSET (1..n) |-> IF s = {} THEN base
                         ELSE MatchTurn(strategy, h[s \ {Max(s)}])]
<1>1. Closed(n, D, step)
  BY DEF Closed
<1>2. PICK h \in [SUBSET (1..n) -> D] : Loops(h, n, base, step)
  BY <1>1, LoopExists
<1>3. ASSUME NEW s \in SUBSET (1..n), s # {}
      PROVE  Max(s) \in 1..n /\ s \ {Max(s)} \in SUBSET (1..n)
  BY <1>3, LastPosition
<1>4. h = Loop(h)
  <2>1. ASSUME NEW s \in SUBSET (1..n) PROVE h[s] = Loop(h)[s]
    <3>1. CASE s = {}
      BY <1>2, <3>1 DEF Loops
    <3>2. CASE s # {}
      <4>1. h[s] = step[Max(s)][h[s \ {Max(s)}]]
        BY <1>2, <3>2 DEF Loops
      <4>2. h[s \ {Max(s)}] \in D
        BY <1>3, <3>2
      <4>3. h[s] = MatchTurn(strategy, h[s \ {Max(s)}])
        BY <1>3, <3>2, <4>1, <4>2
      <4> QED BY <3>2, <4>3
    <3> QED BY <3>1, <3>2
  <2> QED BY <2>1
<1>5. PICK f : f = Loop(f) /\ MatchLoop(strategy, base, q) = f[1..n]
  BY <1>4, ZenonT(30) DEF MatchLoop, FoldLeft, MapThenFoldSet, MatchTurn
<1>6. Turns(f, n, D, base, step)
  <2>1. f[{}] = base
    BY <1>5
  <2>2. ASSUME NEW s \in SUBSET (1..n), s # {}, f[s \ {Max(s)}] \in D
        PROVE  f[s] = step[Max(s)][f[s \ {Max(s)}]]
    <3>1. f[s] = MatchTurn(strategy, f[s \ {Max(s)}])
      BY <1>5, <2>2
    <3> QED BY <1>3, <2>2, <3>1
  <2> HIDE DEF Loop
  <2> QED BY <2>1, <2>2 DEF Turns
<1>7. \E r \in [0..n -> D] : Run(r, n, base, step, f[1..n])
  <2> HIDE DEF Loop
  <2> QED BY <1>1, <1>6, LoopRuns
<1> QED BY <1>5, <1>7

\* The routes of a matching are routes of some amount.
LEMMA MatchedType ==
  ASSUME NEW strategy, ValidStrategy(strategy),
         NEW surpluses \in Seq(Delta), NEW deficits \in Seq(Delta)
  PROVE  Matched(strategy, surpluses, deficits) \in Seq(Route)
<1>1. PICK n \in Nat : n = Len(surpluses) + Len(deficits)
  OBVIOUS
<1> DEFINE D == Matching
           start == [surpluses |-> surpluses, deficits |-> deficits, routes |-> <<>>]
           turns == [turn \in 1..n |-> turn]
           step == [k \in 1..n |-> [d \in D |-> MatchTurn(strategy, d)]]
<1>2. start \in D
  BY DEF Matching
<1>3. ASSUME NEW k \in 1..n, NEW d \in D
      PROVE  step[k][d] = MatchTurn(strategy, d) /\ step[k][d] \in D
  <2>1. {MatchStep(strategy, x) : x \in {d}} = {MatchStep(strategy, d)}
    OBVIOUS
  <2>2. MatchTurn(strategy, d) = MatchStep(strategy, d)
    BY <2>1 DEF MatchTurn, Only
  <2>3. MatchTurn(strategy, d) \in D
    BY <2>2, MatchStepType
  <2> HIDE DEF D
  <2> QED BY <2>3
<1>4. DOMAIN turns = 1..n
  OBVIOUS
<1>5. PICK r \in [0..n -> D] : Run(r, n, start, step, MatchLoop(strategy, start, turns))
  <2> HIDE DEF D, start, step, turns
  <2> QED BY <1>2, <1>3, <1>4, MatchedInOrder
<1>6. MatchLoop(strategy, start, turns) \in D
  <2> HIDE DEF D, start, step, turns
  <2> QED BY <1>5 DEF Run
<1>7. Matched(strategy, surpluses, deficits) = MatchLoop(strategy, start, turns).routes
  BY <1>1 DEF Matched, MatchLoop
<1> HIDE DEF start, turns
<1> QED BY <1>6, <1>7 DEF Matching

\* What a cycle knows to be in flight, as the strategies are given it.
ContextOK(context) == context.transfers \in Seq(PendingTransfer) /\ Reportable(context.rebalances)

\* The routes of one strategy.
LEMMA RoutesType ==
  ASSUME NEW strategy, ValidStrategy(strategy), NEW raw \in [Chains -> Int],
         NEW context, ContextOK(context), NEW proposed \in Seq(Route)
  PROVE  getRebalancingRoutes(strategy, raw, context, proposed) \in Seq(Route)
<1> DEFINE seen == IF strategy.kind = "collateralDeficit" THEN <<>> ELSE proposed
<1>1. seen \in Seq(Route)
  OBVIOUS
<1>2. PICK b : b = Simulated(strategy, reserveCollateral(raw, context.transfers),
                             context.rebalances, seen)
  OBVIOUS
<1>3. b \in [Chains -> Int]
  <2>1. PICK reserved \in [Chains -> Int] : reserved = reserveCollateral(raw, context.transfers)
    BY ReservedType DEF ContextOK
  <2>2. Reportable(context.rebalances)
    BY DEF ContextOK
  <2> HIDE DEF seen
  <2> QED BY <1>1, <1>2, <2>1, <2>2, SimulatedType
<1>4. PICK bands : bands = Bands(strategy, b)
  OBVIOUS
<1>5. OneBandEach(bands)
  BY <1>3, <1>4, BandsType
<1>6. PICK surpluses : surpluses = Surpluses(b, bands)
  OBVIOUS
<1>7. PICK deficits : deficits = Deficits(b, bands)
  OBVIOUS
<1>8. /\ Deltas(surpluses) /\ Deltas(deficits)
      /\ \A d \in surpluses : d.amount \in Nat
  BY <1>3, <1>5, <1>6, <1>7, DeltasType
<1>9. \A S, first : Deltas(S) => SortedDeltas(S, first) \in Seq(Delta)
  <2> SUFFICES ASSUME NEW S, NEW first, Deltas(S) PROVE SortedDeltas(S, first) \in Seq(Delta)
    OBVIOUS
  <2>1. SortedDeltas(S, first) \in Seq(S) /\ S \subseteq Delta
    BY SortedType DEF Deltas
  <2> QED BY <2>1
<1>10. RoutesFor(strategy, surpluses, deficits, context.transfers) \in Seq(Route)
  <2>1. Deltas(Scaled(deficits, surpluses))
    BY <1>8, ScaledType
  <2>2. PICK first : first = IF strategy.kind = "collateralDeficit"
                             THEN TransferOrigins(context.transfers, deficits) ELSE {}
    OBVIOUS
  <2>3. PICK s \in Seq(Delta) : s = SortedDeltas(surpluses, first)
    BY <1>8, <1>9
  <2>4. PICK d \in Seq(Delta) : d = SortedDeltas(Scaled(deficits, surpluses), {})
    BY <1>9, <2>1
  <2>5. RoutesFor(strategy, surpluses, deficits, context.transfers) = Matched(strategy, s, d)
    BY <2>2, <2>3, <2>4 DEF RoutesFor
  <2> QED BY <2>5, MatchedType
<1>11. CategorizedRoutes(strategy, b, context.transfers)
         = RoutesFor(strategy, surpluses, deficits, context.transfers)
  <2> DEFINE R(x) == RoutesFor(strategy, Surpluses(b, x), Deficits(b, x), context.transfers)
  <2>1. CategorizedRoutes(strategy, b, context.transfers) = Only({R(x) : x \in {bands}})
    BY <1>4 DEF CategorizedRoutes
  <2>2. {R(x) : x \in {bands}} = {R(bands)}
    OBVIOUS
  <2>3. Only({R(bands)}) = R(bands)
    BY DEF Only
  <2> QED BY <1>6, <1>7, <2>1, <2>2, <2>3
<1>12. PICK routes \in Seq(Route) : routes = CategorizedRoutes(strategy, b, context.transfers)
  BY <1>10, <1>11
<1>13. getRebalancingRoutes(strategy, raw, context, proposed) = filterRoutes(strategy, routes, raw)
  <2> DEFINE F(x) == filterRoutes(strategy, CategorizedRoutes(strategy, x, context.transfers), raw)
  <2>1. getRebalancingRoutes(strategy, raw, context, proposed) = Only({F(x) : x \in {b}})
    BY <1>2 DEF getRebalancingRoutes
  <2>2. {F(x) : x \in {b}} = {F(b)}
    OBVIOUS
  <2>3. Only({F(b)}) = F(b)
    BY DEF Only
  <2> QED BY <1>12, <2>1, <2>2, <2>3
<1>14. PICK S : filterRoutes(strategy, routes, raw) = Selected(routes, S)
  <2> DEFINE G(x) == Selected(x, {r \in Range(x) :
                                    r.amount <= raw[r.origin] /\ r.amount >= strategy.accepted})
  <2>1. filterRoutes(strategy, routes, raw) = Only({G(x) : x \in {routes}})
    BY DEF filterRoutes
  <2>2. {G(x) : x \in {routes}} = {G(routes)}
    OBVIOUS
  <2>3. Only({G(routes)}) = G(routes)
    BY DEF Only
  <2> QED BY <2>1, <2>2, <2>3
<1>15. Selected(routes, S) \in Seq(Route \cap S)
  BY SelectedType
<1> QED BY <1>13, <1>14, <1>15

\* One strategy after those before it.
ComposeOne(proposed, strategy, raw, context) ==
  Only({routes \o getRebalancingRoutes(strategy, raw, context, routes) : routes \in {proposed}})

\* CompositeStrategy runs the strategies in their order.
LEMMA ComposedInOrder ==
  ASSUME NEW n \in Nat, NEW q, DOMAIN q = 1..n, NEW D, NEW base \in D, base = <<>>, NEW raw, NEW context, NEW step,
         \A k \in 1..n, d \in D : step[k][d] = ComposeOne(d, q[k], raw, context) /\ step[k][d] \in D
  PROVE  \E r \in [0..n -> D] : Run(r, n, base, step, CompositeRoutes(q, raw, context))
<1> DEFINE Loop(h) == [s \in SUBSET (1..n) |-> IF s = {} THEN base
                         ELSE ComposeOne(h[s \ {Max(s)}], q[Max(s)], raw, context)]
<1>1. Closed(n, D, step)
  BY DEF Closed
<1>2. PICK h \in [SUBSET (1..n) -> D] : Loops(h, n, base, step)
  BY <1>1, LoopExists
<1>3. ASSUME NEW s \in SUBSET (1..n), s # {}
      PROVE  Max(s) \in 1..n /\ s \ {Max(s)} \in SUBSET (1..n)
  BY <1>3, LastPosition
<1>4. h = Loop(h)
  <2>1. ASSUME NEW s \in SUBSET (1..n) PROVE h[s] = Loop(h)[s]
    <3>1. CASE s = {}
      BY <1>2, <3>1 DEF Loops
    <3>2. CASE s # {}
      <4>1. h[s] = step[Max(s)][h[s \ {Max(s)}]]
        BY <1>2, <3>2 DEF Loops
      <4>2. h[s \ {Max(s)}] \in D
        BY <1>3, <3>2
      <4>3. h[s] = ComposeOne(h[s \ {Max(s)}], q[Max(s)], raw, context)
        BY <1>3, <3>2, <4>1, <4>2
      <4> QED BY <3>2, <4>3
    <3> QED BY <3>1, <3>2
  <2> QED BY <2>1
<1>5. PICK f : f = Loop(f) /\ CompositeRoutes(q, raw, context) = f[1..n]
  BY <1>4, ZenonT(30) DEF CompositeRoutes, FoldLeft, MapThenFoldSet, ComposeOne
<1>6. Turns(f, n, D, base, step)
  <2>1. f[{}] = base
    BY <1>5
  <2>2. ASSUME NEW s \in SUBSET (1..n), s # {}, f[s \ {Max(s)}] \in D
        PROVE  f[s] = step[Max(s)][f[s \ {Max(s)}]]
    <3>1. f[s] = ComposeOne(f[s \ {Max(s)}], q[Max(s)], raw, context)
      BY <1>5, <2>2
    <3> QED BY <1>3, <2>2, <3>1
  <2> HIDE DEF Loop
  <2> QED BY <2>1, <2>2 DEF Turns
<1>7. \E r \in [0..n -> D] : Run(r, n, base, step, f[1..n])
  <2> HIDE DEF Loop
  <2> QED BY <1>1, <1>6, LoopRuns
<1> QED BY <1>5, <1>7

\* The routes of a cycle are routes between chains, of some amount.
LEMMA CompositeType ==
  ASSUME NEW strategies, ValidStrategies(strategies),
         NEW raw \in [Chains -> Int], NEW context, ContextOK(context)
  PROVE  CompositeRoutes(strategies, raw, context) \in Seq(Route)
<1>1. PICK n \in Nat : n = Len(strategies) /\ DOMAIN strategies = 1..n
  BY DEF ValidStrategies
<1> DEFINE D == Seq(Route)
           none == << >>
           step == [k \in 1..n |-> [d \in D |-> ComposeOne(d, strategies[k], raw, context)]]
<1>2. none \in D /\ none = <<>>
  OBVIOUS
<1>3. ASSUME NEW k \in 1..n, NEW d \in D
      PROVE  /\ step[k][d] = ComposeOne(d, strategies[k], raw, context)
             /\ step[k][d] \in D
  <2>1. ValidStrategy(strategies[k])
    BY <1>1 DEF ValidStrategies
  <2> DEFINE G(x) == x \o getRebalancingRoutes(strategies[k], raw, context, x)
  <2>2. {G(x) : x \in {d}} = {G(d)}
    OBVIOUS
  <2>3. Only({G(d)}) = G(d)
    BY DEF Only
  <2>4. ComposeOne(d, strategies[k], raw, context) = G(d)
    BY <2>2, <2>3 DEF ComposeOne
  <2>5. PICK g \in Seq(Route) : g = getRebalancingRoutes(strategies[k], raw, context, d)
    BY <2>1, RoutesType
  <2>6. G(d) \in D
    BY <2>5
  <2> HIDE DEF D, G
  <2> QED BY <2>4, <2>6
<1>4. PICK r \in [0..n -> D] : Run(r, n, none, step, CompositeRoutes(strategies, raw, context))
  <2> HIDE DEF D, none, step
  <2> QED BY <1>1, <1>2, <1>3, ComposedInOrder
<1>5. CompositeRoutes(strategies, raw, context) \in D
  <2> HIDE DEF D, none, step
  <2> QED BY <1>4 DEF Run
<1> QED BY <1>5
=============================================================================
