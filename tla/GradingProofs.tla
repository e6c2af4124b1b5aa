---------------------------- MODULE GradingProofs ----------------------------
(* Lemmas about Grading that proofs about its users cite: what the sums of  *)
(* the matrix come to, what a score can be, which grade it stands for, and  *)
(* that leaving reports out does not lower it.                              *)
EXTENDS Grading, FiniteSetTheorems, WellFoundedInduction, TLAPS

-----------------------------------------------------------------------------
(* Sets *)

(* The image of a finite set.                                               *)
LEMMA ImageIsFinite ==
  ASSUME NEW S, IsFiniteSet(S), NEW f
  PROVE  IsFiniteSet({ f[x] : x \in S })
<1> DEFINE T == { f[x] : x \in S }
           g == [x \in S |-> f[x]]
<1>1. g \in Surjection(S, T)
  BY DEF Surjection
<1>2. QED
  BY <1>1, FS_Surjection

-----------------------------------------------------------------------------
(* Sums *)

(* Sets of naturals have a smallest element: what induction rests on.       *)
LEMMA SmallerIsWellFounded == IsWellFoundedOn({ p \in Nat \X Nat : p[1] < p[2] }, Nat)
BY NatLessThanWellFounded DEF OpToRel

LEMMA LeastExists ==
  ASSUME NEW S, S \subseteq Nat, S # {}
  PROVE  \E j \in S : \A i \in S : j <= i
<1> DEFINE Less == { p \in Nat \X Nat : p[1] < p[2] }
<1>1. PICK j \in S : \A i \in S : << i, j >> \notin Less
  <2>1. IsWellFoundedOn(Less, Nat)
    BY SmallerIsWellFounded
  <2> HIDE DEF Less
  <2>2. QED
    BY <2>1, WFMin
<1>2. \A i \in S : j <= i
  <2> TAKE i \in S
  <2>1. i \in Nat /\ j \in Nat /\ << i, j >> \notin Less
    BY <1>1
  <2>2. QED
    BY <2>1
<1>3. QED
  BY <1>2

First(s) == CHOOSE x \in s : TRUE
Rest(s)  == s \ {First(s)}

(* The recursion by which a sum of f over a set is computed.                *)
Summed(g, f, s) == IF s = {} THEN 0 ELSE f[First(s)] + g[Rest(s)]
IsSum(g, f, S)  == g = [s \in SUBSET S |-> Summed(g, f, s)]

LEMMA RestIsSmaller ==
  ASSUME NEW S, IsFiniteSet(S), NEW s \in SUBSET S, s # {}
  PROVE  /\ First(s) \in s /\ Rest(s) \in SUBSET S
         /\ Cardinality(s) \in Nat /\ Cardinality(Rest(s)) = Cardinality(s) - 1
<1>1. First(s) \in s
  BY DEF First
<1>2. IsFiniteSet(s)
  BY FS_Subset
<1>3. QED
  BY <1>1, <1>2, FS_CardinalityType, FS_RemoveElement DEF Rest

(* That recursion is well founded. *)
LEMMA SumExists ==
  ASSUME NEW S, IsFiniteSet(S), NEW f
  PROVE  \E g : IsSum(g, f, S)
<1> DEFINE Below(n) == { s \in SUBSET S : Cardinality(s) < n }
           Solves(g, n) == g = [s \in Below(n) |-> Summed(g, f, s)]
           Unsolved == { n \in Nat : ~ \E g : Solves(g, n) }
<1>0. \A s \in SUBSET S : Cardinality(s) \in Nat
  BY FS_Subset, FS_CardinalityType
<1>1. ASSUME Unsolved # {} PROVE FALSE
  <2>1. PICK n \in Unsolved : \A i \in Unsolved : n <= i
    BY <1>1, LeastExists
  <2>2. CASE n = 0
    <3>1. Below(0) = {}
      BY <1>0
    <3>2. [s \in {} |-> Summed(<< >>, f, s)] = << >>
      OBVIOUS
    <3>3. Solves(<< >>, 0)
      BY <3>1, <3>2
    <3>4. QED
      BY <2>1, <2>2, <3>3
  <2>3. CASE n # 0
    <3>1. n - 1 \in Nat /\ n - 1 \notin Unsolved
      <4>1. n \in Nat /\ ~(n <= n - 1)
        BY <2>1
      <4> HIDE DEF Unsolved
      <4>2. n - 1 \notin Unsolved
        BY <2>1, <4>1
      <4> QED
        BY <2>3, <4>1, <4>2
    <3>2. PICK g : Solves(g, n - 1)
      BY <3>1
    <3> DEFINE h == [s \in Below(n) |-> Summed(g, f, s)]
    <3>3. ASSUME NEW s \in Below(n) PROVE Summed(h, f, s) = Summed(g, f, s)
      <4>1. CASE s # {}
        <5>1. Rest(s) \in Below(n - 1) /\ Rest(s) \in Below(n)
          BY <1>0, <3>1, <4>1, RestIsSmaller
        <5>2. h[Rest(s)] = Summed(g, f, Rest(s)) /\ g[Rest(s)] = Summed(g, f, Rest(s))
          BY <3>2, <5>1
        <5>3. QED
          BY <5>2 DEF Summed
      <4>2. QED
        BY <4>1 DEF Summed
    <3>4. Solves(h, n)
      <4> HIDE DEF Below
      <4>1. [s \in Below(n) |-> Summed(h, f, s)] = h
        BY <3>3
      <4> QED
        BY <4>1
    <3>5. QED
      BY <2>1, <3>4
  <2>4. QED
    BY <2>2, <2>3
<1>2. Cardinality(S) + 1 \in Nat /\ Below(Cardinality(S) + 1) = SUBSET S
  <2>1. Cardinality(S) \in Nat /\ \A s \in SUBSET S : Cardinality(s) <= Cardinality(S)
    BY FS_CardinalityType, FS_Subset
  <2>2. QED
    BY <1>0, <2>1
<1>3. PICK g : Solves(g, Cardinality(S) + 1)
  BY <1>1, <1>2
<1>4. QED
  BY <1>2, <1>3 DEF IsSum

(* Naturals add up to a natural, and zeros to zero.                         *)
LEMMA SumIsNatural ==
  ASSUME NEW S, IsFiniteSet(S), NEW f, \A x \in S : f[x] \in Nat, NEW g, IsSum(g, f, S)
  PROVE  \A s \in SUBSET S : g[s] \in Nat /\ ((\A x \in s : f[x] = 0) => g[s] = 0)
<1> DEFINE Right(s) == g[s] \in Nat /\ ((\A x \in s : f[x] = 0) => g[s] = 0)
           Bad == { n \in Nat : \E s \in SUBSET S : Cardinality(s) = n /\ ~Right(s) }
<1>1. \A s \in SUBSET S : g[s] = Summed(g, f, s)
  BY DEF IsSum
<1>2. ASSUME Bad # {} PROVE FALSE
  <2>1. PICK n \in Bad : \A i \in Bad : n <= i
    BY <1>2, LeastExists
  <2>2. PICK s \in SUBSET S : Cardinality(s) = n /\ ~Right(s)
    BY <2>1
  <2>3. s # {}
    <3>1. s = {} => g[s] = 0
      BY <1>1, <2>2 DEF Summed
    <3> QED
      BY <2>2, <3>1
  <2>4. /\ Rest(s) \in SUBSET S /\ First(s) \in s
        /\ n \in Nat /\ n - 1 \in Nat /\ Cardinality(Rest(s)) = n - 1
    <3>1. s \in SUBSET S /\ Cardinality(s) = n
      BY <2>2
    <3> HIDE DEF Right
    <3> QED
      BY <2>3, <3>1, RestIsSmaller, FS_CardinalityType, FS_Subset
  <2>5. Right(Rest(s))
    <3>1. n - 1 \notin Bad
      <4> HIDE DEF Bad
      <4> QED
        BY <2>1, <2>4
    <3> QED
      BY <2>4, <3>1
  <2>6. g[s] = f[First(s)] + g[Rest(s)]
    BY <1>1, <2>3 DEF Summed
  <2>7. \A x \in Rest(s) : x \in s
    BY DEF Rest
  <2>8. QED
    BY <2>2, <2>4, <2>5, <2>6, <2>7
<1>3. \A s \in SUBSET S : Cardinality(s) \in Nat
  BY FS_Subset, FS_CardinalityType
<1>4. QED
  BY <1>2, <1>3

(* In a sum it does not matter which summand is taken first.                *)
LEMMA SumWithout ==
  ASSUME NEW S, IsFiniteSet(S), NEW f, \A x \in S : f[x] \in Nat, NEW g, IsSum(g, f, S)
  PROVE  \A s \in SUBSET S : \A x \in s : g[s] = f[x] + g[s \ {x}]
<1> DEFINE Right(s) == \A x \in s : g[s] = f[x] + g[s \ {x}]
           Bad == { n \in Nat : \E s \in SUBSET S : Cardinality(s) = n /\ ~Right(s) }
<1>0. \A s \in SUBSET S : g[s] \in Nat /\ Cardinality(s) \in Nat /\ IsFiniteSet(s)
  BY SumIsNatural, FS_Subset, FS_CardinalityType
<1>1. \A s \in SUBSET S : s # {} => First(s) \in s /\ g[s] = f[First(s)] + g[s \ {First(s)}]
  BY DEF IsSum, Summed, First, Rest
<1>2. ASSUME Bad # {} PROVE FALSE
  <2>1. PICK n \in Bad : \A i \in Bad : n <= i
    BY <1>2, LeastExists
  <2>2. PICK s \in SUBSET S : Cardinality(s) = n /\ ~Right(s)
    BY <2>1
  <2>3. PICK x \in s : g[s] # f[x] + g[s \ {x}]
    BY <2>2
  <2>4. PICK y \in s : y = First(s) /\ g[s] = f[y] + g[s \ {y}] /\ y # x
    BY <1>1, <2>3
  <2>5. \A z \in s : s \ {z} \in SUBSET S /\ Right(s \ {z})
    <3> TAKE z \in s
    <3>1. s \ {z} \in SUBSET S /\ n \in Nat /\ n - 1 \in Nat /\ Cardinality(s \ {z}) = n - 1
      <4>1. Cardinality(s \ {z}) = Cardinality(s) - 1 /\ s \ {z} \in SUBSET S
        BY <1>0, FS_RemoveElement
      <4>2. Cardinality(s \ {z}) \in Nat /\ Cardinality(s) \in Nat
        BY <1>0, <4>1
      <4>3. QED
        BY <2>2, <4>1, <4>2
    <3>2. n - 1 \notin Bad
      <4> HIDE DEF Bad
      <4> QED
        BY <2>1, <3>1
    <3>3. QED
      BY <3>1, <3>2
  <2>6. g[s \ {y}] = f[x] + g[(s \ {y}) \ {x}] /\ g[s \ {x}] = f[y] + g[(s \ {x}) \ {y}]
    BY <2>4, <2>5
  <2>7. (s \ {x}) \ {y} = (s \ {y}) \ {x} /\ (s \ {x}) \ {y} \in SUBSET S
    OBVIOUS
  <2>8. PICK rest \in Nat : rest = g[(s \ {x}) \ {y}]
    BY <1>0, <2>7
  <2>9. PICK a \in Nat, b \in Nat : a = f[x] /\ b = f[y]
    OBVIOUS
  <2>10. g[s] = f[x] + g[s \ {x}]
    <3>1. g[s \ {y}] = a + rest /\ g[s \ {x}] = b + rest /\ g[s] = b + g[s \ {y}]
      BY <2>4, <2>6, <2>7, <2>8, <2>9
    <3>2. b + (a + rest) = a + (b + rest)
      BY <2>8, <2>9
    <3>3. QED
      BY <2>9, <3>1, <3>2
  <2>11. QED
    BY <2>3, <2>10
<1>3. QED
  BY <1>0, <1>2

(* A part of a set does not sum up to more.                                 *)
LEMMA SumOfPart ==
  ASSUME NEW S, IsFiniteSet(S), NEW f, \A x \in S : f[x] \in Nat, NEW g, IsSum(g, f, S)
  PROVE  \A s \in SUBSET S : \A part \in SUBSET s : g[part] <= g[s]
<1> DEFINE Right(s) == \A part \in SUBSET s : g[part] <= g[s]
           Bad == { n \in Nat : \E s \in SUBSET S : Cardinality(s) = n /\ ~Right(s) }
<1>0. \A s \in SUBSET S : g[s] \in Nat /\ Cardinality(s) \in Nat /\ IsFiniteSet(s)
  BY SumIsNatural, FS_Subset, FS_CardinalityType
<1>1. ASSUME Bad # {} PROVE FALSE
  <2>1. PICK n \in Bad : \A i \in Bad : n <= i
    BY <1>1, LeastExists
  <2>2. PICK s \in SUBSET S : Cardinality(s) = n /\ ~Right(s)
    BY <2>1
  <2>3. PICK part \in SUBSET s : ~(g[part] <= g[s])
    BY <2>2
  <2>4. PICK x \in s : x \notin part
    <3>1. part # s
      BY <1>0, <2>3
    <3>2. QED
      BY <3>1
  <2>5. s \ {x} \in SUBSET S /\ n - 1 \in Nat /\ Cardinality(s \ {x}) = n - 1
    <3>1. Cardinality(s \ {x}) = Cardinality(s) - 1 /\ s \ {x} \in SUBSET S
      BY <1>0, FS_RemoveElement
    <3>2. Cardinality(s \ {x}) \in Nat /\ Cardinality(s) \in Nat
      BY <1>0, <3>1
    <3>3. QED
      BY <2>2, <3>1, <3>2
  <2>6. Right(s \ {x})
    <3>1. n - 1 \notin Bad
      <4>1. n \in Nat
        BY <2>1
      <4> HIDE DEF Bad
      <4> QED
        BY <2>1, <2>5, <4>1
    <3>2. QED
      BY <2>5, <3>1
  <2>7. part \in SUBSET (s \ {x}) /\ part \in SUBSET S
    BY <2>4
  <2>8. g[part] <= g[s \ {x}]
    BY <2>6, <2>7
  <2>9. g[s] = f[x] + g[s \ {x}]
    BY SumWithout
  <2>10. f[x] \in Nat /\ g[part] \in Nat /\ g[s \ {x}] \in Nat
    BY <1>0, <2>5, <2>7
  <2>11. QED
    BY <2>3, <2>8, <2>9, <2>10
<1>2. QED
  BY <1>0, <1>1

(* No summand is more than the sum.                                         *)
LEMMA SumOfMember ==
  ASSUME NEW S, IsFiniteSet(S), NEW f, \A x \in S : f[x] \in Nat, NEW g, IsSum(g, f, S)
  PROVE  g[S] \in Nat /\ \A x \in S : f[x] <= g[S]
<1>1. \A s \in SUBSET S : g[s] \in Nat
  BY SumIsNatural
<1>2. ASSUME NEW x \in S PROVE f[x] <= g[S]
  <2>1. S \in SUBSET S /\ S \ {x} \in SUBSET S
    OBVIOUS
  <2>2. g[S] = f[x] + g[S \ {x}]
    BY <2>1, SumWithout
  <2>3. PICK rest \in Nat, one \in Nat : rest = g[S \ {x}] /\ one = f[x]
    BY <1>1, <2>1
  <2>4. QED
    BY <2>2, <2>3
<1>3. QED
  BY <1>1, <1>2

(* Two sums agree where both are defined.                                   *)
LEMMA SumsAgree ==
  ASSUME NEW S, IsFiniteSet(S), NEW T, S \subseteq T, NEW f, NEW k, \A x \in S : f[x] = k[x],
         NEW g, IsSum(g, f, S), NEW h, IsSum(h, k, T)
  PROVE  g[S] = h[S]
<1> DEFINE Bad == { n \in Nat : \E s \in SUBSET S : Cardinality(s) = n /\ g[s] # h[s] }
<1>0. \A s \in SUBSET S : Cardinality(s) \in Nat
  BY FS_Subset, FS_CardinalityType
<1>1. \A s \in SUBSET S : g[s] = Summed(g, f, s) /\ h[s] = Summed(h, k, s)
  BY DEF IsSum
<1>2. ASSUME Bad # {} PROVE FALSE
  <2>1. PICK n \in Bad : \A i \in Bad : n <= i
    BY <1>2, LeastExists
  <2>2. PICK s \in SUBSET S : Cardinality(s) = n /\ g[s] # h[s]
    BY <2>1
  <2>3. s # {}
    BY <1>1, <2>2 DEF Summed
  <2>4. /\ Rest(s) \in SUBSET S /\ First(s) \in S
        /\ n \in Nat /\ n - 1 \in Nat /\ Cardinality(Rest(s)) = n - 1
    <3>1. First(s) \in s /\ Rest(s) \in SUBSET S /\ Cardinality(Rest(s)) = Cardinality(s) - 1
      BY <2>3, RestIsSmaller
    <3>2. Cardinality(Rest(s)) \in Nat /\ Cardinality(s) \in Nat
      BY <1>0, <3>1
    <3>3. QED
      BY <2>2, <3>1, <3>2
  <2>5. g[Rest(s)] = h[Rest(s)]
    <3>1. n - 1 \notin Bad
      <4> HIDE DEF Bad
      <4> QED
        BY <2>1, <2>4
    <3>2. QED
      BY <2>4, <3>1
  <2>6. QED
    BY <1>1, <2>2, <2>3, <2>4, <2>5 DEF Summed
<1>3. QED
  BY <1>0, <1>2

LEMMA SumMonotone ==
  ASSUME NEW T, IsFiniteSet(T), NEW S, S \subseteq T, NEW f, NEW k, \A x \in S : f[x] = k[x],
         \A x \in T : k[x] \in Nat, NEW g, IsSum(g, f, S), NEW h, IsSum(h, k, T)
  PROVE  g[S] <= h[T]
<1>1. IsFiniteSet(S)
  BY FS_Subset
<1>2. g[S] = h[S]
  BY <1>1, SumsAgree
<1>3. h[S] <= h[T]
  BY SumOfPart
<1>4. QED
  BY <1>2, <1>3

LEMMA ChargeIsSum ==
  ASSUME NEW S, IsFiniteSet(S)
  PROVE  \E k : /\ IsSum(k, [d \in S |-> SingleDeduction(d)], S)
                /\ MapThenSumSet(SingleDeduction, S) = k[S]
<1> DEFINE f == [d \in S |-> SingleDeduction(d)]
           Solves(g) == g = [s \in SUBSET S |-> IF s = {} THEN 0
                                                ELSE SingleDeduction(First(s)) + g[s \ {First(s)}]]
<1>1. MapThenSumSet(SingleDeduction, S) = (CHOOSE g : Solves(g))[S]
  BY DEF MapThenSumSet, MapThenFoldSet, First
<1>2. ASSUME NEW g PROVE Solves(g) <=> IsSum(g, f, S)
  <2> DEFINE Left == [s \in SUBSET S |-> IF s = {} THEN 0
                                         ELSE SingleDeduction(First(s)) + g[s \ {First(s)}]]
             Right == [s \in SUBSET S |-> Summed(g, f, s)]
  <2>1. \A s \in SUBSET S : s # {} => First(s) \in S
    BY RestIsSmaller
  <2>2. Left = Right
    BY <2>1 DEF Summed, Rest
  <2>3. QED
    BY <2>2 DEF IsSum
<1>3. PICK k : Solves(k) /\ (CHOOSE g : Solves(g)) = k
  BY <1>2, SumExists
<1>4. IsSum(k, f, S)
  <2> HIDE DEF Solves
  <2> QED
    BY <1>2, <1>3
<1>5. QED
  BY <1>1, <1>3, <1>4

LEMMA ChargeSum ==
  ASSUME NEW S, IsFiniteSet(S), \A d \in S : SingleDeduction(d) \in Nat
  PROVE  /\ MapThenSumSet(SingleDeduction, S) \in Nat
         /\ (\A d \in S : SingleDeduction(d) = 0) => MapThenSumSet(SingleDeduction, S) = 0
<1> DEFINE f == [d \in S |-> SingleDeduction(d)]
<1>1. PICK k : IsSum(k, f, S) /\ MapThenSumSet(SingleDeduction, S) = k[S]
  BY ChargeIsSum
<1>2. k[S] \in Nat /\ ((\A x \in S : f[x] = 0) => k[S] = 0)
  BY <1>1, SumIsNatural
<1>3. QED
  BY <1>1, <1>2

LEMMA ChargeMonotone ==
  ASSUME NEW T, IsFiniteSet(T), NEW S, S \subseteq T, \A d \in T : SingleDeduction(d) \in Nat
  PROVE  MapThenSumSet(SingleDeduction, S) <= MapThenSumSet(SingleDeduction, T)
<1> DEFINE f == [d \in S |-> SingleDeduction(d)]
           k == [d \in T |-> SingleDeduction(d)]
<1>1. IsFiniteSet(S)
  BY FS_Subset
<1>2. PICK g : IsSum(g, f, S) /\ MapThenSumSet(SingleDeduction, S) = g[S]
  BY <1>1, ChargeIsSum
<1>3. PICK h : IsSum(h, k, T) /\ MapThenSumSet(SingleDeduction, T) = h[T]
  BY ChargeIsSum
<1>4. (\A x \in S : f[x] = k[x]) /\ (\A x \in T : k[x] \in Nat)
  OBVIOUS
<1>5. g[S] <= h[T]
  <2> HIDE DEF f, k
  <2> QED
    BY <1>2, <1>3, <1>4, SumMonotone
<1>6. QED
  BY <1>2, <1>3, <1>5

LEMMA WritingIsSum ==
  ASSUME NEW S, IsFiniteSet(S)
  PROVE  \E k : /\ IsSum(k, [d \in S |-> Writing(d)], S)
                /\ MapThenSumSet(Writing, S) = k[S]
<1> DEFINE f == [d \in S |-> Writing(d)]
           Solves(g) == g = [s \in SUBSET S |-> IF s = {} THEN 0
                                                ELSE Writing(First(s)) + g[s \ {First(s)}]]
<1>1. MapThenSumSet(Writing, S) = (CHOOSE g : Solves(g))[S]
  BY DEF MapThenSumSet, MapThenFoldSet, First
<1>2. ASSUME NEW g PROVE Solves(g) <=> IsSum(g, f, S)
  <2> DEFINE Left == [s \in SUBSET S |-> IF s = {} THEN 0
                                         ELSE Writing(First(s)) + g[s \ {First(s)}]]
             Right == [s \in SUBSET S |-> Summed(g, f, s)]
  <2>1. \A s \in SUBSET S : s # {} => First(s) \in S
    BY RestIsSmaller
  <2>2. Left = Right
    BY <2>1 DEF Summed, Rest
  <2>3. QED
    BY <2>2 DEF IsSum
<1>3. PICK k : Solves(k) /\ (CHOOSE g : Solves(g)) = k
  BY <1>2, SumExists
<1>4. IsSum(k, f, S)
  <2> HIDE DEF Solves
  <2> QED
    BY <1>2, <1>3
<1>5. QED
  BY <1>1, <1>3, <1>4

LEMMA WritingSum ==
  ASSUME NEW S, IsFiniteSet(S), \A d \in S : Writing(d) \in Nat
  PROVE  /\ MapThenSumSet(Writing, S) \in Nat
         /\ (\A d \in S : Writing(d) = 0) => MapThenSumSet(Writing, S) = 0
<1> DEFINE f == [d \in S |-> Writing(d)]
<1>1. PICK k : IsSum(k, f, S) /\ MapThenSumSet(Writing, S) = k[S]
  BY WritingIsSum
<1>2. k[S] \in Nat /\ ((\A x \in S : f[x] = 0) => k[S] = 0)
  BY <1>1, SumIsNatural
<1>3. QED
  BY <1>1, <1>2

LEMMA WritingMonotone ==
  ASSUME NEW T, IsFiniteSet(T), NEW S, S \subseteq T, \A d \in T : Writing(d) \in Nat
  PROVE  MapThenSumSet(Writing, S) <= MapThenSumSet(Writing, T)
<1> DEFINE f == [d \in S |-> Writing(d)]
           k == [d \in T |-> Writing(d)]
<1>1. IsFiniteSet(S)
  BY FS_Subset
<1>2. PICK g : IsSum(g, f, S) /\ MapThenSumSet(Writing, S) = g[S]
  BY <1>1, WritingIsSum
<1>3. PICK h : IsSum(h, k, T) /\ MapThenSumSet(Writing, T) = h[T]
  BY WritingIsSum
<1>4. (\A x \in S : f[x] = k[x]) /\ (\A x \in T : k[x] \in Nat)
  OBVIOUS
<1>5. g[S] <= h[T]
  <2> HIDE DEF f, k
  <2> QED
    BY <1>2, <1>3, <1>4, SumMonotone
<1>6. QED
  BY <1>2, <1>3, <1>5

-----------------------------------------------------------------------------
(* Scores *)

(* What a report must say for its charge to be a number of points.          *)
Chargeable(d)  == d.type \in Kinds /\ d.level \in Int /\ d.suspect \in BOOLEAN
ChargeableSet(ds) == IsFiniteSet(ds) /\ \A d \in ds : Chargeable(d)

LEMMA TierType ==
  ASSUME NEW kind \in DOMAIN Matrix, NEW ratio
  PROVE  Tier(kind, ratio) \in Nat
<1>1. DOMAIN Matrix = { "SCRATCH", "TEAR", "CRUSH", "STICKER", "SPINE", "BINDING", "STAIN",
                        "WEAR", "SIGNATURE", "STAMP", "MISC" }
  BY DEF Matrix
<1>2. Matrix[kind][1] \in Nat /\ Matrix[kind][2] \in Nat /\ Matrix[kind][3] \in Nat
  BY <1>1 DEF Matrix
<1>3. QED
  BY <1>2 DEF Tier

LEMMA WeightedType ==
  ASSUME NEW points \in Nat, NEW d
  PROVE  Weighted(points, d) \in Nat
BY DEF Weighted

LEMMA SingleDeductionType ==
  ASSUME NEW d, Chargeable(d)
  PROVE  SingleDeduction(d) \in Nat /\ (d.suspect => SingleDeduction(d) = 0)
<1>1. d.type \in Kinds /\ d.level \in Int /\ d.suspect \in BOOLEAN
  BY DEF Chargeable
<1>2. CASE d.type \in {"WEAR", "DOODLE", "WET"} \/ d.suspect
  BY <1>2 DEF SingleDeduction
<1>3. CASE ~(d.type \in {"WEAR", "DOODLE", "WET"} \/ d.suspect)
  <2>1. CASE d.type = "STAIN"
    <3>1. "STAIN" \in DOMAIN Matrix
      BY DEF Matrix
    <3>2. SingleDeduction(d) = Tier("STAIN", EffectiveRatio(d, 5))
      BY <1>3, <2>1 DEF SingleDeduction
    <3>3. QED
      BY <1>3, <3>1, <3>2, TierType
  <2>2. CASE d.type = "DISCOLOR"
    <3>1. Least(3, Most(1, d.level)) \in 1..3
      BY <1>1 DEF Least, Most
    <3>2. SingleDeduction(d) = DiscolorByLevel[Least(3, Most(1, d.level))]
      BY <1>3, <2>2 DEF SingleDeduction
    <3>3. \A i \in 1..3 : DiscolorByLevel[i] \in Nat
      BY DEF DiscolorByLevel
    <3>4. QED
      BY <1>3, <3>1, <3>2, <3>3
  <2>3. CASE d.type \notin {"STAIN", "DISCOLOR"}
    <3>1. d.type \in DOMAIN Matrix
      BY <1>1, <1>3, <2>3 DEF Kinds
    <3>2. SingleDeduction(d) = Weighted(Tier(d.type, EffectiveRatio(d, 5)), d)
      BY <1>3, <2>3 DEF SingleDeduction
    <3>3. QED
      BY <1>3, <3>1, <3>2, TierType, WeightedType
  <2>4. QED
    BY <2>1, <2>2, <2>3
<1>4. QED
  BY <1>2, <1>3

(* There are nine places a worn corner can be.                              *)
LEMMA CornersAreFew ==
  ASSUME NEW ds
  PROVE  IsFiniteSet(WornCorners(ds)) /\ Cardinality(WornCorners(ds)) \in Nat
<1> DEFINE Places == {"TOP", "MID", "BOTTOM"} \X {"L", "R", "SIDE"}
<1>1. IsFiniteSet(Places)
  <2>1. ASSUME NEW x, NEW y, NEW z PROVE IsFiniteSet({x, y, z})
    <3>1. IsFiniteSet({x} \cup {y})
      BY FS_Singleton, FS_AddElement
    <3>2. IsFiniteSet(({x} \cup {y}) \cup {z})
      BY <3>1, FS_AddElement
    <3>3. ({x} \cup {y}) \cup {z} = {x, y, z}
      OBVIOUS
    <3>4. QED
      BY <3>2, <3>3
  <2>2. QED
    BY <2>1, FS_Product
<1>2. WornCorners(ds) \subseteq Places
  <2>1. \A d : RowOf(d) \in {"TOP", "MID", "BOTTOM"} /\ SideOf(d) \in {"L", "R", "SIDE"}
    BY DEF RowOf, SideOf
  <2>2. CoverCorners(ds) \subseteq Places
    BY <2>1 DEF CoverCorners
  <2>3. LooseRows(ds) \subseteq {"TOP", "MID", "BOTTOM"}
    BY <2>1 DEF LooseRows
  <2>4. QED
    BY <2>2, <2>3 DEF WornCorners
<1>3. IsFiniteSet(WornCorners(ds))
  BY <1>1, <1>2, FS_Subset
<1>4. QED
  BY <1>3, FS_CardinalityType

LEMMA WearDeductionType ==
  ASSUME NEW ds
  PROVE  WearDeduction(ds) \in Nat /\ (Worn(ds) = {} => WearDeduction(ds) = 0)
<1>1. "WEAR" \in DOMAIN Matrix
  BY DEF Matrix
<1>2. PICK tier \in Nat : tier = Tier("WEAR", WearRatio(ds))
  BY <1>1, TierType
<1>3. PICK corners \in Nat : corners = Cardinality(WornCorners(ds))
  BY CornersAreFew
<1>4. Least(EdgeWearCap, tier + (Most(1, corners) - 1) * EdgeWearStep) \in Nat
  BY <1>2, <1>3 DEF Least, Most, EdgeWearCap, EdgeWearStep
<1>5. QED
  BY <1>2, <1>3, <1>4 DEF WearDeduction

LEMMA DoodleDeductionType ==
  ASSUME NEW ds, ChargeableSet(ds), NEW workbook \in BOOLEAN
  PROVE  /\ DoodleDeduction(ds, workbook) \in Nat
         /\ (\A d \in ds : d.suspect) => DoodleDeduction(ds, workbook) = 0
<1> DEFINE written == { d \in ds : d.type = "DOODLE" /\ ~d.suspect }
           sum == MapThenSumSet(Writing, written)
<1>1. IsFiniteSet(written)
  BY FS_Subset DEF ChargeableSet
<1>2. \A d \in written : Writing(d) \in Nat
  BY WeightedType DEF Writing
<1>3. sum \in Nat /\ (written = {} => sum = 0)
  <2> HIDE DEF written
  <2> QED
    BY <1>1, <1>2, WritingSum
<1>4. (\A d \in ds : d.suspect) => written = {}
  OBVIOUS
<1>5. DoodleDeduction(ds, workbook)
        = IF workbook THEN IF written = {} THEN 0 ELSE WorkbookCap ELSE sum
  BY DEF DoodleDeduction
<1>6. QED
  <2> HIDE DEF written, sum
  <2> QED
    BY <1>3, <1>4, <1>5 DEF WorkbookCap

(* A score is a percentage; flaws that were all dismissed cost nothing.     *)
LEMMA ScoreIsBounded ==
  ASSUME NEW ds, ChargeableSet(ds), NEW workbook \in BOOLEAN
  PROVE  /\ Score(ds, workbook) \in 0..100
         /\ (\A d \in ds : d.suspect) => Score(ds, workbook) = 100
<1>1. PICK wear \in Nat : wear = WearDeduction(ds) /\ (Worn(ds) = {} => wear = 0)
  BY WearDeductionType
<1>2. PICK doodle \in Nat : /\ doodle = DoodleDeduction(ds, workbook)
                            /\ (\A d \in ds : d.suspect) => doodle = 0
  BY DoodleDeductionType
<1>3. IsFiniteSet(ds)
        /\ \A d \in ds : SingleDeduction(d) \in Nat /\ (d.suspect => SingleDeduction(d) = 0)
  BY SingleDeductionType DEF ChargeableSet
<1>4. PICK single \in Nat : /\ single = MapThenSumSet(SingleDeduction, ds)
                            /\ (\A d \in ds : d.suspect) => single = 0
  BY <1>3, ChargeSum
<1>5. Deduction(ds, workbook) = wear + doodle + single
  BY <1>1, <1>2, <1>4 DEF Deduction
<1>6. Score(ds, workbook) = IF Fatal(ds) THEN 0 ELSE Most(0, 100 - (wear + doodle + single))
  BY <1>5 DEF Score
<1>7. (\A d \in ds : d.suspect) => ~Fatal(ds) /\ Worn(ds) = {}
  BY DEF Fatal, Worn
<1>8. QED
  BY <1>1, <1>2, <1>4, <1>6, <1>7 DEF Most

(* Every score has a grade, in whose band it lies.                          *)
LEMMA BandsAreSpans ==
  /\ DOMAIN Bands = {"MINT", "GOOD", "NORMAL", "REJECT"}
  /\ \A g \in DOMAIN Bands :
       Bands[g][1] \in 0..100 /\ Bands[g][2] \in 0..100 /\ Bands[g][1] <= Bands[g][2]
BY DEF Bands

LEMMA GradeOfScore ==
  ASSUME NEW score \in 0..100
  PROVE  /\ GradeOf(score) \in DOMAIN Bands
         /\ score >= 65 => GradeOf(score) # "REJECT"
         /\ score = 100 => GradeOf(score) = "MINT"
<1> DEFINE Fits(g) == Bands[g][1] <= score /\ score <= Bands[g][2]
<1>1. DOMAIN Bands = {"MINT", "GOOD", "NORMAL", "REJECT"}
  BY DEF Bands
<1>2. /\ Bands["MINT"] = << 95, 100 >> /\ Bands["GOOD"] = << 85, 94 >>
      /\ Bands["NORMAL"] = << 65, 84 >> /\ Bands["REJECT"] = << 0, 64 >>
  BY DEF Bands
<1>3. Fits("MINT") \/ Fits("GOOD") \/ Fits("NORMAL") \/ Fits("REJECT")
  BY <1>2
<1>4. /\ score >= 65 => ~Fits("REJECT")
      /\ score = 100 => ~Fits("GOOD") /\ ~Fits("NORMAL") /\ ~Fits("REJECT")
  BY <1>2
<1>5. GradeOf(score) = CHOOSE g \in DOMAIN Bands : Fits(g)
  BY DEF GradeOf, NoScore
<1>6. GradeOf(score) \in DOMAIN Bands /\ Fits(GradeOf(score))
  <2> HIDE DEF Fits
  <2> QED
    BY <1>1, <1>3, <1>5
<1>7. QED
  <2> HIDE DEF Fits
  <2> QED
    BY <1>1, <1>4, <1>6

(* A score is clamped into the band of the grade it is to stand for.        *)
LEMMA ClampFits ==
  ASSUME NEW score \in Int, NEW grade \in DOMAIN Bands
  PROVE  /\ ClampToGrade(score, grade) \in 0..100
         /\ Bands[grade][1] <= ClampToGrade(score, grade)
         /\ ClampToGrade(score, grade) <= Bands[grade][2]
<1>1. PICK low \in 0..100, high \in 0..100 :
        low = Bands[grade][1] /\ high = Bands[grade][2] /\ low <= high
  BY BandsAreSpans
<1>2. ClampToGrade(score, grade) = IF score = NoScore THEN high ELSE Most(low, Least(high, score))
  BY <1>1 DEF ClampToGrade
<1>3. PICK clamped \in 0..100 : clamped = ClampToGrade(score, grade) /\ low <= clamped /\ clamped <= high
  BY <1>1, <1>2 DEF Most, Least
<1>4. QED
  BY <1>1, <1>3

-----------------------------------------------------------------------------
(* Fewer reports cost no more *)

LEMMA BoundExists ==
  ASSUME NEW S, IsFiniteSet(S), NEW f, \A x \in S : f[x] \in Nat
  PROVE  \E n \in Nat : \A x \in S : f[x] <= n
<1>1. PICK g : IsSum(g, f, S)
  BY SumExists
<1>2. g[S] \in Nat /\ \A x \in S : f[x] <= g[S]
  BY <1>1, SumOfMember
<1>3. QED
  BY <1>2

LEMMA MaxFacts ==
  ASSUME NEW S, IsFiniteSet(S), S \subseteq Nat, S # {}
  PROVE  Max(S) \in S /\ \A x \in S : x <= Max(S)
<1> DEFINE f == [x \in S |-> x]
           Bounds == { u \in Nat : \A x \in S : x <= u }
<1>1. PICK n \in Nat : \A x \in S : f[x] <= n
  <2>1. \A x \in S : f[x] \in Nat
    OBVIOUS
  <2> HIDE DEF f
  <2>2. QED
    BY <2>1, BoundExists
<1>2. n \in Bounds
  BY <1>1
<1>3. PICK u \in Bounds : \A v \in Bounds : u <= v
  BY <1>2, LeastExists
<1>4. u \in S
  <2> SUFFICES ASSUME u \notin S PROVE FALSE
    OBVIOUS
  <2>1. u \in Nat /\ \A x \in S : x \in Nat /\ x <= u - 1
    BY <1>3
  <2>2. u - 1 \in Nat
    <3>1. PICK x \in S : x \in Nat /\ x <= u - 1
      BY <2>1
    <3>2. QED
      BY <2>1, <3>1
  <2>3. u - 1 \in Bounds
    BY <2>1, <2>2
  <2>4. u <= u - 1
    <3> HIDE DEF Bounds
    <3> QED
      BY <1>3, <2>3
  <2>5. QED
    BY <2>1, <2>4
<1>5. \A y \in S : u >= y
  BY <1>3
<1>6. Max(S) \in S /\ \A y \in S : Max(S) >= y
  BY <1>4, <1>5 DEF Max
<1>7. QED
  BY <1>6

(* What a report must say for the share it covers to be a number.           *)
Measured(d) == d.ratio \in Int /\ d.box \in {NoBox} \cup BoxType

LEMMA EffectiveRatioType ==
  ASSUME NEW d, Measured(d)
  PROVE  EffectiveRatio(d, 0) \in Nat
<1>1. CASE d.ratio > 0
  BY <1>1 DEF EffectiveRatio, Measured
<1>2. CASE ~(d.ratio > 0) /\ d.box \in BoxType
  <2>1. PICK area \in Int : area = Area(d.box)
    BY <1>2 DEF Area, BoxType
  <2>2. PICK percent \in Int : percent = Percent(area)
    BY <2>1 DEF Percent
  <2>3. EffectiveRatio(d, 0) \in {0, Most(1, percent)}
    BY <1>2, <2>1, <2>2 DEF EffectiveRatio
  <2>4. Most(1, percent) \in Nat
    BY <2>2 DEF Most
  <2>5. QED
    BY <2>3, <2>4
<1>3. CASE ~(d.ratio > 0) /\ d.box = NoBox
  BY <1>3 DEF EffectiveRatio, HasBox
<1>4. QED
  BY <1>1, <1>2, <1>3 DEF Measured

LEMMA WearRatioMonotone ==
  ASSUME NEW T, IsFiniteSet(T), \A d \in T : Measured(d), NEW S, S \subseteq T
  PROVE  WearRatio(S) \in Nat /\ WearRatio(T) \in Nat /\ WearRatio(S) <= WearRatio(T)
<1> DEFINE Shares(ds) == {0} \cup { EffectiveRatio(d, 0) : d \in Worn(ds) }
           f == [d \in Worn(T) |-> EffectiveRatio(d, 0)]
<1>1. Worn(S) \subseteq Worn(T) /\ Worn(T) \subseteq T
  BY DEF Worn
<1>2. IsFiniteSet({ f[d] : d \in Worn(T) })
  <2>1. IsFiniteSet(Worn(T))
    BY <1>1, FS_Subset
  <2> HIDE DEF f
  <2>2. QED
    BY <2>1, ImageIsFinite
<1>3. { f[d] : d \in Worn(T) } = { EffectiveRatio(d, 0) : d \in Worn(T) }
  OBVIOUS
<1>4. IsFiniteSet(Shares(T))
  BY <1>2, <1>3, FS_AddElement
<1>5. Shares(T) \subseteq Nat /\ Shares(S) \subseteq Shares(T)
  BY <1>1, EffectiveRatioType
<1>6. IsFiniteSet(Shares(S)) /\ 0 \in Shares(S) /\ 0 \in Shares(T)
  BY <1>4, <1>5, FS_Subset
<1>7. WearRatio(S) = Max(Shares(S)) /\ WearRatio(T) = Max(Shares(T))
  BY DEF WearRatio
<1>8. QED
  <2> HIDE DEF Shares
  <2>1. Max(Shares(S)) \in Shares(S)
    BY <1>4, <1>5, <1>6, MaxFacts
  <2>2. Max(Shares(T)) \in Shares(T) /\ \A x \in Shares(T) : x <= Max(Shares(T))
    BY <1>4, <1>5, <1>6, MaxFacts
  <2>3. QED
    BY <1>5, <1>7, <2>1, <2>2

(* A corner that is worn in the fewer reports is one in the more, or a      *)
(* corner of its row is seen there on a cover, and not in the fewer.        *)
LEMMA CornersMonotone ==
  ASSUME NEW T, NEW S, S \subseteq T
  PROVE  Cardinality(WornCorners(S)) <= Cardinality(WornCorners(T))
<1> DEFINE Of(c) == IF c \in WornCorners(T) THEN c
                    ELSE CHOOSE d \in CoverCorners(T) : d[1] = c[1]
           g == [c \in WornCorners(S) |-> Of(c)]
           Sides == {"L", "R", "SIDE"}
<1>1. CoverCorners(S) \subseteq CoverCorners(T) /\ LooseRows(S) \subseteq LooseRows(T)
  <2>1. Worn(S) \subseteq Worn(T)
    BY DEF Worn
  <2>2. QED
    BY <2>1 DEF CoverCorners, LooseRows
<1>2. CoverCorners(T) \subseteq WornCorners(T)
  BY DEF WornCorners
<1>3. \A c \in CoverCorners(T) : c = << c[1], c[2] >> /\ c[2] # "SIDE"
  BY DEF CoverCorners, SideOf
<1>4. ASSUME NEW c \in WornCorners(S), c \notin WornCorners(T)
      PROVE  /\ c = << c[1], "SIDE" >> /\ c[1] \notin { d[1] : d \in CoverCorners(S) }
             /\ Of(c) \in CoverCorners(T) /\ Of(c)[1] = c[1]
  <2>1. c \notin CoverCorners(S)
    BY <1>1, <1>2, <1>4
  <2>2. PICK r \in LooseRows(S) \ { d[1] : d \in CoverCorners(S) } : c = << r, "SIDE" >>
    BY <1>4, <2>1 DEF WornCorners
  <2>3. r \in LooseRows(T) /\ r \in { d[1] : d \in CoverCorners(T) }
    <3>1. r \in LooseRows(T)
      BY <1>1, <2>2
    <3>2. r \notin LooseRows(T) \ { d[1] : d \in CoverCorners(T) }
      BY <1>4, <2>2 DEF WornCorners
    <3>3. QED
      BY <3>1, <3>2
  <2>4. \E d \in CoverCorners(T) : d[1] = c[1]
    BY <2>2, <2>3
  <2>5. Of(c) \in CoverCorners(T) /\ Of(c)[1] = c[1]
    BY <1>4, <2>4
  <2>6. QED
    BY <2>2, <2>5
<1>5. \A c \in WornCorners(S) : c \in CoverCorners(S) \/ c = << c[1], "SIDE" >>
  BY DEF WornCorners
<1>6. ASSUME NEW c \in WornCorners(S), NEW d \in WornCorners(S), Of(c) = Of(d)
      PROVE  c = d
  <2>1. CASE c \in WornCorners(T) /\ d \in WornCorners(T)
    BY <1>6, <2>1
  <2>2. CASE c \notin WornCorners(T) /\ d \notin WornCorners(T)
    <3>1. c = << c[1], "SIDE" >> /\ d = << d[1], "SIDE" >> /\ Of(c)[1] = c[1] /\ Of(d)[1] = d[1]
      BY <1>4, <2>2
    <3>2. c[1] = d[1]
      BY <1>6, <3>1
    <3>3. QED
      BY <3>1, <3>2
  <2>3. ASSUME NEW x \in WornCorners(S), NEW y \in WornCorners(S), Of(x) = Of(y),
               x \notin WornCorners(T), y \in WornCorners(T)
        PROVE  FALSE
    <3>1. y = Of(x) /\ Of(x) \in CoverCorners(T) /\ Of(x)[1] = x[1]
      BY <1>4, <2>3
    <3>2. y \in CoverCorners(S)
      BY <1>3, <1>5, <3>1
    <3>3. x[1] \notin { e[1] : e \in CoverCorners(S) }
      BY <1>4, <2>3
    <3>4. QED
      BY <3>1, <3>2, <3>3
  <2>4. QED
    BY <1>6, <2>1, <2>2, <2>3
<1>7. g \in Injection(WornCorners(S), WornCorners(T))
  <2>1. \A c \in WornCorners(S) : Of(c) \in WornCorners(T)
    BY <1>2, <1>4
  <2> HIDE DEF Of
  <2>2. QED
    BY <1>6, <2>1 DEF Injection, IsInjective
<1>8. QED
  <2> HIDE DEF g
  <2>1. IsFiniteSet(WornCorners(T))
    BY CornersAreFew
  <2>2. QED
    BY <1>7, <2>1, FS_Injection, CornersAreFew

LEMMA TierMonotone ==
  ASSUME NEW a \in Nat, NEW b \in Nat, a <= b
  PROVE  Tier("WEAR", a) \in Nat /\ Tier("WEAR", b) \in Nat /\ Tier("WEAR", a) <= Tier("WEAR", b)
<1>1. Matrix["WEAR"] = << 3, 5, 10 >>
  BY DEF Matrix
<1>2. \A x : Tier("WEAR", x) = << 3, 5, 10 >>[IF x < 5 THEN 1 ELSE IF x < 15 THEN 2 ELSE 3]
  BY <1>1 DEF Tier
<1>3. \A x \in Nat : Tier("WEAR", x) = IF x < 5 THEN 3 ELSE IF x < 15 THEN 5 ELSE 10
  BY <1>2
<1>4. QED
  BY <1>3

LEMMA WearDeductionMonotone ==
  ASSUME NEW T, IsFiniteSet(T), \A d \in T : Measured(d), NEW S, S \subseteq T
  PROVE  WearDeduction(S) <= WearDeduction(T)
<1>1. PICK low \in Nat, high \in Nat :
        low = Tier("WEAR", WearRatio(S)) /\ high = Tier("WEAR", WearRatio(T)) /\ low <= high
  BY WearRatioMonotone, TierMonotone
<1>2. PICK few \in Nat, many \in Nat :
        /\ few = Cardinality(WornCorners(S)) /\ many = Cardinality(WornCorners(T)) /\ few <= many
  BY CornersAreFew, CornersMonotone
<1>3. Worn(T) = {} => Worn(S) = {}
  BY DEF Worn
<1>4. Least(15, low + (Most(1, few) - 1) * 2) <= Least(15, high + (Most(1, many) - 1) * 2)
        /\ Least(15, high + (Most(1, many) - 1) * 2) \in Nat
  BY <1>1, <1>2 DEF Least, Most
<1>5. \A ds : WearDeduction(ds)
        = IF Worn(ds) = {} THEN 0
          ELSE Least(15, Tier("WEAR", WearRatio(ds)) + (Most(1, Cardinality(WornCorners(ds))) - 1) * 2)
  BY DEF WearDeduction, EdgeWearCap, EdgeWearStep
<1>6. /\ WearDeduction(S) = IF Worn(S) = {} THEN 0 ELSE Least(15, low + (Most(1, few) - 1) * 2)
      /\ WearDeduction(T) = IF Worn(T) = {} THEN 0 ELSE Least(15, high + (Most(1, many) - 1) * 2)
  BY <1>1, <1>2, <1>5
<1>7. QED
  BY <1>3, <1>4, <1>6

LEMMA DoodleDeductionMonotone ==
  ASSUME NEW T, ChargeableSet(T), NEW S, S \subseteq T, NEW plain \in BOOLEAN, ~plain
  PROVE  DoodleDeduction(S, plain) <= DoodleDeduction(T, plain)
<1> DEFINE Written(ds) == { d \in ds : d.type = "DOODLE" /\ ~d.suspect }
<1>1. IsFiniteSet(Written(T)) /\ Written(S) \subseteq Written(T)
  BY FS_Subset DEF ChargeableSet
<1>2. \A d \in Written(T) : Writing(d) \in Nat
  BY WeightedType DEF Writing
<1>3. \A ds : DoodleDeduction(ds, plain)
               = MapThenSumSet(Writing, Written(ds))
  BY DEF DoodleDeduction
<1>4. QED
  <2> HIDE DEF Written
  <2> QED
    BY <1>1, <1>2, <1>3, WritingMonotone

(* Who rules reports out, and none but that, is shown no lower score.       *)
LEMMA ScoreMonotone ==
  ASSUME NEW T, ChargeableSet(T), \A d \in T : Measured(d), NEW S, S \subseteq T,
         NEW plain \in BOOLEAN, ~plain
  PROVE  Score(S, plain) >= Score(T, plain)
<1>1. ChargeableSet(S) /\ IsFiniteSet(T)
  BY FS_Subset DEF ChargeableSet
<1>2. PICK wearS \in Nat, wearT \in Nat :
        wearS = WearDeduction(S) /\ wearT = WearDeduction(T) /\ wearS <= wearT
  BY <1>1, WearDeductionType, WearDeductionMonotone
<1>3. PICK writS \in Nat, writT \in Nat :
        writS = DoodleDeduction(S, plain) /\ writT = DoodleDeduction(T, plain) /\ writS <= writT
  BY <1>1, DoodleDeductionType, DoodleDeductionMonotone
<1>4. \A d \in T : SingleDeduction(d) \in Nat
  BY SingleDeductionType DEF ChargeableSet
<1>5. PICK restS \in Nat, restT \in Nat :
        /\ restS = MapThenSumSet(SingleDeduction, S) /\ restT = MapThenSumSet(SingleDeduction, T)
        /\ restS <= restT
  <2>1. IsFiniteSet(S) /\ \A d \in S : SingleDeduction(d) \in Nat
    BY <1>1, <1>4 DEF ChargeableSet
  <2>2. MapThenSumSet(SingleDeduction, S) \in Nat
    BY <2>1, ChargeSum
  <2>3. MapThenSumSet(SingleDeduction, T) \in Nat
    BY <1>1, <1>4, ChargeSum
  <2>4. MapThenSumSet(SingleDeduction, S) <= MapThenSumSet(SingleDeduction, T)
    BY <1>1, <1>4, ChargeMonotone
  <2>5. QED
    BY <2>2, <2>3, <2>4
<1>6. CASE Fatal(T)
  <2>1. Score(T, plain) = 0
    BY <1>6 DEF Score
  <2>2. PICK high \in 0..100 : high = Score(S, plain)
    BY <1>1, ScoreIsBounded
  <2>3. high >= 0
    BY <2>2
  <2>4. QED
    BY <2>1, <2>2, <2>3
<1>7. CASE ~Fatal(T)
  <2>1. ~Fatal(S)
    BY <1>7 DEF Fatal
  <2>2. /\ Score(S, plain) = Most(0, 100 - (wearS + writS + restS))
        /\ Score(T, plain) = Most(0, 100 - (wearT + writT + restT))
    BY <1>2, <1>3, <1>5, <1>7, <2>1 DEF Score, Deduction
  <2>3. PICK few \in Nat, many \in Nat :
          few = wearS + writS + restS /\ many = wearT + writT + restT /\ few <= many
    <3>1. /\ wearS + writS + restS \in Nat /\ wearT + writT + restT \in Nat
          /\ wearS + writS + restS <= wearT + writT + restT
      BY <1>2, <1>3, <1>5
    <3>2. QED
      BY <3>1
  <2>4. Most(0, 100 - few) >= Most(0, 100 - many)
    BY <2>3 DEF Most
  <2>5. QED
    BY <2>2, <2>3, <2>4
<1>8. QED
  BY <1>6, <1>7

(* The workbook's cap is the most that writing costs, or lowers its charge. *)
LEMMA CapCosts ==
  ASSUME NEW ds, ChargeableSet(ds), NEW plain \in BOOLEAN, ~plain, NEW workbook \in BOOLEAN, workbook,
         DoodleDeduction(ds, plain) <= WorkbookCap
  PROVE  Score(ds, plain) >= Score(ds, workbook)
<1> DEFINE written == { d \in ds : d.type = "DOODLE" /\ ~d.suspect }
<1>1. PICK wear \in Nat : wear = WearDeduction(ds)
  BY WearDeductionType
<1>2. PICK rest \in Nat : rest = MapThenSumSet(SingleDeduction, ds)
  <2>1. IsFiniteSet(ds) /\ \A d \in ds : SingleDeduction(d) \in Nat
    BY SingleDeductionType DEF ChargeableSet
  <2>2. QED
    BY <2>1, ChargeSum
<1>3. PICK paged \in Nat, capped \in Nat :
        /\ paged = DoodleDeduction(ds, plain) /\ capped = DoodleDeduction(ds, workbook) /\ paged <= capped
  <2> SUFFICES /\ DoodleDeduction(ds, plain) \in Nat /\ DoodleDeduction(ds, workbook) \in Nat
               /\ DoodleDeduction(ds, plain) <= DoodleDeduction(ds, workbook)
    OBVIOUS
  <2>1. CASE written = {}
    <3>1. DoodleDeduction(ds, workbook) = 0
      BY <2>1 DEF DoodleDeduction
    <3>2. DoodleDeduction(ds, plain) = 0
      <4>1. MapThenSumSet(Writing, {}) = 0
        BY FS_EmptySet, WritingSum
      <4>2. QED
        BY <2>1, <4>1 DEF DoodleDeduction
    <3>3. 0 \in Nat /\ 0 <= 0
      OBVIOUS
    <3>4. QED
      BY <3>1, <3>2, <3>3
  <2>2. CASE written # {}
    <3>1. DoodleDeduction(ds, workbook) = WorkbookCap /\ WorkbookCap \in Nat
      <4>1. DoodleDeduction(ds, workbook) = WorkbookCap
        BY <2>2 DEF DoodleDeduction
      <4>2. QED
        BY <4>1 DEF WorkbookCap
    <3>2. DoodleDeduction(ds, plain) \in Nat
      BY DoodleDeductionType
    <3>3. QED
      BY <3>1, <3>2
  <2>3. QED
    BY <2>1, <2>2
<1>4. CASE Fatal(ds)
  <2>1. Score(ds, plain) = 0 /\ Score(ds, workbook) = 0
    BY <1>4 DEF Score
  <2>2. 0 >= 0
    OBVIOUS
  <2>3. QED
    BY <2>1, <2>2
<1>5. CASE ~Fatal(ds)
  <2>1. /\ Score(ds, plain) = Most(0, 100 - (wear + paged + rest))
        /\ Score(ds, workbook) = Most(0, 100 - (wear + capped + rest))
    BY <1>1, <1>2, <1>3, <1>5 DEF Score, Deduction
  <2>2. PICK few \in Nat, many \in Nat :
          few = wear + paged + rest /\ many = wear + capped + rest /\ few <= many
    <3>1. /\ wear + paged + rest \in Nat /\ wear + capped + rest \in Nat
          /\ wear + paged + rest <= wear + capped + rest
      <4>1. paged <= capped
        BY <1>3
      <4>2. QED
        BY <4>1
    <3>2. QED
      BY <3>1
  <2>3. Most(0, 100 - few) >= Most(0, 100 - many)
    BY <2>2 DEF Most
  <2>4. QED
    BY <2>1, <2>2, <2>3
<1>6. QED
  BY <1>4, <1>5

=============================================================================
