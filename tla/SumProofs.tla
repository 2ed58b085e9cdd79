----------------------------- MODULE SumProofs -----------------------------
(***************************************************************************)
(* What the other proofs rest on: facts about numbers; what Total is, the  *)
(* number of coins, which are the pairs <<a, i>> of an account a and a     *)
(* number i of 1 .. f[a]; and that what a recursion defines exists and is  *)
(* unique, for the fold that Total is and for recursion along a sequence.  *)
(* Induction is by a smallest counterexample.                              *)
(***************************************************************************)
EXTENDS Sums, FiniteSetTheorems, WellFoundedInduction, TLAPS

-----------------------------------------------------------------------------
(* Numbers. *)

\* A set of numbers has a smallest one.
LEMMA SmallestExists ==
  ASSUME NEW T, T \subseteq Nat, T # {}
  PROVE  \E least \in T : \A y \in T : least <= y
<1>1. PICK least \in T : \A y \in T : ~(<<y, least>> \in OpToRel(<, Nat))
  <2>1. IsWellFoundedOn(OpToRel(<, Nat), Nat)
    BY NatLessThanWellFounded
  <2> QED BY <2>1, WFMin
<1>2. \A y \in T : least <= y
  <2> SUFFICES ASSUME NEW y \in T, y < least PROVE FALSE
    OBVIOUS
  <2>1. y \in Nat /\ least \in Nat
    OBVIOUS
  <2>2. <<y, least>> \in OpToRel(<, Nat)
    BY <2>1 DEF OpToRel
  <2> QED BY <1>1, <2>2
<1> QED BY <1>2

\* What is left of a division by a positive number, and what it is a part of.
LEMMA DivisionParts ==
  ASSUME NEW a \in Nat, NEW d \in Nat \ {0}
  PROVE  /\ a \div d \in Nat
         /\ a % d \in 0 .. d - 1
         /\ a = d * (a \div d) + (a % d)
BY Z3

\* The quotient is the only number of whole divisors that fits.
LEMMA QuotientUnique ==
  ASSUME NEW x \in Nat, NEW d \in Nat \ {0}, NEW q \in Nat, NEW r \in 0 .. d - 1,
         x = d * q + r
  PROVE  x \div d = q
BY Z3

\* Whole divisors come out of a division unchanged.
LEMMA WholeDivisors ==
  ASSUME NEW k \in Nat, NEW x \in Nat, NEW d \in Nat \ {0}
  PROVE  (d * k + x) \div d = k + x \div d
<1> DEFINE q == x \div d
           r == x % d
<1>1. q \in Nat /\ r \in 0 .. d - 1 /\ x = d * q + r
  BY DivisionParts
<1> HIDE DEF q, r
<1>2. d * k \in Nat /\ d * q \in Nat /\ d * (k + q) = d * k + d * q
  BY <1>1, Z3
<1>3. d * k + x = d * (k + q) + r
  BY <1>1, <1>2
<1>4. (d * k + x) \div d = k + q
  BY <1>1, <1>2, <1>3, QuotientUnique
<1> QED BY <1>4 DEF q

\* A number is monotone in a factor.
LEMMA Scaled ==
  ASSUME NEW k \in Nat, NEW x \in Nat, NEW y \in Nat, x <= y
  PROVE  k * x <= k * y /\ k * x \in Nat /\ k * y \in Nat
BY Z3

\* No part of an amount, computed as module Fees does, exceeds it.
LEMMA PartBound ==
  ASSUME NEW a \in Nat, NEW d \in Nat \ {0}, NEW b \in 0 .. d
  PROVE  (a \div d) * b + ((a % d) * b) \div d \in 0 .. a
<1> DEFINE q == a \div d
           r == a % d
           p == (r * b) \div d
<1>1. /\ q \in Nat /\ r \in 0 .. d - 1 /\ a = d * q + r
      /\ b \in Nat /\ b <= d
  <2>1. q \in Nat /\ r \in 0 .. d - 1 /\ a = d * q + r
    BY DivisionParts
  <2>2. b \in Nat /\ b <= d
    OBVIOUS
  <2> QED BY <2>1, <2>2
<1> HIDE DEF q, r
<1>2. q * b \in Nat /\ q * b <= q * d /\ q * d = d * q /\ d * q \in Nat
  BY <1>1, Scaled, Z3
<1>3. r * b \in Nat /\ r * b <= r * d /\ r * d = d * r /\ d * r \in Nat
  BY <1>1, Scaled, Z3
<1>4. p \in Nat /\ (r * b) % d \in 0 .. d - 1 /\ r * b = d * p + ((r * b) % d)
  BY <1>3, DivisionParts
<1> HIDE DEF p
<1>5. d * p \in Nat /\ d * p <= d * r
  BY <1>3, <1>4, Z3
<1>6. p <= r
  BY <1>1, <1>4, <1>5, Z3
<1>7. q * b + p \in 0 .. a
  BY <1>1, <1>2, <1>4, <1>6
<1> QED BY <1>7 DEF q, r, p

-----------------------------------------------------------------------------
(* Sums. *)

Picked(s) == CHOOSE x \in s : TRUE
Recursion(f, S, g) == [s \in SUBSET S |-> IF s = {} THEN 0 ELSE f[Picked(s)] + g[s \ {Picked(s)}]]
Fold(f, S) == CHOOSE g : g = Recursion(f, S, g)

CoinsOf(f, a) == {a} \X (1 .. f[a])
Coins(f, S) == UNION {CoinsOf(f, a) : a \in S}

Counts(f, S) == IsFiniteSet(S) /\ \A a \in S : f[a] \in Nat

LEMMA TotalIsFold ==
  ASSUME NEW f, NEW S
  PROVE  Total(f, S) = Fold(f, S)[S]
  BY DEF Total, MapThenSumSet, MapThenFoldSet, Fold, Recursion, Picked

\* A set of subsets has a smallest member.
LEMMA Smallest ==
  ASSUME NEW S, IsFiniteSet(S), NEW Q \in SUBSET SUBSET S, Q # {}
  PROVE  \E T \in Q : \A U \in Q : U \subseteq T => U = T
<1>1. Q \subseteq FiniteSubsetsOf(S)
  BY FS_FiniteSubsetsOfFinite
<1>2. PICK T \in Q : \A U \in Q : ~(<<U, T>> \in StrictSubsetOrdering(S))
  BY <1>1, FS_StrictSubsetOrderingWellFounded, WFMin
<1>3. \A U \in Q : U \subseteq T => U = T
  BY <1>2 DEF StrictSubsetOrdering
<1> QED BY <1>3

LEMMA CoinsOfOne ==
  ASSUME NEW f, NEW a, f[a] \in Nat
  PROVE  IsFiniteSet(CoinsOf(f, a)) /\ Cardinality(CoinsOf(f, a)) = f[a]
<1>1. IsFiniteSet({a}) /\ Cardinality({a}) = 1
  BY FS_Singleton
<1>2. IsFiniteSet(1 .. f[a]) /\ Cardinality(1 .. f[a]) = f[a]
  BY FS_Interval
<1>3. /\ IsFiniteSet({a} \X (1 .. f[a]))
      /\ Cardinality({a} \X (1 .. f[a])) = 1 * f[a]
  BY <1>1, <1>2, FS_Product
<1> QED BY <1>3 DEF CoinsOf

LEMMA CoinsFinite ==
  ASSUME NEW f, NEW S, Counts(f, S)
  PROVE  IsFiniteSet(Coins(f, S)) /\ Cardinality(Coins(f, S)) \in Nat
<1> DEFINE C == {CoinsOf(f, a) : a \in S}
           h == [a \in S |-> CoinsOf(f, a)]
<1>1. h \in Surjection(S, C)
  BY DEF Surjection
<1>2. IsFiniteSet(C)
  BY <1>1, FS_Surjection DEF Counts
<1>3. \A T \in C : IsFiniteSet(T)
  BY CoinsOfOne DEF Counts
<1>4. IsFiniteSet(UNION C)
  BY <1>2, <1>3, FS_UNION
<1> QED BY <1>4, FS_CardinalityType DEF Coins

\* One account more.
LEMMA CoinsAdd ==
  ASSUME NEW f, NEW S, NEW x, x \notin S, Counts(f, S), f[x] \in Nat
  PROVE  /\ Coins(f, S \cup {x}) = Coins(f, S) \cup CoinsOf(f, x)
         /\ Cardinality(Coins(f, S \cup {x})) = Cardinality(Coins(f, S)) + f[x]
<1>1. Coins(f, S \cup {x}) = Coins(f, S) \cup CoinsOf(f, x)
  BY DEF Coins
<1>2. Coins(f, S) \cap CoinsOf(f, x) = {}
  BY DEF Coins, CoinsOf
<1>3. /\ IsFiniteSet(Coins(f, S)) /\ Cardinality(Coins(f, S)) \in Nat
      /\ IsFiniteSet(CoinsOf(f, x)) /\ Cardinality(CoinsOf(f, x)) = f[x]
  BY CoinsFinite, CoinsOfOne
<1>4. Cardinality({}) = 0
  BY FS_EmptySet
<1> DEFINE A == Coins(f, S)
           B == CoinsOf(f, x)
<1>5. Cardinality(A \cup B) = Cardinality(A) + Cardinality(B)
  <2> HIDE DEF A, B
  <2>1. IsFiniteSet(A) /\ IsFiniteSet(B) /\ A \cap B = {} /\ Cardinality(A) \in Nat /\ Cardinality(B) \in Nat
    BY <1>2, <1>3 DEF A, B
  <2>2. Cardinality(A \cup B) = Cardinality(A) + Cardinality(B) - Cardinality(A \cap B)
    BY <2>1, FS_Union
  <2>3. Cardinality(A \cap B) = 0
    BY <1>4, <2>1
  <2> QED BY <2>1, <2>2, <2>3
<1> QED BY <1>1, <1>3, <1>5

LEMMA PickedIn == ASSUME NEW s, s # {} PROVE Picked(s) \in s
  BY DEF Picked

\* The number of coins satisfies the recursion.
LEMMA CoinsRecur ==
  ASSUME NEW f, NEW S, Counts(f, S)
  PROVE  LET g == [s \in SUBSET S |-> Cardinality(Coins(f, s))] IN g = Recursion(f, S, g)
<1> DEFINE g == [s \in SUBSET S |-> Cardinality(Coins(f, s))]
<1>1. ASSUME NEW s \in SUBSET S, s # {}
      PROVE  g[s] = f[Picked(s)] + g[s \ {Picked(s)}]
  <2> DEFINE x == Picked(s)
             r == s \ {x}
  <2>1. x \in s
    BY <1>1, PickedIn
  <2> HIDE DEF x
  <2>2. r \in SUBSET S /\ x \notin r /\ s = r \cup {x} /\ IsFiniteSet(r)
    BY <2>1, FS_Subset DEF Counts
  <2>3. Counts(f, r) /\ f[x] \in Nat
    BY <2>1, <2>2 DEF Counts
  <2> HIDE DEF r
  <2>4. Cardinality(Coins(f, s)) = Cardinality(Coins(f, r)) + f[x] /\ Cardinality(Coins(f, r)) \in Nat
    BY <2>2, <2>3, CoinsAdd, CoinsFinite
  <2>5. g[s] = Cardinality(Coins(f, s)) /\ g[r] = Cardinality(Coins(f, r))
    BY <2>2
  <2> HIDE DEF g
  <2>6. g[s] = f[x] + g[r]
    BY <2>3, <2>4, <2>5
  <2> QED BY <2>6 DEF r, x
<1>2. g[{}] = 0
  <2>1. Coins(f, {}) = {}
    BY DEF Coins
  <2> QED BY <2>1, FS_EmptySet
<1>3. g = [s \in SUBSET S |-> g[s]]
  OBVIOUS
<1>4. \A s \in SUBSET S : g[s] = IF s = {} THEN 0 ELSE f[Picked(s)] + g[s \ {Picked(s)}]
  BY <1>1, <1>2
<1> HIDE DEF g
<1>5. g = Recursion(f, S, g)
  BY <1>3, <1>4 DEF Recursion
<1> QED BY <1>5 DEF g

\* The sum is the number of coins.
LEMMA TotalCounts ==
  ASSUME NEW f, NEW S, Counts(f, S)
  PROVE  Total(f, S) = Cardinality(Coins(f, S))
<1> DEFINE g == [s \in SUBSET S |-> Cardinality(Coins(f, s))]
           h == Fold(f, S)
           Q == {s \in SUBSET S : h[s] # g[s]}
<1>1. g = Recursion(f, S, g)
  BY CoinsRecur
<1> HIDE DEF g
<1>2. h = Recursion(f, S, h)
  BY <1>1 DEF Fold
<1> HIDE DEF h
<1>3. ASSUME Q # {} PROVE FALSE
  <2>1. PICK s \in Q : \A U \in Q : U \subseteq s => U = s
    <3>1. Q \in SUBSET SUBSET S
      OBVIOUS
    <3> HIDE DEF Q
    <3> QED BY <1>3, <3>1, Smallest DEF Counts
  <2>2. /\ h[s] = IF s = {} THEN 0 ELSE f[Picked(s)] + h[s \ {Picked(s)}]
        /\ g[s] = IF s = {} THEN 0 ELSE f[Picked(s)] + g[s \ {Picked(s)}]
    <3>1. /\ Recursion(f, S, h)[s] = IF s = {} THEN 0 ELSE f[Picked(s)] + h[s \ {Picked(s)}]
          /\ Recursion(f, S, g)[s] = IF s = {} THEN 0 ELSE f[Picked(s)] + g[s \ {Picked(s)}]
      BY <2>1 DEF Recursion
    <3> QED BY <1>1, <1>2, <3>1
  <2>3. s # {}
    BY <2>1, <2>2
  <2>4. Picked(s) \in s
    BY <2>3, PickedIn
  <2>5. s \ {Picked(s)} \in SUBSET S /\ s \ {Picked(s)} \notin Q
    BY <2>1, <2>4
  <2> QED BY <2>1, <2>2, <2>3, <2>5
<1>4. h[S] = g[S]
  BY <1>3
<1> QED BY <1>4, TotalIsFold DEF g, h

-----------------------------------------------------------------------------
(* Sums. *)

LEMMA TotalType ==
  ASSUME NEW f, NEW S, Counts(f, S)
  PROVE  Total(f, S) \in Nat
  BY TotalCounts, CoinsFinite

LEMMA TotalEmpty ==
  ASSUME NEW f
  PROVE  Total(f, {}) = 0
<1>1. Counts(f, {}) /\ Coins(f, {}) = {} /\ Cardinality({}) = 0
  BY FS_EmptySet DEF Counts, Coins
<1> QED BY <1>1, TotalCounts

LEMMA TotalAdd ==
  ASSUME NEW f, NEW S, NEW x, x \notin S, Counts(f, S), f[x] \in Nat
  PROVE  Total(f, S \cup {x}) = Total(f, S) + f[x] /\ Counts(f, S \cup {x})
<1>1. Counts(f, S \cup {x})
  BY FS_AddElement DEF Counts
<1>2. Total(f, S) = Cardinality(Coins(f, S)) /\ Total(f, S \cup {x}) = Cardinality(Coins(f, S \cup {x}))
  BY <1>1, TotalCounts
<1>3. Cardinality(Coins(f, S \cup {x})) = Cardinality(Coins(f, S)) + f[x]
  BY CoinsAdd
<1> QED BY <1>1, <1>2, <1>3

LEMMA TotalSame ==
  ASSUME NEW f, NEW g, NEW S, Counts(f, S), \A a \in S : f[a] = g[a]
  PROVE  Total(f, S) = Total(g, S) /\ Counts(g, S)
<1>1. Coins(f, S) = Coins(g, S)
  BY DEF Coins, CoinsOf
<1>2. Counts(g, S)
  BY DEF Counts
<1> QED BY <1>1, <1>2, TotalCounts

LEMMA TotalRemove ==
  ASSUME NEW f, NEW S, Counts(f, S), NEW x \in S
  PROVE  /\ Total(f, S) = Total(f, S \ {x}) + f[x]
         /\ Counts(f, S \ {x}) /\ Total(f, S \ {x}) \in Nat
<1>1. Counts(f, S \ {x}) /\ f[x] \in Nat /\ (S \ {x}) \cup {x} = S
  BY FS_RemoveElement DEF Counts
<1>2. Total(f, (S \ {x}) \cup {x}) = Total(f, S \ {x}) + f[x]
  BY <1>1, TotalAdd
<1> QED BY <1>1, <1>2, TotalType

\* One account changes.
LEMMA TotalEdit ==
  ASSUME NEW f, NEW g, NEW S, Counts(f, S), NEW x \in S, g[x] \in Nat, \A a \in S \ {x} : g[a] = f[a]
  PROVE  Total(g, S) = (Total(f, S) - f[x]) + g[x] /\ Counts(g, S)
<1>1. /\ Total(f, S) = Total(f, S \ {x}) + f[x] /\ Counts(f, S \ {x}) /\ Total(f, S \ {x}) \in Nat
      /\ f[x] \in Nat
  BY TotalRemove DEF Counts
<1>2. Total(f, S \ {x}) = Total(g, S \ {x})
  BY <1>1, TotalSame
<1>3. Counts(g, S)
  BY DEF Counts
<1>4. Total(g, S) = Total(g, S \ {x}) + g[x]
  BY <1>3, TotalRemove
<1> QED BY <1>1, <1>2, <1>3, <1>4

LEMMA TotalPlus ==
  ASSUME NEW f, NEW g, NEW h, NEW S, Counts(f, S), Counts(g, S), \A a \in S : h[a] = f[a] + g[a]
  PROVE  Total(h, S) = Total(f, S) + Total(g, S) /\ Counts(h, S)
<1>1. Counts(h, S)
  BY DEF Counts
<1> DEFINE Q == {s \in SUBSET S : Total(h, s) # Total(f, s) + Total(g, s)}
<1>2. ASSUME Q # {} PROVE FALSE
  <2>1. PICK s \in Q : \A U \in Q : U \subseteq s => U = s
    <3>1. Q \in SUBSET SUBSET S
      OBVIOUS
    <3> HIDE DEF Q
    <3> QED BY <1>2, <3>1, Smallest DEF Counts
  <2>2. s # {}
    BY TotalEmpty
  <2>3. PICK x \in s : TRUE
    BY <2>2
  <2> DEFINE r == s \ {x}
  <2>4. r \in SUBSET S /\ r \notin Q /\ IsFiniteSet(s) /\ s \in SUBSET S
    BY <2>1, FS_Subset DEF Counts
  <2>5. Total(h, r) = Total(f, r) + Total(g, r)
    BY <2>4
  <2>6. Counts(f, s) /\ Counts(g, s) /\ Counts(h, s)
    BY <1>1, <2>4 DEF Counts
  <2>7. /\ Total(f, s) = Total(f, r) + f[x] /\ Total(f, r) \in Nat /\ f[x] \in Nat
        /\ Total(g, s) = Total(g, r) + g[x] /\ Total(g, r) \in Nat /\ g[x] \in Nat
        /\ Total(h, s) = Total(h, r) + h[x] /\ h[x] = f[x] + g[x]
    BY <2>6, <2>4, TotalRemove DEF Counts
  <2> HIDE DEF r
  <2>8. Total(h, s) = Total(f, s) + Total(g, s)
    BY <2>5, <2>7
  <2> QED BY <2>1, <2>8
<1>3. S \notin Q
  BY <1>2
<1> QED BY <1>1, <1>3

LEMMA TotalTimes ==
  ASSUME NEW f, NEW h, NEW S, Counts(f, S), NEW c \in Nat, \A a \in S : h[a] = c * f[a]
  PROVE  Total(h, S) = c * Total(f, S) /\ Counts(h, S)
<1>1. Counts(h, S)
  BY DEF Counts
<1> DEFINE Q == {s \in SUBSET S : Total(h, s) # c * Total(f, s)}
<1>2. ASSUME Q # {} PROVE FALSE
  <2>1. PICK s \in Q : \A U \in Q : U \subseteq s => U = s
    <3>1. Q \in SUBSET SUBSET S
      OBVIOUS
    <3> HIDE DEF Q
    <3> QED BY <1>2, <3>1, Smallest DEF Counts
  <2>2. s # {}
    BY TotalEmpty
  <2>3. PICK x \in s : TRUE
    BY <2>2
  <2> DEFINE r == s \ {x}
  <2>4. r \in SUBSET S /\ r \notin Q /\ IsFiniteSet(s) /\ s \in SUBSET S
    BY <2>1, FS_Subset DEF Counts
  <2>5. Total(h, r) = c * Total(f, r)
    BY <2>4
  <2>6. Counts(f, s) /\ Counts(h, s)
    BY <1>1, <2>4 DEF Counts
  <2>7. /\ Total(f, s) = Total(f, r) + f[x] /\ Total(f, r) \in Nat /\ f[x] \in Nat
        /\ Total(h, s) = Total(h, r) + h[x] /\ h[x] = c * f[x]
    BY <2>6, <2>4, TotalRemove DEF Counts
  <2> HIDE DEF r
  <2>8. c * (Total(f, r) + f[x]) = c * Total(f, r) + c * f[x]
    BY <2>7
  <2>9. Total(h, s) = c * Total(f, s)
    BY <2>5, <2>7, <2>8
  <2> QED BY <2>1, <2>9
<1>3. S \notin Q
  BY <1>2
<1> QED BY <1>1, <1>3

LEMMA TotalOrder ==
  ASSUME NEW f, NEW g, NEW S, Counts(f, S), Counts(g, S), \A a \in S : f[a] <= g[a]
  PROVE  Total(f, S) <= Total(g, S)
<1>1. Coins(f, S) \subseteq Coins(g, S)
  BY DEF Coins, CoinsOf, Counts
<1>2. IsFiniteSet(Coins(g, S))
  BY CoinsFinite
<1>3. Cardinality(Coins(f, S)) <= Cardinality(Coins(g, S))
  BY <1>1, <1>2, FS_Subset
<1> QED BY <1>3, TotalCounts

\* What is outside a part of S counts for nothing.
LEMMA TotalWithin ==
  ASSUME NEW f, NEW S, Counts(f, S), NEW T \in SUBSET S, \A a \in S \ T : f[a] = 0
  PROVE  Total(f, S) = Total(f, T) /\ Counts(f, T)
<1>1. Counts(f, T)
  BY FS_Subset DEF Counts
<1>2. Coins(f, S) = Coins(f, T)
  BY DEF Coins, CoinsOf
<1> QED BY <1>1, <1>2, TotalCounts

\* A part and the rest make the whole.
LEMMA TotalParts ==
  ASSUME NEW f, NEW S, Counts(f, S), NEW T \in SUBSET S
  PROVE  /\ Total(f, S) = Total(f, T) + Total(f, S \ T)
         /\ Counts(f, T) /\ Total(f, T) \in Nat
         /\ Counts(f, S \ T) /\ Total(f, S \ T) \in Nat
<1> DEFINE R == S \ T
           g == [a \in S |-> IF a \in T THEN f[a] ELSE 0]
           h == [a \in S |-> IF a \in T THEN 0 ELSE f[a]]
<1>1. Counts(g, S) /\ Counts(h, S) /\ \A a \in S : f[a] = g[a] + h[a]
  BY DEF Counts
<1>2. Total(f, S) = Total(g, S) + Total(h, S)
  BY <1>1, TotalPlus
<1>3. /\ R \in SUBSET S
      /\ (\A a \in S \ T : g[a] = 0) /\ (\A a \in S \ R : h[a] = 0)
      /\ (\A a \in T : g[a] = f[a]) /\ (\A a \in R : h[a] = f[a])
  OBVIOUS
<1> HIDE DEF g, h, R
<1>4. Total(g, S) = Total(g, T) /\ Counts(g, T)
  BY <1>1, <1>3, TotalWithin
<1>5. Total(h, S) = Total(h, R) /\ Counts(h, R)
  BY <1>1, <1>3, TotalWithin
<1>6. Total(g, T) = Total(f, T) /\ Counts(f, T)
  BY <1>3, <1>4, TotalSame
<1>7. Total(h, R) = Total(f, R) /\ Counts(f, R)
  BY <1>3, <1>5, TotalSame
<1>8. Total(f, T) \in Nat /\ Total(f, R) \in Nat
  BY <1>6, <1>7, TotalType
<1> QED BY <1>2, <1>4, <1>5, <1>6, <1>7, <1>8 DEF R

LEMMA TotalOne ==
  ASSUME NEW f, NEW S, Counts(f, S), NEW x \in S, \A a \in S \ {x} : f[a] = 0
  PROVE  Total(f, S) = f[x]
<1>1. Total(f, S) = Total(f, {x})
  BY TotalWithin
<1>2. Counts(f, {}) /\ f[x] \in Nat /\ {} \cup {x} = {x}
  BY FS_EmptySet DEF Counts
<1>3. Total(f, {} \cup {x}) = Total(f, {}) + f[x]
  BY <1>2, TotalAdd
<1> QED BY <1>1, <1>2, <1>3, TotalEmpty

\* What one account gives another stays in the sum.
LEMMA TotalMoved ==
  ASSUME NEW f, NEW g, NEW S, Counts(f, S), NEW x \in S, NEW y \in S, x # y,
         NEW a \in Nat, a <= f[x], g[x] = f[x] - a, g[y] = f[y] + a,
         \A z \in S : z # x /\ z # y => g[z] = f[z]
  PROVE  Total(g, S) = Total(f, S) /\ Counts(g, S)
<1> DEFINE c == [z \in S |-> IF z = x THEN f[x] - a ELSE f[z]]
           tf == Total(f, S)
           tc == Total(c, S)
           tg == Total(g, S)
           fx == f[x]
           fy == f[y]
<1>1. fx \in Nat /\ fy \in Nat /\ fx - a \in Nat /\ fy + a \in Nat /\ tf \in Nat
  BY TotalType DEF Counts
<1>2. c[x] = fx - a /\ c[y] = fy /\ \A z \in S \ {x} : c[z] = f[z]
  OBVIOUS
<1>3. \A z \in S \ {y} : g[z] = c[z]
  OBVIOUS
<1> HIDE DEF c
<1>4. tc = (tf - fx) + (fx - a) /\ Counts(c, S)
  <2>1. c[x] \in Nat
    BY <1>1, <1>2
  <2> QED BY <1>2, <2>1, TotalEdit
<1>5. tg = (tc - fy) + (fy + a) /\ Counts(g, S)
  <2>1. g[y] \in Nat
    BY <1>1
  <2>2. Total(g, S) = (Total(c, S) - c[y]) + g[y] /\ Counts(g, S)
    BY <1>3, <1>4, <2>1, TotalEdit
  <2>3. c[y] = fy /\ g[y] = fy + a
    BY <1>2
  <2> QED BY <2>2, <2>3
<1> HIDE DEF tf, tc, tg, fx, fy
<1>6. tg = tf
  BY <1>1, <1>4, <1>5
<1> QED BY <1>5, <1>6 DEF tg, tf

\* Shares in proportion to weights, rounded down, are no more than what is shared out.
LEMMA Apportioned ==
  ASSUME NEW w, NEW S, Counts(w, S), S # {} => Total(w, S) > 0, NEW rest \in Nat,
         NEW share, \A a \in S : share[a] = (w[a] * rest) \div Total(w, S)
  PROVE  Counts(share, S) /\ Total(share, S) \in 0 .. rest
<1> DEFINE T == Total(w, S)
           up == [a \in S |-> T * share[a]]
           all == [a \in S |-> rest * w[a]]
<1>1. T \in Nat /\ (\A a \in S : w[a] \in Nat) /\ IsFiniteSet(S)
  BY TotalType DEF Counts
<1>2. ASSUME NEW a \in S
      PROVE  share[a] \in Nat /\ T * share[a] <= rest * w[a] /\ T * share[a] \in Nat /\ rest * w[a] \in Nat
  <2> DEFINE p == w[a]
             s == (p * rest) \div T
  <2>1. share[a] = s
    OBVIOUS
  <2>2. p \in Nat /\ T \in Nat \ {0}
    BY <1>1
  <2> HIDE DEF p, T
  <2>3. p * rest \in Nat /\ p * rest = rest * p
    BY <2>2, Z3
  <2>4. s \in Nat /\ (p * rest) % T \in 0 .. T - 1 /\ p * rest = T * s + ((p * rest) % T)
    BY <2>2, <2>3, DivisionParts
  <2> HIDE DEF s
  <2>5. T * s \in Nat
    BY <2>2, <2>4, Z3
  <2>6. T * s <= rest * p
    BY <2>2, <2>3, <2>4, <2>5
  <2> QED BY <2>1, <2>3, <2>4, <2>5, <2>6 DEF p
<1>3. Counts(share, S)
  BY <1>1, <1>2 DEF Counts
<1>4. Total(up, S) = T * Total(share, S) /\ Counts(up, S)
  <2>1. \A a \in S : up[a] = T * share[a]
    OBVIOUS
  <2> HIDE DEF up, T
  <2> QED BY <1>1, <1>3, <2>1, TotalTimes
<1>5. Total(all, S) = rest * T /\ Counts(all, S)
  <2>1. \A a \in S : all[a] = rest * w[a]
    OBVIOUS
  <2> HIDE DEF all
  <2> QED BY <2>1, TotalTimes
<1>6. Total(up, S) <= Total(all, S)
  <2>1. \A a \in S : up[a] <= all[a]
    BY <1>2
  <2> HIDE DEF up, all
  <2> QED BY <1>4, <1>5, <2>1, TotalOrder
<1>7. Total(share, S) \in Nat
  BY <1>3, TotalType
<1>8. Total(share, S) <= rest
  <2>1. CASE S = {}
    BY <2>1, TotalEmpty
  <2>2. CASE S # {}
    <3> DEFINE s == Total(share, S)
    <3>1. T \in Nat \ {0}
      BY <1>1, <2>2
    <3>2. T * s <= rest * T /\ s \in Nat
      BY <1>4, <1>5, <1>6, <1>7
    <3> HIDE DEF s, T
    <3>3. s <= rest
      BY <3>1, <3>2, Z3
    <3> QED BY <3>3 DEF s
  <2> QED BY <2>1, <2>2
<1> QED BY <1>3, <1>7, <1>8

-----------------------------------------------------------------------------
(* Recursion along a sequence. A step of a recursion on 0 .. n is a function *)
(* of its number and of what came before.                                    *)

StepType(F, n, X, base) == n \in Nat /\ base \in X /\ F \in [(1 .. n) \X X -> X]
Follows(g, F, n, base) == g[0] = base /\ \A i \in 1 .. n : g[i] = F[<<i, g[i - 1]>>]

\* What follows the recursion as long as what came before has the type.
FollowsIn(g, F, n, X, base) ==
  g[0] = base /\ \A i \in 1 .. n : g[i - 1] \in X => g[i] = F[<<i, g[i - 1]>>]
StaysIn(g, n, X) == \A i \in 0 .. n : g[i] \in X

\* Two functions that start and step alike.
StepAlike(g, h, n) ==
  n \in Nat /\ g[0] = h[0] /\ \A i \in 1 .. n : g[i - 1] = h[i - 1] => g[i] = h[i]
Alike(g, h, n) == \A i \in 0 .. n : g[i] = h[i]

\* What such a recursion defines exists.
LEMMA RecursionExists ==
  ASSUME NEW n, NEW X, NEW base, NEW F, StepType(F, n, X, base)
  PROVE  \E g \in [0 .. n -> X] : Follows(g, F, n, base)
<1> DEFINE Q == {k \in 0 .. n : ~\E g \in [0 .. k -> X] : Follows(g, F, k, base)}
<1>1. n \in Nat /\ base \in X /\ F \in [(1 .. n) \X X -> X]
  BY DEF StepType
<1>2. ASSUME Q # {} PROVE FALSE
  <2>1. PICK k \in Q : \A j \in Q : k <= j
    <3>1. Q \subseteq Nat
      BY <1>1
    <3> HIDE DEF Q
    <3> QED BY <1>2, <3>1, SmallestExists
  <2>2. k \in 0 .. n
    OBVIOUS
  <2>3. k # 0
    <3>1. ASSUME k = 0 PROVE FALSE
      <4> DEFINE g == [i \in 0 .. 0 |-> base]
      <4>1. g \in [0 .. 0 -> X] /\ Follows(g, F, 0, base)
        BY <1>1 DEF Follows
      <4> HIDE DEF g
      <4> QED BY <3>1, <4>1, <2>1
    <3> QED BY <3>1
  <2>4. k - 1 \in 0 .. n /\ k - 1 \notin Q
    BY <1>1, <2>1, <2>2, <2>3
  <2>5. PICK g \in [0 .. k - 1 -> X] : Follows(g, F, k - 1, base)
    BY <2>4
  <2> DEFINE h == [i \in 0 .. k |-> IF i = k THEN F[<<k, g[k - 1]>>] ELSE g[i]]
  <2>6. F[<<k, g[k - 1]>>] \in X
    BY <1>1, <2>2, <2>3, <2>5
  <2>7. h \in [0 .. k -> X]
    BY <1>1, <2>2, <2>6
  <2>8. h[0] = base
    BY <1>1, <2>2, <2>3, <2>5 DEF Follows
  <2>9. ASSUME NEW i \in 1 .. k PROVE h[i] = F[<<i, h[i - 1]>>]
    <3>1. i - 1 \in 0 .. k /\ i - 1 # k /\ h[i - 1] = g[i - 1]
      BY <1>1, <2>2
    <3>2. CASE i = k
      BY <3>1, <3>2
    <3>3. CASE i # k
      <4>1. i \in 1 .. k - 1
        BY <1>1, <2>2, <3>3
      <4> QED BY <2>2, <2>5, <3>1, <3>3, <4>1 DEF Follows
    <3> QED BY <3>2, <3>3
  <2> HIDE DEF h
  <2>10. Follows(h, F, k, base)
    BY <2>8, <2>9 DEF Follows
  <2> QED BY <2>1, <2>7, <2>10
<1>3. n \notin Q
  BY <1>2
<1> QED BY <1>1, <1>3

\* And what follows it has the type everywhere.
LEMMA RecursionTyped ==
  ASSUME NEW n, NEW X, NEW base, NEW F, StepType(F, n, X, base), NEW h, FollowsIn(h, F, n, X, base)
  PROVE  StaysIn(h, n, X)
<1> DEFINE Q == {i \in 0 .. n : h[i] \notin X}
<1>1. n \in Nat /\ base \in X /\ F \in [(1 .. n) \X X -> X]
  BY DEF StepType
<1>2. ASSUME Q # {} PROVE FALSE
  <2>1. PICK k \in Q : \A j \in Q : k <= j
    <3>1. Q \subseteq Nat
      BY <1>1
    <3> HIDE DEF Q
    <3> QED BY <1>2, <3>1, SmallestExists
  <2>2. k \in 0 .. n /\ k # 0
    BY <1>1 DEF FollowsIn
  <2>3. k - 1 \in 0 .. n /\ k - 1 \notin Q /\ k \in 1 .. n
    BY <1>1, <2>1, <2>2
  <2> QED BY <1>1, <2>1, <2>3 DEF FollowsIn
<1> QED BY <1>2 DEF StaysIn

\* There is only one.
LEMMA RecursionUnique ==
  ASSUME NEW n, NEW g, NEW h, StepAlike(g, h, n)
  PROVE  Alike(g, h, n)
<1> DEFINE Q == {i \in 0 .. n : g[i] # h[i]}
<1>1. ASSUME Q # {} PROVE FALSE
  <2>1. PICK k \in Q : \A j \in Q : k <= j
    <3>1. Q \subseteq Nat
      BY DEF StepAlike
    <3> HIDE DEF Q
    <3> QED BY <1>1, <3>1, SmallestExists
  <2>2. k \in 0 .. n /\ k # 0
    BY DEF StepAlike
  <2>3. k - 1 \in 0 .. n /\ k - 1 \notin Q /\ k \in 1 .. n
    BY <2>1, <2>2 DEF StepAlike
  <2> QED BY <2>1, <2>3 DEF StepAlike
<1> QED BY <1>1 DEF Alike
=============================================================================
