-------------------------------- MODULE Sums --------------------------------
(***************************************************************************)
(* Lemmas about what is added up over a set, and induction stated for a    *)
(* set: the theorems of the library that take the property as an operator  *)
(* cannot be cited.                                                        *)
(***************************************************************************)
EXTENDS Integers, Sequences, FiniteSetsExt, TLAPS, FiniteSetTheorems, NaturalsInduction, WellFoundedInduction

LEMMA NatClosed ==
  ASSUME NEW T, T \subseteq Nat, 0 \in T, \A n \in T : n + 1 \in T
  PROVE  T = Nat
<1> SUFFICES ASSUME Nat \ T # {} PROVE FALSE
  OBVIOUS
<1>1. PICK m \in Nat \ T : \A k \in Nat \ T : ~(<<k, m>> \in OpToRel(<, Nat))
  BY NatLessThanWellFounded, WFMin, Zenon
<1>2. m \in Nat \ T /\ \A k \in Nat : k < m => k \in T
  BY <1>1 DEF OpToRel
<1>3. m - 1 \in T
  BY <1>2
<1> QED
  BY <1>2, <1>3

LEMMA Least ==
  ASSUME NEW T, T \subseteq Nat, T # {}
  PROVE  \E m \in T : \A k \in T : m <= k
<1>1. PICK m \in T : \A k \in T : ~(<<k, m>> \in OpToRel(<, Nat))
  BY NatLessThanWellFounded, WFMin, Zenon
<1>2. m \in T /\ \A k \in T : ~(k < m)
  BY <1>1 DEF OpToRel
<1> QED
  BY <1>2

LEMMA SetInduction ==
  ASSUME NEW S, IsFiniteSet(S), NEW P, {} \in P,
         \A s \in SUBSET S : s \in P => \A x \in S \ s : s \cup {x} \in P
  PROVE  S \in P
<1> DEFINE T == {n \in Nat : \A s \in SUBSET S : Cardinality(s) = n => s \in P}
<1>0. \A s \in SUBSET S : IsFiniteSet(s) /\ Cardinality(s) \in Nat
  BY FS_Subset, FS_CardinalityType
<1>1. 0 \in T
  BY <1>0, FS_EmptySet
<1>2. ASSUME NEW n \in T PROVE n + 1 \in T
  <2>1. ASSUME NEW s \in SUBSET S, Cardinality(s) = n + 1 PROVE s \in P
    <3>1. PICK x \in s : TRUE
      BY <1>0, <1>2, <2>1, FS_EmptySet
    <3>2. s \ {x} \in SUBSET S /\ Cardinality(s \ {x}) = n
      <4>1. Cardinality(s \ {x}) = Cardinality(s) - 1
        BY <1>0, <3>1, FS_RemoveElement
      <4>2. n \in Nat
        BY <1>2
      <4> QED BY <2>1, <4>1, <4>2
    <3>3. s \ {x} \in P /\ x \in S \ (s \ {x}) /\ (s \ {x}) \cup {x} = s
      BY <1>2, <3>1, <3>2
    <3> QED BY <3>2, <3>3
  <2> QED BY <1>2, <2>1
<1>3. T = Nat
  BY <1>1, <1>2, NatClosed
<1> QED
  BY <1>0, <1>3

\* The same, downwards: what holds of a set when it holds of it less any of its members.
LEMMA SetDescent ==
  ASSUME NEW S, IsFiniteSet(S), NEW P,
         \A s \in SUBSET S : (\A x \in s : s \ {x} \in P) => s \in P
  PROVE  \A s \in SUBSET S : s \in P
<1> DEFINE T == {n \in Nat : \A s \in SUBSET S : Cardinality(s) = n => s \in P}
<1>0. \A s \in SUBSET S : IsFiniteSet(s) /\ Cardinality(s) \in Nat
  BY FS_Subset, FS_CardinalityType
<1>1. 0 \in T
  <2>1. \A s \in SUBSET S : Cardinality(s) = 0 => s = {}
    BY <1>0, FS_EmptySet
  <2> QED BY <2>1
<1>2. ASSUME NEW n \in T PROVE n + 1 \in T
  <2>1. ASSUME NEW s \in SUBSET S, Cardinality(s) = n + 1 PROVE s \in P
    <3>1. ASSUME NEW x \in s PROVE s \ {x} \in P
      <4>1. Cardinality(s \ {x}) = Cardinality(s) - 1 /\ s \ {x} \in SUBSET S
        BY <1>0, FS_RemoveElement
      <4>2. n \in Nat
        BY <1>2
      <4>3. Cardinality(s \ {x}) = n
        BY <2>1, <4>1, <4>2
      <4> QED BY <1>2, <4>1, <4>3
    <3> QED BY <3>1
  <2> QED BY <1>2, <2>1
<1>3. T = Nat
  BY <1>1, <1>2, NatClosed
<1> QED
  BY <1>0, <1>3

-----------------------------------------------------------------------------
(* What the sum of the library is.                                           *)

SumOf(g, S) == MapThenSumSet(LAMBDA x : g[x], S)

First(s) == CHOOSE x \in s : TRUE

\* F adds up g over s, from the first of its members on.
AddsAt(F, g, s) == F[s] = IF s = {} THEN 0 ELSE g[First(s)] + F[s \ {First(s)}]
Adds(F, g, S) == F = [s \in SUBSET S |-> IF s = {} THEN 0 ELSE g[First(s)] + F[s \ {First(s)}]]

LEMMA FirstOf ==
  ASSUME NEW s, s # {}
  PROVE  First(s) \in s
BY DEF First

LEMMA Smaller ==
  ASSUME NEW S, IsFiniteSet(S), NEW s \in SUBSET S, NEW x \in s
  PROVE  /\ s \ {x} \in SUBSET S /\ IsFiniteSet(s) /\ Cardinality(s) \in Nat /\ s # {}
         /\ Cardinality(s \ {x}) = Cardinality(s) - 1 /\ Cardinality(s) # 0
  BY FS_Subset, FS_CardinalityType, FS_RemoveElement, FS_EmptySet

\* Up to a number of members, a sum is defined.
LEMMA AddsUpTo ==
  ASSUME NEW S, IsFiniteSet(S), NEW g, NEW n \in Nat
  PROVE  \E F : \A s \in SUBSET S : Cardinality(s) <= n => AddsAt(F, g, s)
<1> DEFINE T == {m \in Nat : \E F : \A s \in SUBSET S : Cardinality(s) <= m => AddsAt(F, g, s)}
<1>0. \A s \in SUBSET S : IsFiniteSet(s) /\ Cardinality(s) \in Nat
  BY FS_Subset, FS_CardinalityType
<1>1. 0 \in T
  <2> DEFINE F == [s \in SUBSET S |-> 0]
  <2>1. \A s \in SUBSET S : Cardinality(s) <= 0 => s = {}
    BY <1>0, FS_EmptySet
  <2>2. \A s \in SUBSET S : Cardinality(s) <= 0 => AddsAt(F, g, s)
    BY <2>1 DEF AddsAt
  <2> QED
    BY <2>2
<1>2. ASSUME NEW m \in T PROVE m + 1 \in T
  <2>1. PICK F : \A s \in SUBSET S : Cardinality(s) <= m => AddsAt(F, g, s)
    BY <1>2
  <2> DEFINE G == [s \in SUBSET S |-> IF Cardinality(s) = m + 1 THEN g[First(s)] + F[s \ {First(s)}] ELSE F[s]]
  <2>2. ASSUME NEW s \in SUBSET S, Cardinality(s) <= m + 1
        PROVE  AddsAt(G, g, s)
    <3>1. CASE s = {}
      <4>1. Cardinality(s) = 0
        BY <3>1, FS_EmptySet
      <4> QED BY <4>1, <3>1, <2>1, <1>2 DEF AddsAt
    <3>2. CASE s # {}
      <4>1. First(s) \in s
        BY <3>2, FirstOf
      <4>2. s \ {First(s)} \in SUBSET S /\ Cardinality(s \ {First(s)}) = Cardinality(s) - 1
        BY <4>1, Smaller
      <4>3. G[s \ {First(s)}] = F[s \ {First(s)}]
        BY <4>2, <1>0, <2>2, <1>2
      <4>4. CASE Cardinality(s) = m + 1
        BY <4>3, <4>4, <3>2 DEF AddsAt
      <4>5. CASE Cardinality(s) # m + 1
        <5>1. Cardinality(s) <= m
          BY <4>5, <1>0, <2>2, <1>2
        <5>2. F[s] = g[First(s)] + F[s \ {First(s)}]
          BY <5>1, <2>1, <3>2 DEF AddsAt
        <5> QED BY <4>3, <4>5, <3>2, <5>2 DEF AddsAt
      <4> QED BY <4>4, <4>5
    <3> QED BY <3>1, <3>2
  <2> HIDE DEF G
  <2>3. \E H : \A s \in SUBSET S : Cardinality(s) <= m + 1 => AddsAt(H, g, s)
    BY <2>2
  <2> QED
    BY <2>3, <1>2
<1> HIDE DEF T
<1>3. T = Nat
  <2>1. T \subseteq Nat
    BY DEF T
  <2> QED BY <1>1, <1>2, <2>1, NatClosed
<1> QED
  BY <1>3 DEF T

LEMMA AddsExists ==
  ASSUME NEW S, IsFiniteSet(S), NEW g
  PROVE  \E F : Adds(F, g, S)
<1>1. PICK F : \A s \in SUBSET S : Cardinality(s) <= Cardinality(S) => AddsAt(F, g, s)
  BY AddsUpTo, FS_CardinalityType
<1>2. \A s \in SUBSET S : Cardinality(s) <= Cardinality(S)
  BY FS_Subset
<1> DEFINE G == [s \in SUBSET S |-> F[s]]
<1>3. \A s \in SUBSET S : G[s] = IF s = {} THEN 0 ELSE g[First(s)] + G[s \ {First(s)}]
  BY <1>1, <1>2 DEF AddsAt
<1> DEFINE H == [s \in SUBSET S |-> IF s = {} THEN 0 ELSE g[First(s)] + G[s \ {First(s)}]]
<1>4. G = H
  <2> HIDE DEF G
  <2>1. \A s \in SUBSET S : H[s] = G[s]
    BY <1>3
  <2> USE DEF G
  <2> QED BY <2>1
<1> QED
  BY <1>4 DEF Adds

\* The sum of the library is such a sum.
LEMMA SumIs ==
  ASSUME NEW S, IsFiniteSet(S), NEW g
  PROVE  \E F : Adds(F, g, S) /\ SumOf(g, S) = F[S]
<1> DEFINE F == CHOOSE F : Adds(F, g, S)
<1>1. SumOf(g, S) = F[S]
  BY DEF SumOf, MapThenSumSet, MapThenFoldSet, Adds, First
<1>2. Adds(F, g, S)
  BY AddsExists
<1> QED BY <1>1, <1>2

\* Whichever member is taken out first, a sum is the same.
LEMMA AnyFirst ==
  ASSUME NEW S, IsFiniteSet(S), NEW g, \A x \in S : g[x] \in Int, NEW F, Adds(F, g, S)
  PROVE  \A s \in SUBSET S : F[s] \in Int /\ \A x \in s : F[s] = g[x] + F[s \ {x}]
<1> DEFINE Q(s) == F[s] \in Int /\ \A x \in s : F[s] = g[x] + F[s \ {x}]
           T == {n \in Nat : \A s \in SUBSET S : Cardinality(s) <= n => Q(s)}
<1>0. \A s \in SUBSET S : IsFiniteSet(s) /\ Cardinality(s) \in Nat /\ Cardinality(s) <= Cardinality(S)
  BY FS_Subset, FS_CardinalityType
<1>1. \A s \in SUBSET S : F[s] = IF s = {} THEN 0 ELSE g[First(s)] + F[s \ {First(s)}]
  BY DEF Adds
<1>2. 0 \in T
  <2>1. \A s \in SUBSET S : Cardinality(s) <= 0 => s = {}
    BY <1>0, FS_EmptySet
  <2>2. Q({})
    <3>1. {} \in SUBSET S
      OBVIOUS
    <3>2. F[{}] = 0
      BY <1>1, <3>1
    <3> QED BY <3>2
  <2> QED
    BY <2>1, <2>2
<1>3. ASSUME NEW n \in T PROVE n + 1 \in T
  <2>1. ASSUME NEW s \in SUBSET S, Cardinality(s) <= n + 1, s # {} PROVE Q(s)
    <3> DEFINE a == First(s)
    <3>1. a \in s
      BY <2>1, FirstOf
    <3> HIDE DEF a
    <3>2. \A x \in s : s \ {x} \in SUBSET S /\ Cardinality(s \ {x}) <= n
      BY <1>3, <2>1, Smaller
    <3>3. \A x \in s : Q(s \ {x})
      BY <1>3, <3>2
    <3>4. F[s] = g[a] + F[s \ {a}]
      BY <1>1, <2>1 DEF a
    <3>5. F[s] \in Int
      <4>1. g[a] \in Int /\ F[s \ {a}] \in Int
        BY <3>1, <3>3
      <4> QED BY <3>4, <4>1
    <3>6. ASSUME NEW x \in s, x # a PROVE F[s] = g[x] + F[s \ {x}]
      <4>1. F[s \ {a}] = g[x] + F[(s \ {a}) \ {x}]
        BY <3>1, <3>3, <3>6
      <4>2. F[s \ {x}] = g[a] + F[(s \ {x}) \ {a}]
        BY <3>1, <3>3, <3>6
      <4>3. (s \ {a}) \ {x} = (s \ {x}) \ {a}
        OBVIOUS
      <4>4. F[(s \ {a}) \ {x}] \in Int
        <5>1. Cardinality((s \ {a}) \ {x}) <= n /\ (s \ {a}) \ {x} \in SUBSET S
          <6>1. s \ {a} \in SUBSET S /\ x \in s \ {a} /\ Cardinality(s \ {a}) <= n
            BY <3>1, <3>2, <3>6
          <6>2. Cardinality((s \ {a}) \ {x}) = Cardinality(s \ {a}) - 1 /\ (s \ {a}) \ {x} \in SUBSET S
                /\ Cardinality(s \ {a}) \in Nat
            BY <6>1, Smaller
          <6> QED BY <6>1, <6>2, <1>3
        <5> QED BY <5>1, <1>3
      <4>5. g[x] \in Int /\ g[a] \in Int
        BY <3>1
      <4>6. PICK rest : rest = F[(s \ {a}) \ {x}]
        OBVIOUS
      <4>7. F[s \ {a}] = g[x] + rest /\ F[s \ {x}] = g[a] + rest /\ rest \in Int
        BY <4>1, <4>2, <4>3, <4>4, <4>6
      <4> QED BY <3>4, <4>5, <4>7
    <3> QED BY <3>4, <3>5, <3>6
  <2>2. Q({})
    <3>1. {} \in SUBSET S
      OBVIOUS
    <3>2. F[{}] = 0
      BY <1>1, <3>1
    <3> QED BY <3>2
  <2>3. \A s \in SUBSET S : Cardinality(s) <= n + 1 => Q(s)
    BY <2>1, <2>2
  <2> QED
    BY <1>3, <2>3
<1>4. T = Nat
  <2>1. T \subseteq Nat
    OBVIOUS
  <2> HIDE DEF T
  <2> QED BY <1>2, <1>3, <2>1, NatClosed
<1>5. Cardinality(S) \in T
  BY <1>4, FS_CardinalityType
<1> QED
  BY <1>0, <1>5

LEMMA SumEmpty == ASSUME NEW g PROVE SumOf(g, {}) = 0
<1>1. PICK F : Adds(F, g, {}) /\ SumOf(g, {}) = F[{}]
  BY SumIs, FS_EmptySet
<1> QED BY <1>1 DEF Adds

\* A part of a whole is added up as the whole is.
LEMMA SumOfPart ==
  ASSUME NEW S, IsFiniteSet(S), NEW g, NEW F, Adds(F, g, S), \A x \in S : g[x] \in Int,
         NEW t \in SUBSET S
  PROVE  SumOf(g, t) = F[t]
<1>1. IsFiniteSet(t)
  BY FS_Subset
<1>2. PICK G : Adds(G, g, t) /\ SumOf(g, t) = G[t]
  BY <1>1, SumIs
<1> DEFINE T == {n \in Nat : \A s \in SUBSET t : Cardinality(s) <= n => F[s] = G[s]}
<1>3. \A s \in SUBSET t : F[s] = IF s = {} THEN 0 ELSE g[First(s)] + F[s \ {First(s)}]
  BY DEF Adds
<1>4. \A s \in SUBSET t : G[s] = IF s = {} THEN 0 ELSE g[First(s)] + G[s \ {First(s)}]
  BY <1>2 DEF Adds
<1>5. \A s \in SUBSET t : IsFiniteSet(s) /\ Cardinality(s) \in Nat /\ Cardinality(s) <= Cardinality(t)
  BY <1>1, FS_Subset, FS_CardinalityType
<1>6. 0 \in T
  <2>1. \A s \in SUBSET t : Cardinality(s) <= 0 => s = {}
    BY <1>5, FS_EmptySet
  <2> QED BY <1>3, <1>4, <2>1
<1>7. ASSUME NEW n \in T PROVE n + 1 \in T
  <2>1. ASSUME NEW s \in SUBSET t, Cardinality(s) <= n + 1 PROVE F[s] = G[s]
    <3>1. CASE s = {}
      BY <1>3, <1>4, <3>1
    <3>2. CASE s # {}
      <4>1. First(s) \in s
        BY <3>2, FirstOf
      <4>2. s \ {First(s)} \in SUBSET t /\ Cardinality(s \ {First(s)}) <= n
        BY <1>1, <1>7, <2>1, <4>1, Smaller
      <4>3. F[s \ {First(s)}] = G[s \ {First(s)}]
        BY <1>7, <4>2
      <4> QED BY <1>3, <1>4, <3>2, <4>3
    <3> QED BY <3>1, <3>2
  <2> QED BY <1>7, <2>1
<1>8. T = Nat
  <2>1. T \subseteq Nat
    OBVIOUS
  <2> HIDE DEF T
  <2> QED BY <1>6, <1>7, <2>1, NatClosed
<1>9. Cardinality(t) \in T
  BY <1>1, <1>8, FS_CardinalityType
<1> QED
  BY <1>2, <1>5, <1>9

\* One more member adds what it is worth.
LEMMA SumOneMore ==
  ASSUME NEW S, IsFiniteSet(S), NEW x, x \notin S, NEW g, \A y \in S \cup {x} : g[y] \in Int
  PROVE  SumOf(g, S \cup {x}) = SumOf(g, S) + g[x] /\ SumOf(g, S) \in Int
<1> DEFINE U == S \cup {x}
<1>1. IsFiniteSet(U)
  BY FS_AddElement
<1>2. U \ {x} = S /\ S \in SUBSET U /\ U \in SUBSET U /\ x \in U /\ \A y \in U : g[y] \in Int
  OBVIOUS
<1> HIDE DEF U
<1>3. PICK F : Adds(F, g, U) /\ SumOf(g, U) = F[U]
  BY <1>1, SumIs
<1>4. SumOf(g, S) = F[S]
  BY <1>1, <1>2, <1>3, SumOfPart
<1>5. \A s \in SUBSET U : F[s] \in Int /\ \A y \in s : F[s] = g[y] + F[s \ {y}]
  BY <1>1, <1>2, <1>3, AnyFirst
<1>6. F[U] = g[x] + F[S] /\ F[S] \in Int /\ g[x] \in Int
  BY <1>2, <1>5
<1> QED
  BY <1>3, <1>4, <1>6 DEF U
-----------------------------------------------------------------------------
(* Sums of parts and of wholes.                                              *)

LEMMA SumOverDisjoint ==
  ASSUME NEW S, NEW T, IsFiniteSet(S), IsFiniteSet(T), S \cap T = {},
         NEW g, \A x \in S \cup T : g[x] \in Int
  PROVE  /\ SumOf(g, S \cup T) = SumOf(g, S) + SumOf(g, T)
         /\ SumOf(g, S) \in Int /\ SumOf(g, T) \in Int
<1> DEFINE P == {s \in SUBSET T : SumOf(g, s) \in Int /\ SumOf(g, S \cup s) = SumOf(g, S) + SumOf(g, s)}
<1>0. SumOf(g, S) \in Int
  <2> DEFINE Q == {s \in SUBSET S : SumOf(g, s) \in Int}
  <2>1. {} \in Q
    BY SumEmpty
  <2>2. ASSUME NEW s \in SUBSET S, s \in Q, NEW x \in S \ s PROVE s \cup {x} \in Q
    <3>1. SumOf(g, s \cup {x}) = SumOf(g, s) + g[x]
      BY FS_Subset, SumOneMore
    <3> QED BY <2>2, <3>1
  <2> HIDE DEF Q
  <2>3. S \in Q
    BY <2>1, <2>2, SetInduction
  <2> QED BY <2>3 DEF Q
<1>1. {} \in P
  <2>1. S \cup {} = S /\ {} \in SUBSET T
    OBVIOUS
  <2> QED BY <1>0, <2>1, SumEmpty
<1>2. ASSUME NEW s \in SUBSET T, s \in P, NEW x \in T \ s PROVE s \cup {x} \in P
  <2>1. IsFiniteSet(s) /\ IsFiniteSet(S \cup s) /\ x \notin S \cup s
    BY FS_Subset, FS_Union
  <2>2. \A y \in s \cup {x} : g[y] \in Int
    BY <1>2
  <2>3. \A y \in (S \cup s) \cup {x} : g[y] \in Int
    BY <1>2
  <2>4. SumOf(g, s \cup {x}) = SumOf(g, s) + g[x]
    BY <1>2, <2>1, <2>2, SumOneMore
  <2>5. SumOf(g, (S \cup s) \cup {x}) = SumOf(g, S \cup s) + g[x]
    BY <2>1, <2>3, SumOneMore
  <2>6. (S \cup s) \cup {x} = S \cup (s \cup {x}) /\ s \cup {x} \in SUBSET T /\ g[x] \in Int
    OBVIOUS
  <2>7. PICK a, b, c, d : a = SumOf(g, S) /\ b = SumOf(g, s) /\ c = SumOf(g, s \cup {x}) /\ d = g[x]
    OBVIOUS
  <2>8. SumOf(g, S \cup (s \cup {x})) = (a + b) + d /\ c = b + d /\ a \in Int /\ b \in Int /\ d \in Int
    BY <1>0, <1>2, <2>4, <2>5, <2>6, <2>7
  <2>9. SumOf(g, S \cup (s \cup {x})) = a + c /\ c \in Int
    BY <2>8
  <2> QED BY <2>6, <2>7, <2>9
<1> HIDE DEF P
<1>3. T \in P
  BY <1>1, <1>2, SetInduction
<1> QED
  BY <1>0, <1>3 DEF P

LEMMA SumInt ==
  ASSUME NEW S, IsFiniteSet(S), NEW g, \A x \in S : g[x] \in Int
  PROVE  SumOf(g, S) \in Int
<1>1. S \cap {} = {} /\ \A x \in S \cup {} : g[x] \in Int
  OBVIOUS
<1> QED
  BY <1>1, FS_EmptySet, SumOverDisjoint

LEMMA SumOfOne ==
  ASSUME NEW x, NEW g, g[x] \in Int
  PROVE  SumOf(g, {x}) = g[x]
<1>1. {} \cup {x} = {x} /\ x \notin {} /\ \A y \in {} \cup {x} : g[y] \in Int
  OBVIOUS
<1>2. SumOf(g, {} \cup {x}) = SumOf(g, {}) + g[x]
  BY <1>1, FS_EmptySet, SumOneMore
<1> QED
  BY <1>1, <1>2, SumEmpty

\* A sum looks at its members only.
LEMMA SameSum ==
  ASSUME NEW S, IsFiniteSet(S), NEW g, NEW h, \A x \in S : g[x] \in Int /\ g[x] = h[x]
  PROVE  SumOf(g, S) = SumOf(h, S)
<1> DEFINE P == {s \in SUBSET S : SumOf(g, s) = SumOf(h, s)}
<1>1. {} \in P
  BY SumEmpty
<1>2. ASSUME NEW s \in SUBSET S, s \in P, NEW x \in S \ s PROVE s \cup {x} \in P
  <2>1. IsFiniteSet(s) /\ x \notin s
    BY FS_Subset
  <2>2. \A y \in s \cup {x} : g[y] \in Int /\ h[y] \in Int
    BY <1>2
  <2>3. SumOf(g, s \cup {x}) = SumOf(g, s) + g[x] /\ SumOf(h, s \cup {x}) = SumOf(h, s) + h[x]
    BY <2>1, <2>2, SumOneMore
  <2> QED BY <1>2, <2>3
<1> HIDE DEF P
<1>3. S \in P
  BY <1>1, <1>2, SetInduction
<1> QED
  BY <1>3 DEF P

LEMMA SumOfNothing ==
  ASSUME NEW S, IsFiniteSet(S), NEW g, \A x \in S : g[x] = 0
  PROVE  SumOf(g, S) = 0
<1> DEFINE P == {s \in SUBSET S : SumOf(g, s) = 0}
<1>1. {} \in P
  BY SumEmpty
<1>2. ASSUME NEW s \in SUBSET S, s \in P, NEW x \in S \ s PROVE s \cup {x} \in P
  <2>1. IsFiniteSet(s) /\ x \notin s /\ \A y \in s \cup {x} : g[y] \in Int
    BY <1>2, FS_Subset
  <2>2. SumOf(g, s \cup {x}) = SumOf(g, s) + g[x] /\ g[x] = 0
    BY <2>1, SumOneMore
  <2> QED BY <1>2, <2>2
<1> HIDE DEF P
<1>3. S \in P
  BY <1>1, <1>2, SetInduction
<1> QED
  BY <1>3 DEF P

\* Members worth nothing may be left out.
LEMMA SumWithoutNothing ==
  ASSUME NEW T, IsFiniteSet(T), NEW S \in SUBSET T, NEW g, \A x \in T : g[x] \in Int,
         \A x \in T \ S : g[x] = 0
  PROVE  SumOf(g, S) = SumOf(g, T)
<1>1. IsFiniteSet(S) /\ IsFiniteSet(T \ S) /\ S \cap (T \ S) = {} /\ S \cup (T \ S) = T
  BY FS_Subset
<1>2. SumOf(g, T \ S) = 0
  BY <1>1, SumOfNothing
<1>3. SumOf(g, S \cup (T \ S)) = SumOf(g, S) + SumOf(g, T \ S) /\ SumOf(g, S) \in Int
  BY <1>1, SumOverDisjoint
<1>4. SumOf(g, T) = SumOf(g, S) + 0
  BY <1>1, <1>2, <1>3
<1>5. PICK a : a = SumOf(g, S)
  OBVIOUS
<1>6. SumOf(g, T) = a + 0 /\ a \in Int
  BY <1>3, <1>4, <1>5
<1> QED
  BY <1>5, <1>6

LEMMA SumNat ==
  ASSUME NEW S, IsFiniteSet(S), NEW g, \A x \in S : g[x] \in Nat
  PROVE  SumOf(g, S) \in Nat
<1> DEFINE P == {s \in SUBSET S : SumOf(g, s) \in Nat}
<1>1. {} \in P
  BY SumEmpty
<1>2. ASSUME NEW s \in SUBSET S, s \in P, NEW x \in S \ s PROVE s \cup {x} \in P
  <2>1. IsFiniteSet(s) /\ x \notin s /\ \A y \in s \cup {x} : g[y] \in Int
    BY <1>2, FS_Subset
  <2>2. SumOf(g, s \cup {x}) = SumOf(g, s) + g[x] /\ g[x] \in Nat
    BY <2>1, SumOneMore
  <2> QED BY <1>2, <2>2
<1> HIDE DEF P
<1>3. S \in P
  BY <1>1, <1>2, SetInduction
<1> QED
  BY <1>3 DEF P

\* A part is worth no more than the whole.
LEMMA SumGrows ==
  ASSUME NEW T, IsFiniteSet(T), NEW S \in SUBSET T, NEW g, \A x \in T : g[x] \in Nat
  PROVE  SumOf(g, S) <= SumOf(g, T) /\ SumOf(g, S) \in Nat /\ SumOf(g, T) \in Nat
<1>1. IsFiniteSet(S) /\ IsFiniteSet(T \ S) /\ S \cap (T \ S) = {} /\ S \cup (T \ S) = T
  BY FS_Subset
<1>2. SumOf(g, T \ S) \in Nat /\ SumOf(g, S) \in Nat /\ SumOf(g, T) \in Nat
  BY <1>1, SumNat
<1>3. SumOf(g, S \cup (T \ S)) = SumOf(g, S) + SumOf(g, T \ S)
  BY <1>1, SumOverDisjoint
<1>4. PICK a, b : a = SumOf(g, S) /\ b = SumOf(g, T \ S)
  OBVIOUS
<1>5. SumOf(g, T) = a + b /\ a \in Nat /\ b \in Nat
  BY <1>1, <1>2, <1>3, <1>4
<1> QED
  BY <1>2, <1>4, <1>5

\* Parts that share nothing are worth together what they make up.
LEMMA SumOfParts ==
  ASSUME NEW C, IsFiniteSet(C), NEW U, IsFiniteSet(U), NEW K, \A c \in C : K[c] \subseteq U,
         \A c, d \in C : c # d => K[c] \cap K[d] = {},
         NEW g, \A x \in U : g[x] \in Int,
         NEW w, \A c \in C : w[c] = SumOf(g, K[c])
  PROVE  SumOf(w, C) = SumOf(g, UNION {K[c] : c \in C})
<1> DEFINE All(s) == UNION {K[c] : c \in s}
           P == {s \in SUBSET C : SumOf(w, s) = SumOf(g, All(s))}
<1>1. {} \in P
  <2>1. All({}) = {}
    OBVIOUS
  <2> HIDE DEF All
  <2> QED BY <2>1, SumEmpty
<1>2. ASSUME NEW s \in SUBSET C, s \in P, NEW x \in C \ s PROVE s \cup {x} \in P
  <2>1. IsFiniteSet(s) /\ x \notin s
    BY FS_Subset
  <2>2. ASSUME NEW y \in C PROVE w[y] \in Int
    <3>1. IsFiniteSet(K[y]) /\ \A z \in K[y] : g[z] \in Int
      BY FS_Subset
    <3> QED BY <3>1, SumInt
  <2>3. SumOf(w, s \cup {x}) = SumOf(w, s) + w[x]
    <3>1. \A y \in s \cup {x} : w[y] \in Int
      BY <2>2
    <3> HIDE DEF P
    <3> QED BY <2>1, <3>1, SumOneMore
  <2>4. All(s \cup {x}) = All(s) \cup K[x]
    OBVIOUS
  <2>5. All(s) \subseteq U /\ K[x] \subseteq U /\ All(s) \cap K[x] = {}
    OBVIOUS
  <2>6. SumOf(w, s) = SumOf(g, All(s))
    BY <1>2
  <2> HIDE DEF All
  <2>7. SumOf(g, All(s) \cup K[x]) = SumOf(g, All(s)) + SumOf(g, K[x])
    <3>1. IsFiniteSet(All(s)) /\ IsFiniteSet(K[x])
      BY <2>5, FS_Subset
    <3>2. \A z \in All(s) \cup K[x] : g[z] \in Int
      BY <2>5
    <3> QED BY <2>5, <3>1, <3>2, SumOverDisjoint
  <2>8. SumOf(w, s \cup {x}) = SumOf(g, All(s \cup {x}))
    BY <2>3, <2>4, <2>6, <2>7
  <2> QED BY <1>2, <2>8
<1> HIDE DEF P
<1>3. C \in P
  BY <1>1, <1>2, SetInduction
<1> QED
  BY <1>3 DEF P
LEMMA SumMinus ==
  ASSUME NEW S, IsFiniteSet(S), NEW a, NEW b, NEW c,
         \A x \in S : a[x] \in Int /\ b[x] \in Int /\ c[x] = a[x] - b[x]
  PROVE  SumOf(c, S) = SumOf(a, S) - SumOf(b, S) /\ SumOf(a, S) \in Int /\ SumOf(b, S) \in Int
<1> DEFINE P == {s \in SUBSET S : SumOf(c, s) = SumOf(a, s) - SumOf(b, s)}
<1>1. {} \in P
  BY SumEmpty
<1>2. ASSUME NEW s \in SUBSET S, s \in P, NEW x \in S \ s PROVE s \cup {x} \in P
  <2>1. IsFiniteSet(s) /\ x \notin s
    BY FS_Subset
  <2>2. \A y \in s \cup {x} : a[y] \in Int /\ b[y] \in Int /\ c[y] \in Int
    <3>1. \A y \in S : a[y] \in Int /\ b[y] \in Int /\ c[y] = a[y] - b[y]
      OBVIOUS
    <3> QED BY <3>1
  <2>3. /\ SumOf(a, s \cup {x}) = SumOf(a, s) + a[x] /\ SumOf(a, s) \in Int
        /\ SumOf(b, s \cup {x}) = SumOf(b, s) + b[x] /\ SumOf(b, s) \in Int
        /\ SumOf(c, s \cup {x}) = SumOf(c, s) + c[x]
    BY <2>1, <2>2, SumOneMore
  <2>4. c[x] = a[x] - b[x] /\ a[x] \in Int /\ b[x] \in Int /\ SumOf(c, s) = SumOf(a, s) - SumOf(b, s)
    BY <1>2
  <2>5. SumOf(c, s \cup {x}) = SumOf(a, s \cup {x}) - SumOf(b, s \cup {x})
    BY <2>3, <2>4
  <2> QED BY <1>2, <2>5
<1> HIDE DEF P
<1>3. S \in P
  BY <1>1, <1>2, SetInduction
<1>4. (\A x \in S : a[x] \in Int) /\ (\A x \in S : b[x] \in Int)
  OBVIOUS
<1> QED
  BY <1>3, <1>4, SumInt DEF P

LEMMA LeastByKey ==
  ASSUME NEW S, IsFiniteSet(S), S # {}, NEW key, \A x \in S : key[x] \in Int
  PROVE  \E x \in S : \A y \in S : key[x] <= key[y]
<1> DEFINE P == {s \in SUBSET S : s # {} => \E x \in s : \A y \in s : key[x] <= key[y]}
<1>1. {} \in P
  OBVIOUS
<1>2. ASSUME NEW s \in SUBSET S, s \in P, NEW z \in S \ s PROVE s \cup {z} \in P
  <2>1. CASE s = {}
    BY <2>1
  <2>2. CASE s # {}
    <3>1. PICK x \in s : \A y \in s : key[x] <= key[y]
      BY <1>2, <2>2
    <3>2. CASE key[x] <= key[z]
      BY <3>1, <3>2
    <3>3. CASE ~(key[x] <= key[z])
      <4>1. \A y \in s \cup {z} : key[z] <= key[y]
        BY <3>1, <3>3
      <4> QED BY <4>1
    <3> QED BY <3>2, <3>3
  <2> QED BY <2>1, <2>2
<1> HIDE DEF P
<1>3. S \in P
  BY <1>1, <1>2, SetInduction
<1> QED
  BY <1>3 DEF P

-----------------------------------------------------------------------------
(* Folds.                                                                    *)

Picks(pick, D)    == \A s \in SUBSET D : s # {} => pick[s] \in s
Keeps(R, D, V)    == \A x \in D, v \in V : R[<<x, v>>] \in V
FoldsTo(F, D, base, pick, R) ==
  \A s \in SUBSET D : F[s] = IF s = {} THEN base ELSE R[<<pick[s], F[s \ {pick[s]}]>>]

\* From a base, whichever member is next, a fold is defined and keeps its type.
LEMMA FoldExists ==
  ASSUME NEW D, IsFiniteSet(D), NEW V, NEW base \in V, NEW pick, Picks(pick, D), NEW R, Keeps(R, D, V)
  PROVE  \E F \in [SUBSET D -> V] : FoldsTo(F, D, base, pick, R)
<1> USE DEF Picks, Keeps, FoldsTo
<1> DEFINE At(F, s) == F[s] = IF s = {} THEN base ELSE R[<<pick[s], F[s \ {pick[s]}]>>]
           T == {m \in Nat : \E F : \A s \in SUBSET D : Cardinality(s) <= m => At(F, s) /\ F[s] \in V}
<1>0. \A s \in SUBSET D : IsFiniteSet(s) /\ Cardinality(s) \in Nat /\ Cardinality(s) <= Cardinality(D)
  BY FS_Subset, FS_CardinalityType
<1>1. 0 \in T
  <2> DEFINE F == [s \in SUBSET D |-> base]
  <2>1. \A s \in SUBSET D : Cardinality(s) <= 0 => s = {}
    BY <1>0, FS_EmptySet
  <2>2. \A s \in SUBSET D : Cardinality(s) <= 0 => At(F, s) /\ F[s] \in V
    BY <2>1
  <2> QED
    BY <2>2
<1>2. ASSUME NEW m \in T PROVE m + 1 \in T
  <2>1. PICK F : \A s \in SUBSET D : Cardinality(s) <= m => At(F, s) /\ F[s] \in V
    BY <1>2
  <2>0. m \in Nat
    BY <1>2
  <2> DEFINE G == [s \in SUBSET D |-> IF Cardinality(s) = m + 1 THEN R[<<pick[s], F[s \ {pick[s]}]>>] ELSE F[s]]
  <2>2. ASSUME NEW s \in SUBSET D, Cardinality(s) <= m + 1
        PROVE  At(G, s) /\ G[s] \in V
    <3>1. CASE s = {}
      <4>1. Cardinality(s) = 0
        BY <3>1, FS_EmptySet
      <4>2. F[s] = base
        <5>1. Cardinality(s) <= m
          BY <2>0, <4>1
        <5>2. F[s] = IF s = {} THEN base ELSE R[<<pick[s], F[s \ {pick[s]}]>>]
          BY <2>1, <5>1
        <5> QED BY <3>1, <5>2
      <4>3. G[s] = F[s]
        <5>1. Cardinality(s) # m + 1
          BY <2>0, <4>1
        <5> QED BY <5>1
      <4>4. F[s] \in V
        BY <4>2
      <4>5. G[s] = base /\ G[s] \in V
        BY <4>2, <4>3, <4>4
      <4> HIDE DEF G
      <4> QED BY <3>1, <4>5
    <3>2. CASE s # {}
      <4>1. pick[s] \in s
        BY <3>2
      <4>2. s \ {pick[s]} \in SUBSET D /\ Cardinality(s \ {pick[s]}) = Cardinality(s) - 1
        BY <1>0, <4>1, FS_RemoveElement
      <4>3. G[s \ {pick[s]}] = F[s \ {pick[s]}] /\ F[s \ {pick[s]}] \in V
        <5>1. PICK n : n = Cardinality(s \ {pick[s]})
          OBVIOUS
        <5>2. n <= m /\ n # m + 1
          BY <1>0, <2>0, <2>2, <4>2, <5>1
        <5>3. G[s \ {pick[s]}] = F[s \ {pick[s]}]
          BY <4>2, <5>1, <5>2
        <5>4. F[s \ {pick[s]}] \in V
          BY <2>1, <4>2, <5>1, <5>2
        <5> QED BY <5>3, <5>4
      <4>4. CASE Cardinality(s) = m + 1
        BY <3>2, <4>1, <4>3, <4>4
      <4>5. CASE Cardinality(s) # m + 1
        <5>1. Cardinality(s) <= m
          BY <1>0, <2>0, <2>2, <4>5
        <5>2. At(F, s) /\ F[s] \in V
          BY <2>1, <5>1
        <5> QED BY <3>2, <4>3, <4>5, <5>2
      <4> QED BY <4>4, <4>5
    <3> QED BY <3>1, <3>2
  <2> HIDE DEF G
  <2>3. \E H : \A s \in SUBSET D : Cardinality(s) <= m + 1 => At(H, s) /\ H[s] \in V
    BY <2>2
  <2>4. m + 1 \in Nat
    BY <2>0
  <2> HIDE DEF At
  <2> QED
    BY <2>3, <2>4
<1>3. T = Nat
  <2>1. T \subseteq Nat
    OBVIOUS
  <2> HIDE DEF T
  <2> QED BY <1>1, <1>2, <2>1, NatClosed
<1>4. PICK F : \A s \in SUBSET D : At(F, s) /\ F[s] \in V
  <2>1. Cardinality(D) \in T
    BY <1>3, FS_CardinalityType
  <2> QED BY <1>0, <2>1
<1> DEFINE G == [s \in SUBSET D |-> F[s]]
<1>5. \A s \in SUBSET D : s # {} => s \ {pick[s]} \in SUBSET D
  OBVIOUS
<1>6. \A s \in SUBSET D : G[s] = IF s = {} THEN base ELSE R[<<pick[s], G[s \ {pick[s]}]>>]
  BY <1>4, <1>5
<1>7. G \in [SUBSET D -> V]
  BY <1>4
<1> HIDE DEF G
<1>8. FoldsTo(G, D, base, pick, R)
  BY <1>6
<1> QED
  BY <1>7, <1>8
=============================================================================
