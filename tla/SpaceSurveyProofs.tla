--------------------------- MODULE SpaceSurveyProofs ---------------------------
(***************************************************************************)
(* Theorems about the walk of StorageScanner, as survey_space() runs it,   *)
(* and about the tree and the classes it builds from what the walk found.  *)
(***************************************************************************)
EXTENDS SpaceSurvey, Sums, TLAPS, SequenceTheorems, FiniteSetTheorems

-----------------------------------------------------------------------------
(* The tree: AncestorsOrSelf climbs from folder to folder up to the root.      *)

UpTo(f, e, n) ==
  \A k \in 0..n : f[k] = IF k = 0 \/ f[k - 1] = Root THEN (IF k = 0 THEN e ELSE Root)
                         ELSE In[f[k - 1]]

LEMMA UpToUnique ==
  ASSUME NEW e, NEW n \in Nat, NEW f, NEW g, UpTo(f, e, n), UpTo(g, e, n)
  PROVE  \A k \in 0..n : f[k] = g[k]
<1> DEFINE T == {k \in Nat : k \in 0..n => f[k] = g[k]}
<1>1. 0 \in T
  BY DEF UpTo
<1>2. ASSUME NEW k \in T PROVE k + 1 \in T
  BY <1>2 DEF UpTo
<1>3. T \subseteq Nat
  OBVIOUS
<1>4. T = Nat
  BY <1>1, <1>2, <1>3, NatClosed, Zenon
<1> QED
  BY <1>4

LEMMA UpToExists ==
  ASSUME NEW e
  PROVE  \A n \in Nat : \E f : UpTo(f, e, n)
<1> DEFINE T == {n \in Nat : \E f : UpTo(f, e, n)}
<1>1. 0 \in T
  <2>1. UpTo([k \in 0..0 |-> e], e, 0)
    BY DEF UpTo
  <2> QED
    BY <2>1
<1>2. ASSUME NEW n \in T PROVE n + 1 \in T
  <2>1. PICK f : UpTo(f, e, n)
    BY <1>2
  <2> DEFINE top == IF f[n] = Root THEN Root ELSE In[f[n]]
             g   == [k \in 0..n + 1 |-> IF k = n + 1 THEN top ELSE f[k]]
  <2>2. \A k \in 0..n : g[k] = f[k]
    BY <1>2
  <2>3. g[n + 1] = top
    BY <1>2
  <2> HIDE DEF g
  <2>4. UpTo(g, e, n + 1)
    BY <1>2, <2>1, <2>2, <2>3 DEF UpTo
  <2> QED
    BY <1>2, <2>4
<1>3. T = Nat
  BY <1>1, <1>2, NatClosed
<1> QED
  BY <1>3

\* The recursive function AncestorsOrSelf is made of exists, and is a climb.
LEMMA Climbs ==
  ASSUME NEW e
  PROVE  \E f : /\ f[0] = e
                /\ \A n \in Nat : f[n + 1] = IF f[n] = Root THEN Root ELSE In[f[n]]
                /\ AncestorsOrSelf(e) = {f[n] : n \in 0..Cardinality(Folders)}
<1> DEFINE Is(f) == f = [n \in Nat |->
                          IF n = 0 \/ f[n - 1] = Root THEN (IF n = 0 THEN e ELSE Root)
                          ELSE In[f[n - 1]]]
           up == CHOOSE f : Is(f)
<1>1. \E f : Is(f)
  <2> DEFINE part(n) == CHOOSE f : UpTo(f, e, n)
             F == [n \in Nat |-> part(n)[n]]
  <2>1. \A n \in Nat : UpTo(part(n), e, n)
    BY UpToExists
  <2>2. \A n \in Nat : UpTo(part(n + 1), e, n)
    BY <2>1 DEF UpTo
  <2>3. \A n \in Nat : part(n + 1)[n] = part(n)[n]
    <3> SUFFICES ASSUME NEW n \in Nat PROVE part(n + 1)[n] = part(n)[n]
      OBVIOUS
    <3> HIDE DEF part
    <3> QED
      BY <2>1, <2>2, UpToUnique
  <2>4. \A n \in Nat : F[n + 1] = IF F[n] = Root THEN Root ELSE In[F[n]]
    <3> HIDE DEF part
    <3> QED
      BY <2>1, <2>3 DEF UpTo
  <2>5. F[0] = e
    <3> HIDE DEF part
    <3> QED
      BY <2>1 DEF UpTo
  <2>6. ASSUME NEW n \in Nat
        PROVE  F[n] = IF n = 0 \/ F[n - 1] = Root THEN (IF n = 0 THEN e ELSE Root)
                      ELSE In[F[n - 1]]
    <3> HIDE DEF F
    <3>1. CASE n = 0
      BY <2>5, <3>1
    <3>2. CASE n # 0
      <4>1. n - 1 \in Nat /\ (n - 1) + 1 = n
        BY <3>2
      <4> QED
        BY <2>4, <3>2, <4>1
    <3> QED
      BY <3>1, <3>2
  <2>7. Is(F)
    <3> DEFINE G == [n \in Nat |-> IF n = 0 \/ F[n - 1] = Root THEN (IF n = 0 THEN e ELSE Root)
                                   ELSE In[F[n - 1]]]
    <3> HIDE DEF F
    <3>1. \A n \in Nat : F[n] = G[n]
      BY <2>6
    <3> USE DEF F
    <3> HIDE DEF part
    <3>2. F = G
      BY <3>1
    <3> QED
      BY <3>2
  <2> QED
    BY <2>7
<1>2. Is(up)
  BY <1>1
<1>3. AncestorsOrSelf(e) = {up[n] : n \in 0..Cardinality(Folders)}
  BY DEF AncestorsOrSelf
<1> HIDE DEF up
<1>4. /\ up[0] = e
      /\ \A n \in Nat : up[n + 1] = IF up[n] = Root THEN Root ELSE In[up[n]]
  BY <1>2
<1> QED
  BY <1>3, <1>4

Climb(f, e) ==
  /\ f[0] = e
  /\ \A n \in Nat : f[n + 1] = IF f[n] = Root THEN Root ELSE In[f[n]]

Nodes == Entries \cup {Root}

LEMMA CardinalityOfFolders == Cardinality(Folders) \in Nat
<1>1. IsFiniteSet(Entries \cup {Root})
  BY EntriesAssumption, FS_AddElement
<1>2. Folders \in SUBSET (Entries \cup {Root})
  BY DEF Folders
<1> QED
  BY <1>1, <1>2, FS_Subset, FS_CardinalityType

\* At the root the climb stays.
LEMMA StaysAtRoot ==
  ASSUME NEW e, NEW f, Climb(f, e), NEW r \in Nat, f[r] = Root
  PROVE  \A n \in Nat : n >= r => f[n] = Root
<1> DEFINE T == {k \in Nat : f[r + k] = Root}
<1>1. 0 \in T
  OBVIOUS
<1>2. \A k \in T : k + 1 \in T
  <2> SUFFICES ASSUME NEW k \in T PROVE k + 1 \in T
    OBVIOUS
  <2>1. r + k \in Nat /\ r + (k + 1) = (r + k) + 1
    OBVIOUS
  <2> QED
    BY <2>1 DEF Climb
<1>3. T = Nat
  BY <1>1, <1>2, NatClosed
<1>4. \A n \in Nat : n >= r => n - r \in Nat /\ r + (n - r) = n
  OBVIOUS
<1> QED
  BY <1>3, <1>4

\* No cut is made before the root.
LEMMA WholeClimb ==
  ASSUME NEW e \in Nodes
  PROVE  \E f : /\ Climb(f, e)
                /\ AncestorsOrSelf(e) = {f[n] : n \in Nat}
                /\ \E r \in Nat : f[r] = Root
<1>1. PICK f : Climb(f, e) /\ AncestorsOrSelf(e) = {f[n] : n \in 0..Cardinality(Folders)}
  BY Climbs DEF Climb
<1>2. Root \in AncestorsOrSelf(e)
  <2>1. CASE e = Root
    BY <1>1, <2>1, CardinalityOfFolders DEF Climb
  <2>2. CASE e \in Entries
    BY <2>2, TreeAssumption
  <2> QED
    BY <2>1, <2>2 DEF Nodes
<1>3. PICK r \in 0..Cardinality(Folders) : f[r] = Root
  BY <1>1, <1>2
<1>4. r \in Nat
  BY <1>3, CardinalityOfFolders
<1>5. \A n \in Nat : n >= r => f[n] = Root
  BY <1>1, <1>3, <1>4, StaysAtRoot
<1>6. \A n \in Nat : f[n] \in {f[k] : k \in 0..Cardinality(Folders)}
  <2> SUFFICES ASSUME NEW n \in Nat PROVE f[n] \in {f[k] : k \in 0..Cardinality(Folders)}
    OBVIOUS
  <2>1. CASE n <= r
    BY <1>3, <2>1, CardinalityOfFolders
  <2>2. CASE n > r
    BY <1>3, <1>4, <1>5, <2>2
  <2> QED
    BY <1>4, <2>1, <2>2
<1>7. AncestorsOrSelf(e) = {f[n] : n \in Nat}
  BY <1>1, <1>6, CardinalityOfFolders
<1> QED
  BY <1>1, <1>3, <1>4, <1>7

LEMMA SelfFirst ==
  ASSUME NEW e \in Nodes
  PROVE  e \in AncestorsOrSelf(e) /\ Root \in AncestorsOrSelf(e)
BY WholeClimb DEF Climb

LEMMA ClimbAgain ==
  ASSUME NEW e, NEW f, Climb(f, e), NEW g, NEW m \in Nat, Climb(g, f[m])
  PROVE  \A n \in Nat : g[n] = f[n + m]
<1> DEFINE T == {n \in Nat : g[n] = f[n + m]}
<1>1. 0 \in T
  BY DEF Climb
<1>2. \A n \in T : n + 1 \in T
  <2> SUFFICES ASSUME NEW n \in T PROVE n + 1 \in T
    OBVIOUS
  <2>1. n + m \in Nat /\ (n + 1) + m = (n + m) + 1
    OBVIOUS
  <2> QED
    BY <2>1 DEF Climb
<1>3. T = Nat
  BY <1>1, <1>2, NatClosed
<1> QED
  BY <1>3

LEMMA FromTheParent ==
  ASSUME NEW e \in Entries
  PROVE  AncestorsOrSelf(e) = {e} \cup AncestorsOrSelf(In[e])
<1>0. e \in Nodes /\ In[e] \in Nodes /\ e # Root
  BY EntriesAssumption DEF Nodes, Folders
<1>1. PICK f : Climb(f, e) /\ AncestorsOrSelf(e) = {f[n] : n \in Nat}
  BY <1>0, WholeClimb
<1>2. PICK g : Climb(g, In[e]) /\ AncestorsOrSelf(In[e]) = {g[n] : n \in Nat}
  BY <1>0, WholeClimb
<1>3. f[0] = e /\ f[1] = In[e]
  BY <1>0, <1>1 DEF Climb
<1>4. \A n \in Nat : g[n] = f[n + 1]
  BY <1>1, <1>2, <1>3, ClimbAgain
<1>5. \A n \in Nat : n = 0 \/ (n - 1 \in Nat /\ f[n] = g[n - 1])
  BY <1>4
<1>6. AncestorsOrSelf(e) \subseteq {e} \cup AncestorsOrSelf(In[e])
  BY <1>1, <1>2, <1>3, <1>5
<1>7. {e} \cup AncestorsOrSelf(In[e]) \subseteq AncestorsOrSelf(e)
  BY <1>1, <1>2, <1>3, <1>4
<1> QED
  BY <1>6, <1>7

\* No folder is below itself.
LEMMA NotBelowItself ==
  ASSUME NEW e \in Entries
  PROVE  e \notin AncestorsOrSelf(In[e])
<1>0. e \in Nodes /\ In[e] \in Nodes /\ e # Root
  BY EntriesAssumption DEF Nodes, Folders
<1>1. PICK f : Climb(f, e) /\ \E r \in Nat : f[r] = Root
  BY <1>0, WholeClimb
<1>2. PICK g : Climb(g, In[e]) /\ AncestorsOrSelf(In[e]) = {g[n] : n \in Nat}
  BY <1>0, WholeClimb
<1>3. f[0] = e /\ f[1] = In[e]
  BY <1>0, <1>1 DEF Climb
<1>4. \A n \in Nat : g[n] = f[n + 1]
  BY <1>1, <1>2, <1>3, ClimbAgain
<1> SUFFICES ASSUME e \in AncestorsOrSelf(In[e]) PROVE FALSE
  OBVIOUS
<1>5. PICK m \in Nat : f[m + 1] = e
  BY <1>2, <1>4
<1>6. PICK r \in {n \in Nat : f[n] = Root} : \A k \in {n \in Nat : f[n] = Root} : r <= k
  BY <1>1, Least
<1>7. r > m + 1
  BY <1>0, <1>1, <1>5, <1>6, StaysAtRoot
<1>8. \A n \in Nat : f[n] = f[n + (m + 1)]
  BY <1>1, <1>5, ClimbAgain
<1>9. f[r - (m + 1)] = Root
  BY <1>5, <1>6, <1>7, <1>8
<1> QED
  BY <1>5, <1>6, <1>7, <1>9

LEMMA RootAlone == AncestorsOrSelf(Root) = {Root}
<1>1. PICK f : Climb(f, Root) /\ AncestorsOrSelf(Root) = {f[n] : n \in Nat}
  BY WholeClimb DEF Nodes
<1>2. \A n \in Nat : f[n] = Root
  BY <1>1, StaysAtRoot DEF Climb
<1> QED
  BY <1>1, <1>2

\* What is above an entry: its folder, and what is above that; all of them folders.
LEMMA Above ==
  ASSUME NEW e \in Nodes
  PROVE  /\ AncestorsOrSelf(e) \subseteq Nodes
         /\ AncestorsOrSelf(e) \ {e} \subseteq Folders
         /\ \A x \in AncestorsOrSelf(e) \cap Entries : In[x] \in AncestorsOrSelf(e)
         /\ \A x \in AncestorsOrSelf(e) \ {e} : \E y \in AncestorsOrSelf(e) \cap Entries : In[y] = x
<1>1. PICK f : Climb(f, e) /\ AncestorsOrSelf(e) = {f[n] : n \in Nat}
  BY WholeClimb
<1> DEFINE T == {n \in Nat : f[n] \in Nodes}
<1>2. T = Nat
  <2>1. 0 \in T
    BY <1>1 DEF Climb
  <2>2. \A n \in T : n + 1 \in T
    BY <1>1, EntriesAssumption DEF Climb, Nodes, Folders
  <2> QED
    BY <2>1, <2>2, NatClosed
<1>3. \A n \in Nat : f[n] \in Nodes
  BY <1>2
<1>4. \A n \in Nat : f[n] \in Entries => f[n + 1] = In[f[n]]
  BY <1>1, EntriesAssumption DEF Climb
<1> DEFINE U == {n \in Nat : f[n] # e => f[n] \in Folders /\ \E k \in Nat : f[k] \in Entries /\ In[f[k]] = f[n]}
<1>5. U = Nat
  <2>1. 0 \in U
    BY <1>1 DEF Climb
  <2>2. ASSUME NEW n \in U PROVE n + 1 \in U
    <3>1. CASE f[n] = Root
      <4>1. f[n + 1] = f[n]
        BY <1>1, <3>1 DEF Climb
      <4> QED
        BY <2>2, <4>1
    <3>2. CASE f[n] # Root
      <4>1. f[n] \in Entries /\ f[n + 1] = In[f[n]]
        BY <1>3, <1>4, <3>2, <2>2 DEF Nodes
      <4> QED
        BY <4>1, <2>2, EntriesAssumption
    <3> QED
      BY <3>1, <3>2
  <2>3. \A n \in U : n + 1 \in U
    BY <2>2
  <2>4. U \subseteq Nat
    OBVIOUS
  <2> HIDE DEF U
  <2> QED
    BY <2>1, <2>3, <2>4, NatClosed
<1>6. \A n \in Nat : f[n] # e => f[n] \in Folders /\ \E k \in Nat : f[k] \in Entries /\ In[f[k]] = f[n]
  BY <1>5
<1> HIDE DEF T, U
<1> QED
  BY <1>1, <1>3, <1>4, <1>6

\* What a folder holds is side by side in it.
LEMMA Siblings ==
  ASSUME NEW e \in Entries, NEW g \in Entries, e # g, In[e] = In[g]
  PROVE  e \notin AncestorsOrSelf(g)
BY FromTheParent, NotBelowItself

LEMMA Transitive ==
  ASSUME NEW e \in Nodes, NEW f \in AncestorsOrSelf(e), NEW g \in AncestorsOrSelf(f)
  PROVE  g \in AncestorsOrSelf(e)
<1>1. PICK c : Climb(c, e) /\ AncestorsOrSelf(e) = {c[n] : n \in Nat}
  BY WholeClimb
<1>2. PICK m \in Nat : f = c[m]
  BY <1>1
<1>3. f \in Nodes
  BY Above
<1>4. PICK d : Climb(d, f) /\ AncestorsOrSelf(f) = {d[n] : n \in Nat}
  BY <1>3, WholeClimb
<1>5. \A n \in Nat : d[n] = c[n + m]
  BY <1>1, <1>2, <1>4, ClimbAgain
<1> QED
  BY <1>1, <1>2, <1>4, <1>5

\* Of two entries above a third, one is above the other.
LEMMA Comparable ==
  ASSUME NEW g \in Nodes, NEW x \in AncestorsOrSelf(g), NEW y \in AncestorsOrSelf(g)
  PROVE  x \in AncestorsOrSelf(y) \/ y \in AncestorsOrSelf(x)
<1>1. PICK c : Climb(c, g) /\ AncestorsOrSelf(g) = {c[n] : n \in Nat}
  BY WholeClimb
<1>2. PICK m \in Nat, n \in Nat : x = c[m] /\ y = c[n]
  BY <1>1
<1>3. x \in Nodes /\ y \in Nodes
  BY Above
<1>4. PICK d : Climb(d, x) /\ AncestorsOrSelf(x) = {d[k] : k \in Nat}
  BY <1>3, WholeClimb
<1>5. PICK e : Climb(e, y) /\ AncestorsOrSelf(y) = {e[k] : k \in Nat}
  BY <1>3, WholeClimb
<1>6. \A k \in Nat : d[k] = c[k + m]
  BY <1>1, <1>2, <1>4, ClimbAgain
<1>7. \A k \in Nat : e[k] = c[k + n]
  BY <1>1, <1>2, <1>5, ClimbAgain
<1>8. CASE m <= n
  <2>1. n - m \in Nat /\ (n - m) + m = n
    BY <1>8
  <2> QED BY <1>2, <1>4, <1>6, <2>1
<1>9. CASE n <= m
  <2>1. m - n \in Nat /\ (m - n) + n = m
    BY <1>9
  <2> QED BY <1>2, <1>5, <1>7, <2>1
<1> QED
  BY <1>8, <1>9

LEMMA OneWay ==
  ASSUME NEW x \in Nodes, NEW y \in Nodes, x \in AncestorsOrSelf(y), y \in AncestorsOrSelf(x)
  PROVE  x = y
<1> SUFFICES ASSUME x # y PROVE FALSE
  OBVIOUS
<1>1. y # Root
  BY RootAlone
<1>2. y \in Entries /\ In[y] \in Nodes
  BY <1>1, EntriesAssumption DEF Nodes, Folders
<1>3. x \in AncestorsOrSelf(In[y])
  BY <1>2, FromTheParent
<1>4. y \in AncestorsOrSelf(In[y])
  BY <1>2, <1>3, Transitive
<1> QED
  BY <1>2, <1>4, NotBelowItself

LEMMA NodesFinite == IsFiniteSet(Nodes)
BY EntriesAssumption, FS_AddElement DEF Nodes

\* What is above is less deep.
LEMMA LessDeep ==
  ASSUME NEW y \in Nodes, NEW x \in AncestorsOrSelf(y) \ {y}
  PROVE  Depth(x) < Depth(y) /\ Depth(x) \in Int /\ Depth(y) \in Int
<1>1. x \in Nodes /\ AncestorsOrSelf(y) \subseteq Nodes /\ AncestorsOrSelf(x) \subseteq AncestorsOrSelf(y)
  BY Above, Transitive
<1>2. y \notin AncestorsOrSelf(x) /\ y \in AncestorsOrSelf(y)
  BY <1>1, OneWay, SelfFirst
<1>3. IsFiniteSet(AncestorsOrSelf(y))
  BY <1>1, NodesFinite, FS_Subset
<1>4. /\ IsFiniteSet(AncestorsOrSelf(y) \ {y})
      /\ Cardinality(AncestorsOrSelf(y) \ {y}) = Cardinality(AncestorsOrSelf(y)) - 1
  BY <1>2, <1>3, FS_RemoveElement
<1>5. AncestorsOrSelf(x) \subseteq AncestorsOrSelf(y) \ {y}
  BY <1>1, <1>2
<1>6. Cardinality(AncestorsOrSelf(x)) <= Cardinality(AncestorsOrSelf(y) \ {y}) /\ IsFiniteSet(AncestorsOrSelf(x))
  BY <1>4, <1>5, FS_Subset
<1>7. Cardinality(AncestorsOrSelf(x)) \in Nat /\ Cardinality(AncestorsOrSelf(y)) \in Nat
  BY <1>3, <1>6, FS_CardinalityType
<1> QED
  BY <1>4, <1>6, <1>7 DEF Depth

LEMMA DepthInt == \A f \in Nodes : Depth(f) \in Int
<1> SUFFICES ASSUME NEW f \in Nodes PROVE Depth(f) \in Int
  OBVIOUS
<1>1. IsFiniteSet(AncestorsOrSelf(f))
  BY Above, NodesFinite, FS_Subset
<1> QED
  BY <1>1, FS_CardinalityType DEF Depth

\* Of some folders one is deepest, and one least deep.
LEMMA Deepest ==
  ASSUME NEW S \in SUBSET Nodes, S # {}
  PROVE  /\ \E a \in S : \A b \in S : Depth(b) <= Depth(a)
         /\ \E a \in S : \A b \in S : Depth(a) <= Depth(b)
<1> DEFINE P == {s \in SUBSET S : s # {} => /\ \E a \in s : \A b \in s : Depth(b) <= Depth(a)
                                            /\ \E a \in s : \A b \in s : Depth(a) <= Depth(b)}
<1>1. {} \in P
  OBVIOUS
<1>2. ASSUME NEW s \in SUBSET S, s \in P, NEW x \in S \ s PROVE s \cup {x} \in P
  <2>0. \A f \in S : Depth(f) \in Int
    BY DepthInt
  <2>1. CASE s = {}
    BY <2>0, <2>1
  <2>2. CASE s # {}
    <3>1. PICK a \in s : \A b \in s : Depth(b) <= Depth(a)
      BY <1>2, <2>2
    <3>2. PICK c \in s : \A b \in s : Depth(c) <= Depth(b)
      BY <1>2, <2>2
    <3>3. Depth(a) \in Int /\ Depth(c) \in Int /\ Depth(x) \in Int /\ \A b \in s : Depth(b) \in Int
      BY <2>0
    <3>4. \E d \in s \cup {x} : \A b \in s \cup {x} : Depth(b) <= Depth(d)
      <4>1. CASE Depth(x) <= Depth(a)
        BY <3>1, <3>3, <4>1
      <4>2. CASE Depth(a) <= Depth(x)
        BY <3>1, <3>3, <4>2
      <4> QED BY <3>3, <4>1, <4>2
    <3>5. \E d \in s \cup {x} : \A b \in s \cup {x} : Depth(d) <= Depth(b)
      <4>1. CASE Depth(c) <= Depth(x)
        BY <3>2, <3>3, <4>1
      <4>2. CASE Depth(x) <= Depth(c)
        BY <3>2, <3>3, <4>2
      <4> QED BY <3>3, <4>1, <4>2
    <3> QED BY <3>4, <3>5
  <2> QED BY <2>1, <2>2
<1>3. IsFiniteSet(S)
  BY NodesFinite, FS_Subset
<1> HIDE DEF P
<1>4. S \in P
  BY <1>1, <1>2, <1>3, SetInduction
<1> QED
  BY <1>4 DEF P

-----------------------------------------------------------------------------
(* What the walk keeps.                                                      *)

Waiting == {pending[i] : i \in DOMAIN pending}

Results ==
  [total : Nat, allocated : Nat, online : Nat, files : Nat, folders : Nat,
   duplicates : Nat, skipped : Nat, unreadable : SUBSET Folders, completed : BOOLEAN]

ScanTypes ==
  /\ present \subseteq Entries /\ touched \subseteq Entries
  /\ stop \in BOOLEAN /\ done \in BOOLEAN /\ options \in OptionSets
  /\ pending \in Seq(Folders) /\ current \in Folders \cup {None}
  /\ listing \subseteq Entries
  /\ own \in [bytes : Nat, allocated : Nat, files : Nat]
  /\ result \in Results
  /\ DOMAIN rollups \subseteq Folders
  /\ counted \subseteq FileNames \ Links /\ largest \subseteq counted
  /\ seen \subseteq Contents /\ charged \in [Contents -> Nat]
  /\ gaps \subseteq Folders

\* Each folder is opened once, and each file met once: what is still to be opened or read lies side
\* by side, above nothing that was already given up or counted.
Frontier ==
  /\ listing \subseteq {e \in Entries : In[e] = current}
  /\ \A i, j \in DOMAIN pending : i # j => pending[i] \notin AncestorsOrSelf(pending[j])
  /\ current # None => \A f \in Waiting : f \notin AncestorsOrSelf(current)
  /\ \A f \in Waiting, e \in listing : f \notin AncestorsOrSelf(e) /\ e \notin AncestorsOrSelf(f)
  /\ \A x \in gaps \cup counted : AncestorsOrSelf(x) \cap (Waiting \cup listing) = {}
  /\ current \notin gaps

\* What nobody touched is there.
StillThere == Entries \ touched \subseteq present

\* The walk still has before it, or has given up, or has counted every file that was there all along.
Promised ==
  /\ \A n \in FileNames : Untouched(n) /\ WithinReach(n) =>
       n \in counted \/ AncestorsOrSelf(n) \cap (gaps \cup Waiting \cup listing) # {}
  /\ result.completed => done /\ Waiting = {} /\ listing = {}
  /\ IsFiniteSet(gaps) /\ Cardinality(gaps) = result.skipped

Standing(content) == SizeOf[content] >= Threshold /\ \A n \in NamesOf(content) : Untouched(n)
Met(content)      == (NamesOf(content) \cap counted) \ Online

\* A content that stands is charged when the first of its names is met; later names find it seen.
ChargedOnce ==
  \A content \in Contents : Standing(content) =>
    /\ charged[content] = IF Met(content) = {} THEN 0 ELSE 1
    /\ Cardinality(NamesOf(content)) > 1 => (content \in seen <=> Met(content) # {})

\* What was cut from the list has as many as are kept above it.
Outdone ==
  ~done =>
    \A x \in counted \ largest :
      \E T \in SUBSET largest : /\ Cardinality(T) = options.largestKept
                                /\ \A y \in T : Bytes(y) >= Bytes(x)

-----------------------------------------------------------------------------
(* Types.                                                                    *)

LEMMA FilesApart ==
  /\ \A n \in FileNames : n \in Entries /\ n \notin Folders /\ n \in Nodes
  /\ \A n \in FileNames : ContentOf[n] \in Contents /\ Bytes(n) \in Nat
  /\ Folders \subseteq Nodes /\ Entries \subseteq Nodes /\ None \notin Folders
BY EntriesAssumption, NumbersAssumption DEF Folders, Nodes, Contents, Bytes

LEMMA Rounding ==
  ASSUME NEW b \in Nat
  PROVE  RoundedToCluster(b) \in Nat /\ (b > 0 => RoundedToCluster(b) > 0)
<1>1. Cluster \in Nat /\ Cluster > 0
  BY NumbersAssumption
<1> DEFINE q == (b + Cluster - 1) \div Cluster
<1>2. q \in Nat /\ (b > 0 => q > 0)
  BY <1>1
<1>3. q * Cluster \in Nat /\ (q > 0 => q * Cluster > 0)
  BY <1>1, <1>2
<1> QED
  BY <1>2, <1>3 DEF RoundedToCluster

LEMMA AllocatedNat ==
  ASSUME NEW n \in FileNames
  PROVE  Allocated(n) \in Nat
BY FilesApart, Rounding DEF Allocated

LEMMA HeadAndTail ==
  ASSUME NEW S, NEW s \in Seq(S), s # <<>>
  PROVE  /\ Head(s) = s[1] /\ 1 \in DOMAIN s /\ Head(s) \in S
         /\ Tail(s) \in Seq(S)
         /\ \A i \in DOMAIN Tail(s) : i + 1 \in DOMAIN s /\ Tail(s)[i] = s[i + 1]
         /\ \A i \in DOMAIN s : i # 1 => i - 1 \in DOMAIN Tail(s)
         /\ DOMAIN s \subseteq Nat /\ DOMAIN Tail(s) \subseteq Nat
OBVIOUS

LEMMA Lengthened ==
  ASSUME NEW S, NEW s \in Seq(S), NEW x \in S
  PROVE  /\ Append(s, x) \in Seq(S)
         /\ DOMAIN Append(s, x) = DOMAIN s \cup {Len(s) + 1}
         /\ \A i \in DOMAIN s : Append(s, x)[i] = s[i]
         /\ Append(s, x)[Len(s) + 1] = x
         /\ Len(s) + 1 \notin DOMAIN s
         /\ \A i \in DOMAIN s : s[i] \in S
OBVIOUS

\* What is still to be opened, when a folder leaves the sequence and when one joins it.
LEMMA WaitingLess ==
  ASSUME pending \in Seq(Folders), pending # <<>>, pending' = Tail(pending)
  PROVE  /\ Head(pending) \in Folders
         /\ Waiting = {Head(pending)} \cup Waiting'
<1>1. /\ Head(pending) = pending[1] /\ 1 \in DOMAIN pending /\ Head(pending) \in Folders
      /\ \A i \in DOMAIN pending' : i + 1 \in DOMAIN pending /\ pending'[i] = pending[i + 1]
      /\ \A i \in DOMAIN pending : i # 1 => i - 1 \in DOMAIN pending'
      /\ DOMAIN pending \subseteq Nat /\ DOMAIN pending' \subseteq Nat
  BY HeadAndTail
<1>2. \A i \in DOMAIN pending : i # 1 => pending'[i - 1] = pending[i] /\ i - 1 \in DOMAIN pending'
  BY <1>1
<1>3. Waiting' = {pending'[i] : i \in DOMAIN pending'}
  BY DEF Waiting
<1>4. Waiting' \subseteq Waiting
  BY <1>1, <1>3 DEF Waiting
<1>5. ASSUME NEW i \in DOMAIN pending
      PROVE  pending[i] \in {Head(pending)} \cup Waiting'
  <2>1. CASE i = 1
    BY <1>1, <2>1
  <2>2. CASE i # 1
    BY <1>2, <1>3, <2>2
  <2> QED
    BY <2>1, <2>2
<1>6. Head(pending) \in Waiting
  BY <1>1 DEF Waiting
<1>7. \A x \in Waiting : x \in {Head(pending)} \cup Waiting'
  BY <1>5 DEF Waiting
<1> QED
  BY <1>1, <1>4, <1>6, <1>7

LEMMA WaitingMore ==
  ASSUME pending \in Seq(Folders), NEW CONSTANT e \in Folders, pending' = Append(pending, e)
  PROVE  Waiting' = Waiting \cup {e}
BY Lengthened DEF Waiting

\* A result, updated.
LEMMA SkippedMore ==
  ASSUME result \in Results, result' = [result EXCEPT !.skipped = result.skipped + 1]
  PROVE  result' \in Results /\ result'.skipped = result.skipped + 1 /\ result'.completed = result.completed
BY DEF Results

LEMMA UnreadableMore ==
  ASSUME result \in Results, NEW U \in SUBSET Folders,
         result' = [result EXCEPT !.skipped = result.skipped + 1, !.unreadable = U]
  PROVE  result' \in Results
<1> DEFINE q == [result EXCEPT !.skipped = result.skipped + 1]
<1>1. q \in Results
  BY DEF Results
<1>2. result' = [q EXCEPT !.unreadable = U]
  BY DEF Results
<1> HIDE DEF q
<1> QED
  BY <1>1, <1>2 DEF Results

LEMMA FolderMore ==
  ASSUME result \in Results, result' = [result EXCEPT !.folders = result.folders + 1]
  PROVE  result' \in Results
BY DEF Results

LEMMA FieldsOfResult ==
  ASSUME result \in Results
  PROVE  /\ result.total \in Nat /\ result.allocated \in Nat /\ result.files \in Nat
         /\ result.online \in Nat /\ result.duplicates \in Nat /\ result.skipped \in Nat
BY DEF Results

LEMMA ResultOfFile ==
  ASSUME NEW r \in Results, NEW t \in Nat, NEW a \in Nat, NEW f \in Nat, NEW o \in Nat, NEW d \in Nat
  PROVE  [r EXCEPT !.total = t, !.allocated = a, !.files = f, !.online = o, !.duplicates = d] \in Results
<1> DEFINE q == [r EXCEPT !.total = t, !.allocated = a, !.files = f]
<1>1. q \in Results
  BY DEF Results
<1>2. [r EXCEPT !.total = t, !.allocated = a, !.files = f, !.online = o, !.duplicates = d]
        = [q EXCEPT !.online = o, !.duplicates = d]
  BY DEF Results
<1> HIDE DEF q
<1> QED
  BY <1>1, <1>2 DEF Results

LEMMA TypesInit == Init => ScanTypes
<1> SUFFICES ASSUME Init PROVE ScanTypes
  OBVIOUS
<1>1. <<Root>> \in Seq(Folders)
  BY DEF Folders
<1>2. result \in Results
  BY DEF Init, Results
<1> QED
  BY <1>1, <1>2 DEF Init, ScanTypes, Nothing

LEMMA TypesStep == ScanTypes /\ ScanNext => ScanTypes'
<1> SUFFICES ASSUME ScanTypes, ScanNext PROVE ScanTypes'
  OBVIOUS
<1> USE DEF ScanTypes
<1>1. CASE OpenFolder
  <2>1. Head(pending) \in Folders /\ pending' \in Seq(Folders)
    BY <1>1, HeadAndTail DEF OpenFolder
  <2>2. result' \in Results
    <3>1. PICK U : /\ U = (IF Cardinality(result.unreadable) < options.unreadableKept
                           THEN result.unreadable \cup {Head(pending)} ELSE result.unreadable)
                   /\ \/ result' = result
                      \/ result' = [result EXCEPT !.skipped = result.skipped + 1, !.unreadable = U]
      BY <1>1 DEF OpenFolder
    <3>2. U \in SUBSET Folders
      BY <2>1, <3>1 DEF Results
    <3>3. CASE result' = result
      BY <3>3
    <3>4. CASE result' = [result EXCEPT !.skipped = result.skipped + 1, !.unreadable = U]
      BY <3>2, <3>4, UnreadableMore
    <3> QED
      BY <3>1, <3>3, <3>4
  <2>4. gaps' \subseteq Folders
    BY <1>1, <2>1 DEF OpenFolder
  <2>3. own' \in [bytes : Nat, allocated : Nat, files : Nat] /\ listing' \subseteq Entries
    BY <1>1 DEF OpenFolder, Nothing, EntriesOf
  <2> QED
    BY <1>1, <2>1, <2>2, <2>3, <2>4 DEF OpenFolder, disk
<1>2. CASE ReadEntry
  <2>1. PICK e \in listing : /\ listing' = listing \ {e}
                             /\ Subfolder(e) \/ File(e) \/ FileLink(e)
    BY <1>2 DEF ReadEntry
  <2>2. CASE Subfolder(e)
    <3>1. pending' \in Seq(Folders)
      BY <2>2, Lengthened DEF Subfolder
    <3>2. result' \in Results
      <4>1. result' = result \/ result' = [result EXCEPT !.folders = result.folders + 1]
        BY <2>2 DEF Subfolder
      <4>2. CASE result' = result
        BY <4>2
      <4>3. CASE result' = [result EXCEPT !.folders = result.folders + 1]
        BY <4>3, FolderMore
      <4> QED
        BY <4>1, <4>2, <4>3
    <3> QED
      BY <1>2, <2>1, <2>2, <3>1, <3>2 DEF Subfolder, ReadEntry, disk
  <2>3. CASE File(e)
    <3>1. Bytes(e) \in Nat /\ Allocated(e) \in Nat /\ ContentOf[e] \in Contents /\ e \in FileNames \ Links
      BY <2>3, FilesApart, AllocatedNat DEF File
    <3>2. result' \in Results
      <4>1. PICK o, d : /\ o = result.online + (IF e \in Online THEN Bytes(e) ELSE 0)
                        /\ d = result.duplicates + (IF Duplicate(e) THEN 1 ELSE 0)
        OBVIOUS
      <4>2. result' = [result EXCEPT !.total = result.total + Bytes(e),
                                     !.allocated = result.allocated + Allocated(e),
                                     !.files = result.files + 1, !.online = o, !.duplicates = d]
        BY <2>3, <4>1 DEF File
      <4>8. result \in Results
        OBVIOUS
      <4> HIDE DEF ScanTypes
      <4>7. /\ result.total \in Nat /\ result.allocated \in Nat /\ result.files \in Nat
            /\ result.online \in Nat /\ result.duplicates \in Nat
        BY <4>8, FieldsOfResult
      <4>3. /\ result.total + Bytes(e) \in Nat /\ result.allocated + Allocated(e) \in Nat
            /\ result.files + 1 \in Nat
        BY <3>1, <4>7
      <4>4. o \in Nat
        BY <3>1, <4>1, <4>7
      <4>5. d = result.duplicates + 1 \/ d = result.duplicates + 0
        BY <4>1
      <4>6. d \in Nat
        BY <4>5, <4>7
      <4> QED
        BY <4>2, <4>3, <4>4, <4>6, <4>8, ResultOfFile
    <3>3. own' \in [bytes : Nat, allocated : Nat, files : Nat] /\ charged' \in [Contents -> Nat]
      <4>1. own' \in [bytes : Nat, allocated : Nat, files : Nat]
        BY <2>3, <3>1 DEF File
      <4>2. charged' \in [Contents -> Nat]
        BY <2>3, <3>1 DEF File
      <4> QED
        BY <4>1, <4>2
    <3>4. seen' \subseteq Contents /\ counted' \subseteq FileNames \ Links /\ largest' \subseteq counted'
      BY <2>3, <3>1 DEF File
    <3> QED
      BY <1>2, <2>1, <2>3, <3>2, <3>3, <3>4 DEF File, ReadEntry, disk
  <2>4. CASE FileLink(e)
    BY <1>2, <2>1, <2>4 DEF FileLink, ReadEntry, disk
  <2> QED
    BY <2>1, <2>2, <2>3, <2>4
<1>3. CASE CloseFolder
  <2>1. current \in Folders
    BY <1>3 DEF CloseFolder
  <2>2. result' \in Results /\ gaps' \subseteq Folders
    <3>1. result' = result \/ result' = [result EXCEPT !.skipped = result.skipped + 1]
      BY <1>3 DEF CloseFolder
    <3>2. result' \in Results
      BY <3>1, SkippedMore
    <3>3. gaps' \subseteq Folders
      BY <1>3, <2>1 DEF CloseFolder
    <3> QED
      BY <3>2, <3>3
  <2>3. DOMAIN rollups' \subseteq Folders
    <3>1. rollups' = rollups \/ rollups' = Rolled(current)
      BY <1>3 DEF CloseFolder
    <3>2. DOMAIN Rolled(current) = DOMAIN rollups \cup {current}
      BY DEF Rolled
    <3> QED
      BY <2>1, <3>1, <3>2
  <2>4. largest' \subseteq counted'
    BY <1>3 DEF CloseFolder, Pruned, LargestOf
  <2> QED
    BY <1>3, <2>2, <2>3, <2>4 DEF CloseFolder, disk, Nothing
<1>4. CASE Finish
  <2>1. largest' \subseteq counted' /\ result' \in Results
    BY <1>4 DEF Finish, LargestOf, history, Results
  <2> QED
    BY <1>4, <2>1 DEF Finish, disk, history
<1>5. CASE StopEarly
  BY <1>5 DEF StopEarly, disk, history
<1>6. CASE RequestStop
  BY <1>6 DEF RequestStop, disk, history
<1>7. CASE Change
  BY <1>7 DEF Change, history
<1> QED
  BY <1>1, <1>2, <1>3, <1>4, <1>5, <1>6, <1>7 DEF ScanNext, ScanStep

-----------------------------------------------------------------------------
(* The frontier.                                                             *)

LEMMA FrontierInit == Init => Frontier
<1> SUFFICES ASSUME Init PROVE Frontier
  OBVIOUS
<1>1. DOMAIN <<Root>> = {1}
  OBVIOUS
<1>2. current \notin gaps
  BY DEF Init
<1>3. \A i, j \in DOMAIN pending : i = j
  BY <1>1 DEF Init
<1> QED
  BY <1>2, <1>3 DEF Init, Frontier

\* The folder taken from the queue is above and below none that stays.
LEMMA TakenApart ==
  ASSUME ScanTypes, Frontier, pending # <<>>, pending' = Tail(pending)
  PROVE  /\ Head(pending) \in Folders /\ Head(pending) \in Waiting
         /\ Waiting' \subseteq Waiting
         /\ \A g \in Waiting' : /\ g \notin AncestorsOrSelf(Head(pending))
                               /\ Head(pending) \notin AncestorsOrSelf(g)
         /\ \A i, j \in DOMAIN pending' : i # j => pending'[i] \notin AncestorsOrSelf(pending'[j])
<1>0. pending \in Seq(Folders)
  BY DEF ScanTypes
<1>1. /\ Head(pending) = pending[1] /\ 1 \in DOMAIN pending
      /\ \A i \in DOMAIN pending' : i + 1 \in DOMAIN pending /\ pending'[i] = pending[i + 1]
      /\ DOMAIN pending' \subseteq Nat
  BY <1>0, HeadAndTail
<1>2. \A i, j \in DOMAIN pending : i # j => pending[i] \notin AncestorsOrSelf(pending[j])
  BY DEF Frontier
<1>3. \A i, j \in DOMAIN pending' : i # j => pending'[i] \notin AncestorsOrSelf(pending'[j])
  <2> SUFFICES ASSUME NEW CONSTANT i \in DOMAIN pending', NEW CONSTANT j \in DOMAIN pending', i # j
               PROVE  pending'[i] \notin AncestorsOrSelf(pending'[j])
    OBVIOUS
  <2>1. i + 1 # j + 1
    BY <1>1
  <2> QED
    BY <1>1, <1>2, <2>1
<1>4. ASSUME NEW CONSTANT i \in DOMAIN pending'
      PROVE  /\ pending'[i] \notin AncestorsOrSelf(Head(pending))
             /\ Head(pending) \notin AncestorsOrSelf(pending'[i])
  <2>1. i + 1 # 1
    BY <1>1
  <2> QED
    BY <1>1, <1>2, <2>1
<1>5. Waiting' = {pending'[i] : i \in DOMAIN pending'}
  BY DEF Waiting
<1> QED
  BY <1>0, <1>3, <1>4, <1>5, WaitingLess

LEMMA FrontierOpen == ScanTypes /\ Frontier /\ OpenFolder => Frontier'
<1> SUFFICES ASSUME ScanTypes, Frontier, OpenFolder PROVE Frontier'
  OBVIOUS
<1>1. PICK f : f = Head(pending)
  OBVIOUS
<1>2. /\ f \in Folders /\ f \in Waiting /\ Waiting' \subseteq Waiting
      /\ \A g \in Waiting' : g \notin AncestorsOrSelf(f) /\ f \notin AncestorsOrSelf(g)
      /\ \A i, j \in DOMAIN pending' : i # j => pending'[i] \notin AncestorsOrSelf(pending'[j])
  BY <1>1, TakenApart DEF OpenFolder
<1>3. listing = {} /\ f # None /\ counted' = counted
  BY <1>2, EntriesAssumption DEF OpenFolder, Frontier, ScanTypes
<1>4. \A x \in gaps \cup counted : AncestorsOrSelf(x) \cap (Waiting \cup listing) = {}
  BY DEF Frontier
<1>5. f \in AncestorsOrSelf(f)
  BY <1>2, FilesApart, SelfFirst
<1>6. f \notin gaps
  BY <1>2, <1>4, <1>5
<1>7. gaps \cup counted \subseteq Nodes /\ Waiting \subseteq Nodes
  BY FilesApart DEF ScanTypes, Waiting
<1>8. CASE current' = f /\ listing' = EntriesOf(f) /\ gaps' = gaps
  <2>1. listing' \subseteq {e \in Entries : In[e] = f}
    BY <1>8 DEF EntriesOf, ScanTypes
  <2>2. ASSUME NEW CONSTANT e \in listing', NEW CONSTANT g \in Waiting'
        PROVE  g \notin AncestorsOrSelf(e) /\ e \notin AncestorsOrSelf(g)
    <3>1. g \in Nodes /\ e \in Entries /\ In[e] = f /\ e \in Nodes
      BY <1>2, <1>7, <2>1, <2>2, FilesApart
    <3>2. AncestorsOrSelf(e) = {e} \cup AncestorsOrSelf(f)
      BY <3>1, FromTheParent
    <3>3. f \in AncestorsOrSelf(e)
      BY <1>5, <3>2
    <3>4. e \notin AncestorsOrSelf(g)
      BY <1>2, <2>2, <3>1, Above
    <3>5. g # e
      BY <3>1, <3>4, SelfFirst
    <3> QED
      BY <1>2, <2>2, <3>2, <3>4, <3>5
  <2>3. ASSUME NEW CONSTANT x \in gaps \cup counted
        PROVE  AncestorsOrSelf(x) \cap (Waiting' \cup listing') = {}
    <3>1. x \in Nodes /\ f \notin AncestorsOrSelf(x)
      BY <1>2, <1>4, <1>7, <2>3
    <3>2. \A e \in listing' : e \notin AncestorsOrSelf(x)
      BY <2>1, <3>1, Above
    <3> QED
      BY <1>2, <1>4, <2>3, <3>2
  <2> QED
    BY <1>2, <1>3, <1>6, <1>8, <2>1, <2>2, <2>3 DEF Frontier
<1>9. CASE gaps' = gaps \cup {f} /\ UNCHANGED <<current, listing>>
  <2>1. current' \notin gaps'
    BY <1>3, <1>9 DEF OpenFolder, Frontier
  <2> QED
    BY <1>2, <1>3, <1>4, <1>9, <2>1 DEF Frontier, OpenFolder
<1> QED
  BY <1>1, <1>8, <1>9 DEF OpenFolder

LEMMA FrontierRead == ScanTypes /\ Frontier /\ ReadEntry => Frontier'
<1> SUFFICES ASSUME ScanTypes, Frontier, ReadEntry PROVE Frontier'
  OBVIOUS
<1>1. PICK e \in listing : /\ listing' = listing \ {e}
                           /\ Subfolder(e) \/ File(e) \/ FileLink(e)
  BY DEF ReadEntry
<1>2. e \in Entries /\ In[e] = current /\ listing \subseteq {g \in Entries : In[g] = current}
  BY <1>1 DEF Frontier
<1>3. current' = current /\ gaps' = gaps /\ current # None
  BY DEF ReadEntry
<1>4. e \in Nodes /\ e \in AncestorsOrSelf(e)
  BY <1>2, FilesApart, SelfFirst
<1>5. \A g \in listing' : g \notin AncestorsOrSelf(e) /\ e \notin AncestorsOrSelf(g)
  BY <1>1, <1>2, Siblings
<1>6. CASE pending' = pending
  <2>1. Waiting' = Waiting
    BY <1>6 DEF Waiting
  <2>2. counted' = counted \/ counted' = counted \cup {e}
    BY <1>1 DEF Subfolder, File, FileLink
  <2>3. \A x \in gaps' \cup counted' : AncestorsOrSelf(x) \cap (Waiting' \cup listing') = {}
    <3>1. AncestorsOrSelf(e) \cap (Waiting' \cup listing') = {}
      BY <1>1, <1>5, <2>1 DEF Frontier
    <3> QED
      BY <1>1, <1>3, <2>1, <2>2, <3>1 DEF Frontier
  <2> QED
    BY <1>1, <1>2, <1>3, <1>6, <2>1, <2>3 DEF Frontier
<1>7. CASE pending' = Append(pending, e) /\ e \in Folders /\ counted' = counted
  <2>0. pending \in Seq(Folders)
    BY DEF ScanTypes
  <2>1. Waiting' = Waiting \cup {e}
    BY <1>7, <2>0, WaitingMore
  <2>2. e \notin AncestorsOrSelf(current)
    BY <1>2, NotBelowItself
  <2>3. /\ DOMAIN pending' = DOMAIN pending \cup {Len(pending) + 1}
        /\ \A i \in DOMAIN pending : pending'[i] = pending[i] /\ pending[i] \in Waiting
        /\ pending'[Len(pending) + 1] = e
    BY <1>7, <2>0, Lengthened DEF Waiting
  <2>4. ASSUME NEW CONSTANT i \in DOMAIN pending', NEW CONSTANT j \in DOMAIN pending', i # j
        PROVE  pending'[i] \notin AncestorsOrSelf(pending'[j])
    <3>1. CASE i \in DOMAIN pending /\ j \in DOMAIN pending
      BY <2>3, <2>4, <3>1 DEF Frontier
    <3>2. CASE i = Len(pending) + 1
      <4>1. j \in DOMAIN pending
        BY <2>3, <2>4, <3>2
      <4> QED
        BY <1>1, <2>3, <3>2, <4>1 DEF Frontier
    <3>3. CASE j = Len(pending) + 1
      <4>1. i \in DOMAIN pending
        BY <2>3, <2>4, <3>3
      <4> QED
        BY <1>1, <2>3, <3>3, <4>1 DEF Frontier
    <3> QED
      BY <2>3, <2>4, <3>1, <3>2, <3>3
  <2>5. \A f \in Waiting', g \in listing' : f \notin AncestorsOrSelf(g) /\ g \notin AncestorsOrSelf(f)
    BY <1>1, <1>5, <2>1 DEF Frontier
  <2>6. \A x \in gaps' \cup counted' : AncestorsOrSelf(x) \cap (Waiting' \cup listing') = {}
    BY <1>1, <1>3, <1>7, <2>1 DEF Frontier
  <2>7. \A f \in Waiting' : f \notin AncestorsOrSelf(current')
    BY <1>3, <2>1, <2>2 DEF Frontier
  <2>8. listing' \subseteq {g \in Entries : In[g] = current'}
    BY <1>1, <1>2, <1>3
  <2>9. current' \notin gaps'
    BY <1>3 DEF Frontier
  <2> QED
    BY <2>4, <2>5, <2>6, <2>7, <2>8, <2>9 DEF Frontier
<1> QED
  BY <1>1, <1>6, <1>7 DEF Subfolder, File, FileLink

LEMMA FrontierClose == ScanTypes /\ Frontier /\ CloseFolder => Frontier'
<1> SUFFICES ASSUME ScanTypes, Frontier, CloseFolder PROVE Frontier'
  OBVIOUS
<1>1. /\ current \in Folders /\ current' = None /\ listing' = {}
      /\ pending' = pending /\ counted' = counted
      /\ gaps' = gaps \/ gaps' = gaps \cup {current}
  BY DEF CloseFolder, ScanTypes
<1>2. Waiting' = Waiting
  BY <1>1 DEF Waiting
<1>3. AncestorsOrSelf(current) \cap Waiting = {}
  BY <1>1, FilesApart DEF Frontier
<1>4. current' \notin gaps'
  BY <1>1, FilesApart DEF ScanTypes
<1> QED
  BY <1>1, <1>2, <1>3, <1>4 DEF Frontier

LEMMA FrontierStep == ScanTypes /\ Frontier /\ ScanNext => Frontier'
<1> SUFFICES ASSUME ScanTypes, Frontier, ScanNext PROVE Frontier'
  OBVIOUS
<1>1. CASE Finish \/ StopEarly \/ RequestStop \/ Change
  <2>1. UNCHANGED <<pending, current, listing, gaps, counted>>
    BY <1>1 DEF Finish, StopEarly, RequestStop, Change, history
  <2>2. Waiting' = Waiting
    BY <2>1 DEF Waiting
  <2> QED
    BY <2>1, <2>2 DEF Frontier
<1> QED
  BY <1>1, FrontierOpen, FrontierRead, FrontierClose DEF ScanNext, ScanStep

-----------------------------------------------------------------------------
(* Nothing silent.                                                           *)

LEMMA StillThereKept == (Init => StillThere) /\ (ScanTypes /\ StillThere /\ ScanNext => StillThere')
<1>1. Init => StillThere
  BY DEF Init, StillThere
<1>2. ASSUME ScanTypes, StillThere, ScanNext PROVE StillThere'
  <2>1. CASE Change
    BY <1>2, <2>1 DEF Change, StillThere
  <2>2. CASE ~Change
    <3>1. UNCHANGED disk
      BY <1>2, <2>2 DEF ScanNext, ScanStep, OpenFolder, ReadEntry, CloseFolder, Finish, StopEarly, RequestStop
    <3> QED
      BY <1>2, <3>1 DEF StillThere, disk
  <2> QED
    BY <2>1, <2>2
<1> QED
  BY <1>1, <1>2

\* Nobody untouches a name.
LEMMA TouchedGrows == ScanNext => touched \subseteq touched'
BY DEF ScanNext, ScanStep, OpenFolder, ReadEntry, CloseFolder, Finish, StopEarly, RequestStop, Change, disk

LEMMA UntouchedBefore ==
  ASSUME ScanNext, NEW CONSTANT e, Untouched(e)'
  PROVE  Untouched(e)
BY TouchedGrows DEF Untouched

LEMMA PromisedInit == Init => Promised
<1> SUFFICES ASSUME Init PROVE Promised
  OBVIOUS
<1>1. Root \in Waiting
  BY DEF Init, Waiting
<1>2. \A n \in FileNames : Root \in AncestorsOrSelf(n)
  BY FilesApart, SelfFirst
<1>3. IsFiniteSet(gaps) /\ Cardinality(gaps) = result.skipped
  BY FS_EmptySet DEF Init
<1> QED
  BY <1>1, <1>2, <1>3 DEF Init, Promised

Owed(n) == n \in counted \/ AncestorsOrSelf(n) \cap (gaps \cup Waiting \cup listing) # {}

\* A folder that is listed hands what it owed to its entries.
LEMMA OwedOpen ==
  ASSUME ScanTypes, Frontier, StillThere, OpenFolder,
         NEW CONSTANT n \in FileNames, Untouched(n), Owed(n)
  PROVE  Owed(n)'
<1>1. PICK f : f = Head(pending)
  OBVIOUS
<1>2. /\ f \in Folders /\ Waiting = {f} \cup Waiting'
      /\ listing = {} /\ counted' = counted /\ gaps \subseteq gaps'
  <2>1. f \in Folders /\ Waiting = {f} \cup Waiting'
    BY <1>1, WaitingLess DEF OpenFolder, ScanTypes
  <2> QED
    BY <2>1, FilesApart, EntriesAssumption DEF OpenFolder, Frontier
<1>3. CASE f \notin AncestorsOrSelf(n)
  BY <1>2, <1>3 DEF Owed
<1>4. CASE f \in AncestorsOrSelf(n) /\ f \in gaps'
  BY <1>4 DEF Owed
<1>5. CASE f \in AncestorsOrSelf(n) /\ listing' = EntriesOf(f)
  <2>1. n \in Nodes /\ n # f
    BY <1>2, FilesApart
  <2>2. PICK y \in AncestorsOrSelf(n) \cap Entries : In[y] = f
    BY <1>5, <2>1, Above
  <2>3. y \in present
    BY <2>2 DEF StillThere, Untouched
  <2>4. y \in listing'
    BY <1>5, <2>2, <2>3 DEF EntriesOf
  <2> QED
    BY <2>2, <2>4 DEF Owed
<1> QED
  BY <1>1, <1>3, <1>4, <1>5 DEF OpenFolder

LEMMA OwedRead ==
  ASSUME ScanTypes, ReadEntry,
         NEW CONSTANT n \in FileNames, WithinReach(n), Owed(n)
  PROVE  Owed(n)'
<1>1. PICK e \in listing : /\ listing' = listing \ {e}
                           /\ Subfolder(e) \/ File(e) \/ FileLink(e)
  BY DEF ReadEntry
<1>2. gaps' = gaps /\ e \in Entries
  BY <1>1 DEF ReadEntry, ScanTypes
<1>3. n \in Nodes /\ n \notin Folders /\ n \notin Links
  BY FilesApart DEF WithinReach
<1>4. CASE Subfolder(e)
  <2>1. counted' = counted /\ e \in Folders
    BY <1>4 DEF Subfolder
  <2>2. CASE e \in Links
    <3>1. Waiting' = Waiting
      BY <1>4, <2>2 DEF Subfolder, Waiting
    <3>2. e \notin AncestorsOrSelf(n)
      BY <1>3, <2>1, <2>2 DEF WithinReach
    <3> QED
      BY <1>1, <1>2, <2>1, <3>1, <3>2 DEF Owed
  <2>3. CASE e \notin Links
    <3>1. Waiting' = Waiting \cup {e}
      BY <1>4, <2>1, <2>3, WaitingMore DEF Subfolder, ScanTypes
    <3> QED
      BY <1>1, <1>2, <2>1, <3>1 DEF Owed
  <2> QED
    BY <2>2, <2>3
<1>5. CASE File(e) \/ FileLink(e)
  <2>1. Waiting' = Waiting /\ counted \subseteq counted' /\ e \in FileNames
    BY <1>5 DEF File, FileLink, Waiting
  <2>2. CASE e = n
    <3>1. n \in counted'
      BY <1>3, <1>5, <2>2 DEF File, FileLink
    <3> QED
      BY <3>1 DEF Owed
  <2>3. CASE e # n
    <3>1. e \notin AncestorsOrSelf(n)
      BY <1>3, <2>1, <2>3, FilesApart, Above
    <3> QED
      BY <1>1, <1>2, <2>1, <3>1 DEF Owed
  <2> QED
    BY <2>2, <2>3
<1> QED
  BY <1>1, <1>4, <1>5

LEMMA OwedClose ==
  ASSUME ScanTypes, Frontier, CloseFolder, NEW CONSTANT n \in FileNames, Owed(n)
  PROVE  Owed(n)'
<1>1. /\ Waiting' = Waiting /\ counted' = counted
      /\ \/ listing = {} /\ gaps' = gaps
         \/ gaps' = gaps \cup {current}
  BY DEF CloseFolder, Waiting
<1>2. ASSUME NEW CONSTANT e \in AncestorsOrSelf(n) \cap listing
      PROVE  current \in AncestorsOrSelf(n)
  BY <1>2, FilesApart, Above DEF Frontier
<1> QED
  BY <1>1, <1>2 DEF Owed

\* Each gap is a folder that was none before, and is counted.
LEMMA GapsCounted ==
  ASSUME ScanTypes, Frontier, Promised, ScanNext
  PROVE  IsFiniteSet(gaps') /\ Cardinality(gaps') = result'.skipped
<1>1. IsFiniteSet(gaps) /\ Cardinality(gaps) = result.skipped /\ result \in Results
  BY DEF Promised, ScanTypes
<1>2. ASSUME NEW CONSTANT f, f \notin gaps, gaps' = gaps \cup {f}, result'.skipped = result.skipped + 1
      PROVE  IsFiniteSet(gaps') /\ Cardinality(gaps') = result'.skipped
  BY <1>1, <1>2, FS_AddElement
<1>3. CASE OpenFolder
  <2>1. CASE gaps' = gaps /\ result' = result
    BY <1>1, <2>1
  <2>2. CASE ~(gaps' = gaps /\ result' = result)
    <3>1. PICK f : f = Head(pending)
      OBVIOUS
    <3>2. f \in Waiting /\ f \in Folders
      BY <1>3, <3>1, TakenApart, WaitingLess DEF OpenFolder, ScanTypes
    <3>3. f \notin gaps
      BY <3>2, FilesApart, SelfFirst DEF Frontier
    <3>4. PICK U : /\ gaps' = gaps \cup {f}
                   /\ result' = [result EXCEPT !.skipped = result.skipped + 1, !.unreadable = U]
      BY <1>3, <2>2, <3>1 DEF OpenFolder
    <3>5. result'.skipped = result.skipped + 1
      BY <1>1, <3>4 DEF Results
    <3> QED
      BY <1>2, <3>3, <3>4, <3>5
  <2> QED
    BY <2>1, <2>2
<1>4. CASE ReadEntry
  <2>1. gaps' = gaps
    BY <1>4 DEF ReadEntry
  <2>2. result'.skipped = result.skipped
    <3>1. PICK e : Subfolder(e) \/ File(e) \/ FileLink(e)
      BY <1>4 DEF ReadEntry
    <3>2. CASE Subfolder(e)
      BY <1>1, <3>2 DEF Subfolder, Results
    <3>3. CASE File(e)
      BY <1>1, <3>3 DEF File, Results
    <3>4. CASE FileLink(e)
      BY <3>4 DEF FileLink
    <3> QED
      BY <3>1, <3>2, <3>3, <3>4
  <2> QED
    BY <1>1, <2>1, <2>2
<1>5. CASE CloseFolder
  <2>1. CASE gaps' = gaps /\ result' = result
    BY <1>1, <2>1
  <2>2. CASE gaps' = gaps \cup {current} /\ result' = [result EXCEPT !.skipped = result.skipped + 1]
    <3>1. current \notin gaps
      BY DEF Frontier
    <3>2. result'.skipped = result.skipped + 1
      BY <1>1, <2>2, SkippedMore
    <3> QED
      BY <1>2, <2>2, <3>1, <3>2
  <2> QED
    BY <1>5, <2>1, <2>2 DEF CloseFolder
<1>6. CASE Finish
  <2>1. gaps' = gaps /\ result'.skipped = result.skipped
    BY <1>1, <1>6 DEF Finish, history, Results
  <2> QED
    BY <1>1, <2>1
<1>7. CASE StopEarly \/ RequestStop \/ Change
  BY <1>1, <1>7 DEF StopEarly, RequestStop, Change, history
<1> QED
  BY <1>3, <1>4, <1>5, <1>6, <1>7 DEF ScanNext, ScanStep

LEMMA CompletedByFinish ==
  ASSUME ScanTypes, ScanNext, result.completed => done
  PROVE  ~result.completed /\ (result'.completed => Finish)
<1>0. result \in Results
  BY DEF ScanTypes
<1>1. ~done
  BY DEF ScanNext, ScanStep, OpenFolder, ReadEntry, CloseFolder, Finish, StopEarly, RequestStop, Change
<1>2. CASE ~Finish
  <2>1. CASE OpenFolder
    <3>1. PICK U : \/ result' = result
                   \/ result' = [result EXCEPT !.skipped = result.skipped + 1, !.unreadable = U]
      BY <2>1 DEF OpenFolder
    <3> QED
      BY <1>0, <1>1, <3>1 DEF Results
  <2>2. CASE ReadEntry
    <3>1. PICK e : Subfolder(e) \/ File(e) \/ FileLink(e)
      BY <2>2 DEF ReadEntry
    <3>2. CASE Subfolder(e)
      BY <1>0, <1>1, <3>2 DEF Subfolder, Results
    <3>3. CASE File(e)
      BY <1>0, <1>1, <3>3 DEF File, Results
    <3>4. CASE FileLink(e)
      BY <1>1, <3>4 DEF FileLink
    <3> QED
      BY <3>1, <3>2, <3>3, <3>4
  <2>3. CASE CloseFolder
    <3>1. result' = result \/ result' = [result EXCEPT !.skipped = result.skipped + 1]
      BY <2>3 DEF CloseFolder
    <3> QED
      BY <1>0, <1>1, <3>1, SkippedMore
  <2>4. CASE StopEarly \/ RequestStop \/ Change
    BY <1>1, <2>4 DEF StopEarly, RequestStop, Change
  <2> QED
    BY <1>2, <2>1, <2>2, <2>3, <2>4 DEF ScanNext, ScanStep
<1> QED
  BY <1>1, <1>2

\* The walk says it is complete when nothing waits.
LEMMA CompleteAtTheEnd ==
  ASSUME ScanTypes, Frontier, ScanNext, result.completed => done
  PROVE  result'.completed => done' /\ Waiting' = {} /\ listing' = {}
<1> SUFFICES ASSUME result'.completed PROVE done' /\ Waiting' = {} /\ listing' = {}
  OBVIOUS
<1>1. Finish
  BY CompletedByFinish
<1>2. Waiting' = {}
  BY <1>1 DEF Finish, Waiting
<1>3. listing' = {}
  BY <1>1, EntriesAssumption DEF Finish, Frontier
<1> QED
  BY <1>1, <1>2, <1>3 DEF Finish

LEMMA PromisedStep == ScanTypes /\ Frontier /\ StillThere /\ Promised /\ ScanNext => Promised'
<1> SUFFICES ASSUME ScanTypes, Frontier, StillThere, Promised, ScanNext PROVE Promised'
  OBVIOUS
<1>1. ASSUME NEW CONSTANT n \in FileNames, Untouched(n)', WithinReach(n) PROVE Owed(n)'
  <2>1. Untouched(n) /\ Owed(n)
    BY <1>1, UntouchedBefore DEF Promised, Owed
  <2>2. CASE OpenFolder
    BY <2>1, <2>2, OwedOpen
  <2>3. CASE ReadEntry
    BY <1>1, <2>1, <2>3, OwedRead
  <2>4. CASE CloseFolder
    BY <2>1, <2>4, OwedClose
  <2>5. CASE Finish \/ StopEarly \/ RequestStop \/ Change
    <3>1. UNCHANGED <<pending, listing, gaps, counted>>
      BY <2>5 DEF Finish, StopEarly, RequestStop, Change, history
    <3>2. Waiting' = Waiting
      BY <3>1 DEF Waiting
    <3> QED
      BY <2>1, <3>1, <3>2 DEF Owed
  <2> QED
    BY <2>2, <2>3, <2>4, <2>5 DEF ScanNext, ScanStep
<1>2. \A n \in FileNames : Untouched(n)' /\ WithinReach(n)' =>
         n \in counted' \/ AncestorsOrSelf(n) \cap (gaps' \cup Waiting' \cup listing') # {}
  BY <1>1 DEF Owed, WithinReach
<1>3. IsFiniteSet(gaps') /\ Cardinality(gaps') = result'.skipped
  BY GapsCounted
<1>4. result'.completed => done' /\ Waiting' = {} /\ listing' = {}
  BY CompleteAtTheEnd DEF Promised
<1> QED
  BY <1>2, <1>3, <1>4 DEF Promised

-----------------------------------------------------------------------------
(* Each content once.                                                        *)

LEMMA NamesFinite == \A S \in SUBSET Entries : IsFiniteSet(S) /\ Cardinality(S) \in Nat
BY EntriesAssumption, FS_Subset, FS_CardinalityType

LEMMA ChargedOnceInit == Init => ChargedOnce
BY DEF Init, ChargedOnce, Met

LEMMA ExistsUntouched ==
  ASSUME StillThere, NEW CONSTANT n \in FileNames, Untouched(n)
  PROVE  Exists(n)
BY FilesApart, Above DEF StillThere, Untouched, Exists, Nodes

LEMMA ChargeOfFile ==
  ASSUME ScanTypes, Frontier, StillThere, ChargedOnce,
         NEW CONSTANT n \in listing, File(n), Standing(ContentOf[n])
  PROVE  LET k == ContentOf[n]
         IN  /\ charged'[k] = IF Met(k)' = {} THEN 0 ELSE 1
             /\ Cardinality(NamesOf(k)) > 1 => (k \in seen' <=> Met(k)' # {})
<1>1. PICK k \in Contents : k = ContentOf[n]
  BY FilesApart DEF File
<1>2. n \in NamesOf(k) /\ n \in FileNames /\ NamesOf(k) \in SUBSET Entries
  BY <1>1, FilesApart DEF File, NamesOf
<1>3. n \notin counted
  BY <1>2, FilesApart, SelfFirst DEF Frontier
<1>4. {m \in NamesOf(k) : Exists(m)} = NamesOf(k)
  BY <1>1, ExistsUntouched DEF Standing, NamesOf
<1>5. Identified(n) <=> Cardinality(NamesOf(k)) > 1
  BY <1>1, <1>2, <1>4 DEF Identified, Standing, Bytes
<1>6. Bytes(n) \in Nat /\ Bytes(n) > 0
  BY <1>1, <1>2, FilesApart, NumbersAssumption DEF Standing, Bytes
<1>7. RoundedToCluster(Bytes(n)) > 0
  BY <1>6, Rounding
<1>8. /\ charged[k] = IF Met(k) = {} THEN 0 ELSE 1
      /\ Cardinality(NamesOf(k)) > 1 => (k \in seen <=> Met(k) # {})
  BY <1>1 DEF ChargedOnce
<1>9. charged'[k] = charged[k] + (IF Allocated(n) > 0 THEN 1 ELSE 0)
  BY <1>1 DEF File, ScanTypes
<1>10. CASE n \in Online
  <2>1. Met(k)' = Met(k)
    BY <1>10 DEF Met, File
  <2>2. Allocated(n) = 0 /\ seen' = seen
    BY <1>10 DEF Allocated, File
  <2>3. charged'[k] = charged[k]
    BY <1>8, <1>9, <2>2
  <2> QED
    BY <1>1, <1>8, <2>1, <2>2, <2>3
<1>11. CASE n \notin Online
  <2>1. Met(k)' = Met(k) \cup {n}
    BY <1>2, <1>11 DEF Met, File
  <2>2. CASE Cardinality(NamesOf(k)) > 1
    <3>1. Identified(n) /\ (Duplicate(n) <=> k \in seen)
      BY <1>1, <1>5, <1>11, <2>2 DEF Duplicate
    <3>2. k \in seen'
      BY <1>1, <1>11, <3>1 DEF File
    <3>3. charged'[k] = 1
      <4>1. CASE k \in seen
        <5>1. Allocated(n) = 0
          BY <3>1, <4>1 DEF Allocated
        <5> QED
          BY <1>8, <1>9, <2>2, <4>1, <5>1
      <4>2. CASE k \notin seen
        <5>1. Allocated(n) > 0
          BY <1>7, <1>11, <3>1, <4>2 DEF Allocated
        <5> QED
          BY <1>8, <1>9, <2>2, <4>2, <5>1
      <4> QED
        BY <4>1, <4>2
    <3> QED
      BY <1>1, <2>1, <3>2, <3>3
  <2>3. CASE ~(Cardinality(NamesOf(k)) > 1)
    <3>1. NamesOf(k) = {n}
      <4>1. IsFiniteSet(NamesOf(k)) /\ Cardinality(NamesOf(k)) \in Nat
        BY <1>2, NamesFinite
      <4>2. IsFiniteSet(NamesOf(k) \ {n}) /\ Cardinality(NamesOf(k) \ {n}) = Cardinality(NamesOf(k)) - 1
        BY <1>2, <4>1, FS_RemoveElement
      <4>3. Cardinality(NamesOf(k) \ {n}) = 0
        BY <2>3, <4>1, <4>2, FS_CardinalityType
      <4> QED
        BY <1>2, <4>2, <4>3, FS_EmptySet
    <3>2. Met(k) = {}
      BY <1>3, <3>1 DEF Met
    <3>3. Allocated(n) > 0
      BY <1>5, <1>7, <1>11, <2>3 DEF Allocated, Duplicate
    <3>4. charged'[k] = 1
      BY <1>8, <1>9, <3>2, <3>3
    <3> QED
      BY <1>1, <2>1, <2>3, <3>4
  <2> QED
    BY <2>2, <2>3
<1> QED
  BY <1>10, <1>11

LEMMA StandingBefore ==
  ASSUME ScanNext, NEW CONSTANT k, Standing(k)'
  PROVE  Standing(k)
<1>1. \A n \in NamesOf(k) : Untouched(n)
  <2> SUFFICES ASSUME NEW CONSTANT n \in NamesOf(k) PROVE Untouched(n)
    OBVIOUS
  <2>1. Untouched(n)'
    BY DEF Standing, NamesOf
  <2> QED
    BY <2>1, UntouchedBefore
<1> QED
  BY <1>1 DEF Standing

LEMMA ChargedOnceStep ==
  ScanTypes /\ Frontier /\ StillThere /\ ChargedOnce /\ ScanNext => ChargedOnce'
<1> SUFFICES ASSUME ScanTypes, Frontier, StillThere, ChargedOnce, ScanNext,
                    NEW CONSTANT k \in Contents, Standing(k)'
             PROVE  /\ charged'[k] = IF Met(k)' = {} THEN 0 ELSE 1
                    /\ Cardinality(NamesOf(k)) > 1 => (k \in seen' <=> Met(k)' # {})
  BY DEF ChargedOnce, Contents, NamesOf
<1>1. Standing(k)
  BY StandingBefore
<1>2. CASE ReadEntry
  <2>1. PICK e \in listing : Subfolder(e) \/ File(e) \/ FileLink(e)
    BY <1>2 DEF ReadEntry
  <2>2. CASE File(e) /\ ContentOf[e] = k
    BY <1>1, <2>1, <2>2, ChargeOfFile
  <2>3. CASE File(e) /\ ContentOf[e] # k
    <3>1. charged'[k] = charged[k] /\ (k \in seen' <=> k \in seen)
      BY <2>3 DEF File, ScanTypes
    <3>2. Met(k)' = Met(k)
      BY <2>3 DEF File, Met, NamesOf
    <3> QED
      BY <1>1, <3>1, <3>2 DEF ChargedOnce
  <2>4. CASE Subfolder(e) \/ FileLink(e)
    BY <1>1, <2>4 DEF Subfolder, FileLink, ChargedOnce, Met
  <2> QED
    BY <2>1, <2>2, <2>3, <2>4
<1>3. CASE ~ReadEntry
  <2>1. UNCHANGED <<charged, seen, counted>>
    BY <1>3 DEF ScanNext, ScanStep, OpenFolder, CloseFolder, Finish, StopEarly, RequestStop, Change, history
  <2> QED
    BY <1>1, <2>1 DEF ChargedOnce, Met
<1> QED
  BY <1>2, <1>3

-----------------------------------------------------------------------------
(* The largest files.                                                        *)

LEMMA LesserOf ==
  ASSUME NEW a \in Nat, NEW b \in Nat
  PROVE  Min({a, b}) = IF a <= b THEN a ELSE b
BY DEF Min

\* As many as are kept, each no smaller than a given size, keep smaller ones out.
LEMMA KeptAbove ==
  ASSUME NEW L \in SUBSET FileNames, NEW most \in Nat, NEW T \in LargestOf(L, most),
         NEW D \in SUBSET L, Cardinality(D) = most, NEW x \in FileNames,
         \A y \in D : Bytes(y) >= Bytes(x)
  PROVE  \A y \in T : Bytes(y) >= Bytes(x)
<1> SUFFICES ASSUME NEW t \in T, ~(Bytes(t) >= Bytes(x)) PROVE FALSE
  OBVIOUS
<1>1. T \in SUBSET L /\ Cardinality(T) = Min({most, Cardinality(L)})
      /\ \A y \in T, z \in L \ T : Bytes(y) >= Bytes(z)
  BY DEF LargestOf
<1>2. L \in SUBSET Entries /\ T \in SUBSET Entries /\ D \in SUBSET Entries
  BY <1>1, FilesApart
<1>3. /\ IsFiniteSet(T) /\ Cardinality(T) \in Nat /\ Cardinality(L) \in Nat
      /\ IsFiniteSet(T \ {t})
  BY <1>2, NamesFinite
<1>4. \A y \in L : Bytes(y) \in Nat
  BY FilesApart
<1>5. D \in SUBSET (T \ {t})
  <2> SUFFICES ASSUME NEW d \in D PROVE d \in T \ {t}
    OBVIOUS
  <2>1. Bytes(d) \in Nat /\ Bytes(t) \in Nat /\ Bytes(x) \in Nat /\ Bytes(d) >= Bytes(x)
    BY <1>1, <1>4, FilesApart
  <2>2. ~(Bytes(t) >= Bytes(d))
    BY <2>1
  <2> QED
    BY <1>1, <2>1, <2>2
<1>6. Cardinality(D) <= Cardinality(T \ {t})
  BY <1>3, <1>5, FS_Subset
<1>7. Cardinality(T \ {t}) = Cardinality(T) - 1
  BY <1>3, FS_RemoveElement
<1>8. Cardinality(T) <= most
  BY <1>1, <1>3, LesserOf
<1> QED
  BY <1>3, <1>6, <1>7, <1>8

LEMMA KeptNumber ==
  ASSUME ScanTypes
  PROVE  /\ options.largestKept \in Nat
         /\ counted \in SUBSET Entries /\ largest \in SUBSET Entries /\ largest \in SUBSET FileNames
         /\ counted \in SUBSET FileNames
BY FilesApart, NumbersAssumption DEF ScanTypes

LEMMA OutdoneStep == ScanTypes /\ Outdone /\ ScanNext => Outdone'
<1> SUFFICES ASSUME ScanTypes, Outdone, ScanNext, ~done', NEW CONSTANT x \in counted' \ largest'
             PROVE  \E T \in SUBSET largest' : /\ Cardinality(T) = options'.largestKept
                                               /\ \A y \in T : Bytes(y) >= Bytes(x)
  BY DEF Outdone, Bytes
<1>1. ~done /\ options' = options
  BY DEF ScanNext, ScanStep, OpenFolder, ReadEntry, CloseFolder, Finish, StopEarly, RequestStop, Change
<1>2. CASE largest \subseteq largest' /\ x \in counted \ largest
  BY <1>1, <1>2 DEF Outdone
<1>3. CASE ReadEntry
  <2>1. PICK e : Subfolder(e) \/ File(e) \/ FileLink(e)
    BY <1>3 DEF ReadEntry
  <2>2. largest \subseteq largest' /\ x \in counted \ largest
    BY <2>1 DEF Subfolder, File, FileLink
  <2> QED
    BY <1>2, <2>2
<1>4. CASE CloseFolder
  <2>1. counted' = counted /\ largest' \in Pruned(largest)
    BY <1>4 DEF CloseFolder
  <2>2. CASE largest' = largest
    BY <1>2, <2>1, <2>2
  <2>3. CASE /\ ~(Cardinality(largest) <= 2 * options.largestKept)
             /\ largest' \in LargestOf(largest, options.largestKept)
    <3>1. largest' \in SUBSET largest /\ Cardinality(largest') = options.largestKept
      <4>1. options.largestKept \in Nat /\ Cardinality(largest) \in Nat
        BY KeptNumber, NamesFinite
      <4> QED
        BY <2>3, <4>1, LesserOf DEF LargestOf
    <3>2. CASE x \in largest
      <4>1. \A y \in largest' : Bytes(y) >= Bytes(x)
        BY <2>3, <3>2 DEF LargestOf
      <4> QED
        BY <1>1, <3>1, <4>1
    <3>3. CASE x \notin largest
      <4>1. PICK D \in SUBSET largest : /\ Cardinality(D) = options.largestKept
                                        /\ \A y \in D : Bytes(y) >= Bytes(x)
        BY <1>1, <2>1, <3>3 DEF Outdone
      <4>2. PICK L, T, most : L = largest /\ T = largest' /\ most = options.largestKept
        OBVIOUS
      <4>3. L \in SUBSET FileNames /\ most \in Nat /\ x \in FileNames /\ T \in LargestOf(L, most)
            /\ D \in SUBSET L /\ Cardinality(D) = most
        BY <2>1, <2>3, <4>1, <4>2, KeptNumber
      <4>4. \A y \in T : Bytes(y) >= Bytes(x)
        BY <4>1, <4>3, KeptAbove
      <4> QED
        BY <1>1, <3>1, <4>2, <4>4
    <3> QED
      BY <3>2, <3>3
  <2> QED
    BY <2>1, <2>2, <2>3 DEF Pruned
<1>5. CASE ~ReadEntry /\ ~CloseFolder
  <2>1. UNCHANGED <<counted, largest>>
    BY <1>5 DEF ScanNext, ScanStep, OpenFolder, Finish, StopEarly, RequestStop, Change, history
  <2> QED
    BY <1>2, <2>1
<1> QED
  BY <1>3, <1>4, <1>5

LargestListed == result.completed => largest \in LargestOf(counted, options.largestKept)

\* What is cut from a list that nothing was lost from is cut from the whole.
LEMMA CutOfTheWhole ==
  ASSUME NEW C \in SUBSET FileNames, NEW L \in SUBSET C, NEW most \in Nat, NEW T \in LargestOf(L, most),
         \A x \in C \ L : \E D \in SUBSET L : /\ Cardinality(D) = most
                                            /\ \A y \in D : Bytes(y) >= Bytes(x)
  PROVE  T \in LargestOf(C, most)
<1>1. /\ T \in SUBSET L /\ Cardinality(T) = Min({most, Cardinality(L)})
      /\ \A y \in T, z \in L \ T : Bytes(y) >= Bytes(z)
  BY DEF LargestOf
<1>2. C \in SUBSET Entries /\ L \in SUBSET Entries
  BY FilesApart
<1>3. /\ IsFiniteSet(C) /\ IsFiniteSet(L)
      /\ Cardinality(C) \in Nat /\ Cardinality(L) \in Nat
  BY <1>2, NamesFinite
<1>4. Cardinality(T) = Min({most, Cardinality(C)})
  <2>1. CASE C = L
    BY <1>1, <2>1
  <2>2. CASE C # L
    <3>1. PICK D \in SUBSET L : Cardinality(D) = most
      BY <2>2
    <3>2. most <= Cardinality(L) /\ Cardinality(L) <= Cardinality(C)
      BY <1>3, <3>1, FS_Subset
    <3> QED
      BY <1>1, <1>3, <3>2, LesserOf
  <2> QED
    BY <2>1, <2>2
<1>5. ASSUME NEW z \in C \ T PROVE \A y \in T : Bytes(y) >= Bytes(z)
  <2>1. CASE z \in L
    BY <1>1, <1>5, <2>1
  <2>2. CASE z \notin L
    <3>1. PICK D \in SUBSET L : Cardinality(D) = most /\ \A y \in D : Bytes(y) >= Bytes(z)
      BY <1>5, <2>2
    <3> QED
      BY <1>5, <3>1, KeptAbove
  <2> QED
    BY <2>1, <2>2
<1>6. T \in SUBSET C
  BY <1>1
<1> QED
  BY <1>4, <1>5, <1>6 DEF LargestOf

LEMMA LargestListedStep ==
  ScanTypes /\ Outdone /\ (result.completed => done) /\ ScanNext => LargestListed'
<1> SUFFICES ASSUME ScanTypes, Outdone, result.completed => done, ScanNext, result'.completed
             PROVE  largest' \in LargestOf(counted', options'.largestKept)
  BY DEF LargestListed, LargestOf, Bytes
<1>1. Finish
  BY CompletedByFinish
<1>2. PICK C, L, T, most :
        C = counted /\ L = largest /\ T = largest' /\ most = options.largestKept
  OBVIOUS
<1>3. /\ T \in LargestOf(L, most) /\ counted' = C /\ options'.largestKept = most
  BY <1>1, <1>2 DEF Finish, history
<1>4. C \in SUBSET FileNames /\ L \in SUBSET C /\ most \in Nat
  BY <1>2, KeptNumber DEF ScanTypes
<1>5. \A x \in C \ L : \E D \in SUBSET L : /\ Cardinality(D) = most
                                           /\ \A y \in D : Bytes(y) >= Bytes(x)
  BY <1>1, <1>2 DEF Outdone, Finish
<1>6. T \in LargestOf(C, most)
  BY <1>3, <1>4, <1>5, CutOfTheWhole
<1> QED
  BY <1>2, <1>3, <1>6

-----------------------------------------------------------------------------
(* The theorems.                                                             *)

WalkInv ==
  /\ ScanTypes /\ Frontier /\ StillThere /\ Promised
  /\ ChargedOnce /\ Outdone /\ LargestListed

LEMMA WalkInductive == SurveySpec => []WalkInv
<1>1. SurveyInit => WalkInv
  <2>1. Init => Outdone /\ LargestListed
    BY DEF Init, Outdone, LargestListed
  <2> QED
    BY <2>1, TypesInit, FrontierInit, StillThereKept, PromisedInit, ChargedOnceInit
       DEF SurveyInit, WalkInv
<1>2. WalkInv /\ [SurveyNext]_surveyVars => WalkInv'
  <2> SUFFICES ASSUME WalkInv, [SurveyNext]_surveyVars PROVE WalkInv'
    OBVIOUS
  <2>1. CASE ScanNext
    <3>1. result.completed => done
      BY DEF WalkInv, Promised
    <3> QED
      BY <2>1, <3>1, TypesStep, FrontierStep, StillThereKept, PromisedStep, ChargedOnceStep,
         OutdoneStep, LargestListedStep
         DEF WalkInv
  <2>2. CASE UNCHANGED vars
    BY <2>2 DEF WalkInv, vars, disk, history, ScanTypes, Frontier, StillThere, Promised, ChargedOnce, Outdone,
                LargestListed, Waiting, Standing, Met, Untouched
  <2> QED
    BY <2>1, <2>2 DEF SurveyNext, Build, surveyVars
<1> QED
  BY <1>1, <1>2, PTL DEF SurveySpec

\* The state of the walk has its types: what it lists, keeps and counts are entries of the volume, and
\* no number of its result is ever negative (StorageScanner::scan, storage_scanner.cpp).
THEOREM WalkTypes == SurveySpec => []ScanTypes
BY WalkInductive, PTL DEF WalkInv

\* For every volume, every number of folders that cannot be read and whatever other programs create
\* or remove meanwhile: a scan that says it is complete has counted every file that was there all
\* along or stepped over a folder above it, and skipped_count is the number of those folders.
THEOREM WalkIsAccounted == SurveySpec => []NothingSilent
<1>1. WalkInv => NothingSilent
  BY DEF WalkInv, Promised, NothingSilent
<1> QED
  BY <1>1, WalkInductive, PTL

\* However many names lead to a large content, and in whatever order the walk meets them, what it
\* occupies is added once: the first name charges it and the later ones find it seen.
THEOREM ContentsOnce == SurveySpec => []ContentOnce
<1>1. WalkInv => ContentOnce
  BY DEF WalkInv, ChargedOnce, ContentOnce, Standing, Met
<1> QED
  BY <1>1, WalkInductive, PTL

\* Cutting the list of the largest files at every folder loses none of the largest of the whole.
THEOREM LargestAreKept == SurveySpec => []LargestKept
<1>1. WalkInv => LargestKept
  BY DEF WalkInv, LargestListed, LargestKept
<1> QED
  BY <1>1, WalkInductive, PTL

-----------------------------------------------------------------------------
(* The fold of Totals.                                                       *)

Scanned  == {Root} \cup UNION {AncestorsOrSelf(g) : g \in DOMAIN rollups \cup result.unreadable}
Loose    == AllocatedIn(Buckets)
Quads    == [allocated : Nat, logical : Nat, files : Nat, unreadable : Nat]
Rollups  == \A f \in DOMAIN rollups : rollups[f] \in [bytes : Nat, allocated : Nat, files : Nat]

LEMMA ScannedTree ==
  ASSUME ScanTypes
  PROVE  /\ Scanned \subseteq Folders /\ Scanned \subseteq Nodes /\ Root \in Scanned /\ IsFiniteSet(Scanned)
         /\ DOMAIN rollups \subseteq Scanned
         /\ \A g \in Scanned : AncestorsOrSelf(g) \subseteq Scanned
         /\ \A g \in Scanned \ {Root} : g \in Entries /\ In[g] \in Scanned /\ In[g] # g
                                        /\ In[g] \in AncestorsOrSelf(g)
<1>1. DOMAIN rollups \cup result.unreadable \subseteq Folders /\ Folders \subseteq Nodes /\ Root \in Folders
  BY FilesApart DEF ScanTypes, Results, Folders
<1>2. \A g \in Folders : AncestorsOrSelf(g) \subseteq Folders
  BY <1>1, Above
<1>3. Scanned \subseteq Folders /\ Scanned \subseteq Nodes /\ Root \in Scanned
  BY <1>1, <1>2 DEF Scanned
<1>4. IsFiniteSet(Scanned)
  BY <1>3, NodesFinite, FS_Subset
<1>5. DOMAIN rollups \subseteq Scanned
  BY <1>1, SelfFirst DEF Scanned
<1>6. ASSUME NEW g \in Scanned PROVE AncestorsOrSelf(g) \subseteq Scanned
  <2>1. CASE g = Root
    BY <2>1, RootAlone, <1>3
  <2>2. CASE g # Root
    <3>1. PICK h \in DOMAIN rollups \cup result.unreadable : g \in AncestorsOrSelf(h)
      BY <2>2 DEF Scanned
    <3>2. AncestorsOrSelf(g) \subseteq AncestorsOrSelf(h)
      BY <1>1, <3>1, Transitive
    <3> QED BY <3>1, <3>2 DEF Scanned
  <2> QED BY <2>1, <2>2
<1>7. ASSUME NEW g \in Scanned \ {Root}
      PROVE  g \in Entries /\ In[g] \in Scanned /\ In[g] # g /\ In[g] \in AncestorsOrSelf(g)
  <2>1. g \in Entries
    BY <1>3 DEF Nodes
  <2>2. In[g] \in Nodes /\ g \notin AncestorsOrSelf(In[g])
    BY <2>1, EntriesAssumption, NotBelowItself DEF Nodes, Folders
  <2>3. In[g] \in AncestorsOrSelf(In[g])
    BY <2>2, SelfFirst
  <2>4. In[g] \in AncestorsOrSelf(g)
    BY <2>1, <2>3, FromTheParent
  <2> QED BY <1>6, <2>1, <2>2, <2>3, <2>4
<1> QED
  BY <1>3, <1>4, <1>5, <1>6, <1>7

LEMMA Bucketed ==
  ASSUME ScanTypes, Rollups
  PROVE  /\ DOMAIN Buckets = Scanned /\ Buckets \in [Scanned -> Quads]
         /\ \A f \in Scanned : Buckets[f].allocated = IF f \in DOMAIN rollups THEN rollups[f].allocated ELSE 0
<1> DEFINE bucket(f) ==
        [allocated  |-> IF f \in DOMAIN rollups THEN rollups[f].allocated ELSE 0,
         logical    |-> IF f \in DOMAIN rollups THEN rollups[f].bytes ELSE 0,
         files      |-> IF f \in DOMAIN rollups THEN rollups[f].files ELSE 0,
         unreadable |-> IF f \in result.unreadable THEN 1 ELSE 0]
<1>1. Buckets = [f \in Scanned |-> bucket(f)]
  BY DEF Buckets, Scanned
<1>2. ASSUME NEW f PROVE bucket(f) \in Quads
  BY DEF Quads, Rollups
<1>3. \A f : bucket(f).allocated = IF f \in DOMAIN rollups THEN rollups[f].allocated ELSE 0
  OBVIOUS
<1> HIDE DEF bucket
<1> QED
  BY <1>1, <1>2, <1>3

LEMMA AddedUp ==
  ASSUME NEW a \in Quads, NEW b \in Quads
  PROVE  Added(a, b) \in Quads /\ Added(a, b).allocated = a.allocated + b.allocated
<1>1. DOMAIN Empty = {"allocated", "logical", "files", "unreadable"}
  BY DEF Empty
<1>2. Added(a, b) = [k \in {"allocated", "logical", "files", "unreadable"} |-> a[k] + b[k]]
  BY <1>1 DEF Added
<1>3. Added(a, b) = [allocated |-> a.allocated + b.allocated, logical |-> a.logical + b.logical,
                     files |-> a.files + b.files, unreadable |-> a.unreadable + b.unreadable]
  BY <1>2
<1> QED
  BY <1>3 DEF Quads

Raised(f, t) == IF f = Root \/ f \notin DOMAIN t THEN t ELSE [t EXCEPT ![In[f]] = Added(@, t[f])]

LEMMA RaisedTypes ==
  ASSUME ScanTypes, NEW t \in [Scanned -> Quads], NEW f
  PROVE  Raised(f, t) \in [Scanned -> Quads]
<1>1. CASE f = Root \/ f \notin Scanned
  BY <1>1 DEF Raised
<1>2. CASE f # Root /\ f \in Scanned
  <2>1. In[f] \in Scanned
    BY <1>2, ScannedTree
  <2>2. Added(t[In[f]], t[f]) \in Quads
    BY <1>2, <2>1, AddedUp
  <2> QED BY <1>2, <2>1, <2>2 DEF Raised
<1> QED
  BY <1>1, <1>2

LEMMA LeastIndex ==
  ASSUME NEW s \in SUBSET (DOMAIN Alphabet), s # {}
  PROVE  Min(s) \in s /\ \A i \in s : Min(s) <= i
<1>1. s \subseteq Nat
  BY PathsAssumption
<1>2. \E m \in s : \A i \in s : m <= i
  BY <1>1, Least
<1> QED
  BY <1>2 DEF Min

LEMMA TotalsIsFold ==
  ASSUME ScanTypes, Rollups
  PROVE  \E F : /\ \A s \in SUBSET (DOMAIN Alphabet) :
                     /\ F[s] \in [Scanned -> Quads]
                     /\ F[s] = IF s = {} THEN Buckets ELSE Raised(Alphabet[Min(s)], F[s \ {Min(s)}])
                /\ Totals = F[DOMAIN Alphabet]
<1> DEFINE D == DOMAIN Alphabet
           V == [Scanned -> Quads]
           pick == [s \in SUBSET D |-> Min(s)]
           R == [p \in D \X V |-> Raised(Alphabet[p[1]], p[2])]
           Is(F) == F = [s \in SUBSET D |-> IF s = {} THEN Buckets ELSE Raised(Alphabet[Min(s)], F[s \ {Min(s)}])]
           fold == CHOOSE F : Is(F)
<1>1. IsFiniteSet(D)
  BY PathsAssumption, FS_Interval
<1>2. \A s \in SUBSET D : s # {} => pick[s] \in s
  BY LeastIndex
<1>3. Buckets \in V
  BY Bucketed
<1>4. \A x \in D, v \in V : R[<<x, v>>] \in V
  BY RaisedTypes
<1>5. PICK F \in [SUBSET D -> V] : FoldsTo(F, D, Buckets, pick, R)
  <2>1. Picks(pick, D) /\ Keeps(R, D, V)
    <3> HIDE DEF D, V, pick, R
    <3> QED BY <1>2, <1>4 DEF Picks, Keeps
  <2> HIDE DEF D, V, pick, R
  <2> QED BY <1>1, <1>3, <2>1, FoldExists
<1>6. \A s \in SUBSET D : F[s] \in V
  BY <1>5
<1>7. ASSUME NEW s \in SUBSET D, s # {}
      PROVE  R[<<pick[s], F[s \ {pick[s]}]>>] = Raised(Alphabet[Min(s)], F[s \ {Min(s)}])
  <2>1. pick[s] \in D /\ s \ {pick[s]} \in SUBSET D /\ pick[s] = Min(s)
    BY <1>2, <1>7
  <2>2. F[s \ {pick[s]}] \in V
    BY <1>6, <2>1
  <2> HIDE DEF pick, V
  <2> QED BY <2>1, <2>2
<1>8. Is(F)
  <2> DEFINE G == [s \in SUBSET D |-> IF s = {} THEN Buckets ELSE Raised(Alphabet[Min(s)], F[s \ {Min(s)}])]
  <2>1. \A s \in SUBSET D : F[s] = G[s]
    <3> HIDE DEF R, pick, V
    <3> QED BY <1>5, <1>7 DEF FoldsTo
  <2>2. DOMAIN F = SUBSET D /\ F = [s \in SUBSET D |-> F[s]]
    <3> HIDE DEF D, V
    <3> QED BY <1>5
  <2>3. F = G
    <3> HIDE DEF R, pick, V, D
    <3> QED BY <2>1, <2>2
  <2> QED BY <2>3
<1>9. Is(fold)
  BY <1>8
<1>10. Totals = fold[DOMAIN Alphabet]
  BY DEF Totals, FoldRight, MapThenFoldSet, Raised
<1>11. \A s \in SUBSET D : fold[s] = IF s = {} THEN Buckets ELSE Raised(Alphabet[Min(s)], fold[s \ {Min(s)}])
  BY <1>9
<1> HIDE DEF fold, Is, pick, R
<1>12. ASSUME NEW s \in SUBSET D, \A x \in s : s \ {x} \in {q \in SUBSET D : fold[q] \in V}
       PROVE  fold[s] \in V
  <2>1. CASE s = {}
    BY <1>3, <1>11, <2>1
  <2>2. CASE s # {}
    <3>1. Min(s) \in s
      BY <2>2, LeastIndex
    <3>2. fold[s \ {Min(s)}] \in V
      BY <1>12, <3>1
    <3>3. fold[s] = Raised(Alphabet[Min(s)], fold[s \ {Min(s)}])
      BY <1>11, <2>2
    <3>4. PICK t, f : t = fold[s \ {Min(s)}] /\ f = Alphabet[Min(s)]
      OBVIOUS
    <3>5. t \in [Scanned -> Quads] /\ fold[s] = Raised(f, t)
      BY <3>2, <3>3, <3>4
    <3>6. Raised(f, t) \in [Scanned -> Quads]
      BY <3>5, RaisedTypes
    <3> QED BY <3>5, <3>6
  <2> QED BY <2>1, <2>2
<1> DEFINE P == {s \in SUBSET D : fold[s] \in V}
<1>13. \A s \in SUBSET D : (\A x \in s : s \ {x} \in P) => s \in P
  BY <1>12
<1> HIDE DEF P
<1>14. \A s \in SUBSET D : s \in P
  <2> HIDE DEF D
  <2> QED BY <1>1, <1>13, SetDescent
<1>15. \A s \in SUBSET D : fold[s] \in V
  BY <1>14 DEF P
<1> QED
  BY <1>10, <1>11, <1>15

-----------------------------------------------------------------------------
(* What a total adds up.                                                     *)

\* What has reached f when the folders of P have been raised.
Part(f, P) == {g \in Scanned : f \in AncestorsOrSelf(g) /\ AncestorsOrSelf(g) \ AncestorsOrSelf(f) \subseteq P}

LEMMA PartAtFirst ==
  ASSUME ScanTypes, NEW f \in Scanned
  PROVE  Part(f, {}) = {f}
<1>1. f \in Part(f, {})
  BY ScannedTree, SelfFirst DEF Part
<1>2. ASSUME NEW g \in Part(f, {}) PROVE g = f
  <2>1. g \in Nodes /\ f \in Nodes /\ f \in AncestorsOrSelf(g)
    BY ScannedTree DEF Part
  <2>2. g \in AncestorsOrSelf(f)
    BY <2>1, SelfFirst DEF Part
  <2> QED BY <2>1, <2>2, OneWay
<1> QED
  BY <1>1, <1>2

LEMMA PartAtLast ==
  ASSUME ScanTypes, NEW f \in Scanned, NEW P, Folders \subseteq P
  PROVE  Part(f, P) = {g \in Scanned : f \in AncestorsOrSelf(g)}
<1>1. \A g \in Scanned : AncestorsOrSelf(g) \subseteq P
  BY ScannedTree
<1> QED
  BY <1>1 DEF Part

\* A folder that is raised brings its own part to its parent, and changes no other.
LEMMA PartNext ==
  ASSUME ScanTypes, NEW P, NEW x \in Scanned \ {Root}, x \notin P, P \cap AncestorsOrSelf(x) = {}
  PROVE  /\ Part(In[x], P \cup {x}) = Part(In[x], P) \cup Part(x, P)
         /\ Part(In[x], P) \cap Part(x, P) = {}
         /\ \A f \in Scanned : f # In[x] => Part(f, P \cup {x}) = Part(f, P)
<1>0. /\ x \in Nodes /\ x \in Entries /\ In[x] \in Scanned /\ In[x] # x /\ In[x] \in AncestorsOrSelf(x)
      /\ x \in AncestorsOrSelf(x) /\ x \notin AncestorsOrSelf(In[x])
      /\ AncestorsOrSelf(x) = {x} \cup AncestorsOrSelf(In[x])
      /\ Scanned \subseteq Nodes
  BY ScannedTree, SelfFirst, NotBelowItself, FromTheParent
<1>1. ASSUME NEW f \in Scanned, NEW g \in Part(f, P \cup {x}), g \notin Part(f, P)
      PROVE  f = In[x] /\ g \in Part(x, P)
  <2>1. g \in Nodes /\ f \in AncestorsOrSelf(g) /\ AncestorsOrSelf(g) \ AncestorsOrSelf(f) \subseteq P \cup {x}
    BY <1>0, <1>1 DEF Part
  <2>2. x \in AncestorsOrSelf(g) /\ x \notin AncestorsOrSelf(f)
    BY <1>1, <2>1 DEF Part
  <2>3. In[x] \in AncestorsOrSelf(g)
    BY <1>0, <2>1, <2>2, Above
  <2>4. In[x] \in AncestorsOrSelf(f)
    BY <1>0, <2>1, <2>3
  <2>5. f \in AncestorsOrSelf(x)
    BY <2>1, <2>2, Comparable
  <2>6. f \in AncestorsOrSelf(In[x])
    BY <1>0, <2>2, <2>5, SelfFirst
  <2>7. f = In[x]
    BY <1>0, <2>4, <2>6, OneWay
  <2>8. AncestorsOrSelf(g) \ AncestorsOrSelf(x) \subseteq P
    BY <1>0, <2>1, <2>7
  <2> QED BY <1>1, <2>2, <2>7, <2>8 DEF Part
<1>2. \A f : Part(f, P) \subseteq Part(f, P \cup {x})
  BY DEF Part
<1>3. ASSUME NEW g \in Part(x, P)
      PROVE  g \in Part(In[x], P \cup {x}) /\ g \notin Part(In[x], P)
  <2>1. g \in Nodes /\ x \in AncestorsOrSelf(g) /\ AncestorsOrSelf(g) \ AncestorsOrSelf(x) \subseteq P
    BY <1>0, <1>3 DEF Part
  <2>2. In[x] \in AncestorsOrSelf(g)
    BY <1>0, <2>1, Above
  <2>3. AncestorsOrSelf(g) \ AncestorsOrSelf(In[x]) \subseteq P \cup {x}
    BY <1>0, <2>1
  <2> QED BY <1>0, <1>3, <2>1, <2>2, <2>3 DEF Part
<1> QED
  BY <1>0, <1>1, <1>2, <1>3

\* After a walk over the last folders of the map, each has what lies loose in it and in those below
\* it that the walk took up.
LEMMA Collected ==
  ASSUME ScanTypes, Rollups,
         NEW F, \A s \in SUBSET (DOMAIN Alphabet) :
                  /\ F[s] \in [Scanned -> Quads]
                  /\ F[s] = IF s = {} THEN Buckets ELSE Raised(Alphabet[Min(s)], F[s \ {Min(s)}]),
         NEW n \in 0..Len(Alphabet)
  PROVE  LET s == {i \in DOMAIN Alphabet : i > Len(Alphabet) - n}
         IN  \A f \in Scanned : F[s][f].allocated = SumOf(Loose, Part(f, {Alphabet[i] : i \in s}))
<1> DEFINE s(u) == {i \in DOMAIN Alphabet : i > Len(Alphabet) - u}
           P(u) == {Alphabet[i] : i \in s(u)}
           Q(u) == \A f \in Scanned : F[s(u)][f].allocated = SumOf(Loose, Part(f, P(u)))
           T == {m \in Nat : m <= Len(Alphabet) => Q(m)}
<1>0. Len(Alphabet) \in Nat /\ DOMAIN Alphabet = 1..Len(Alphabet)
  BY PathsAssumption
<1>1. 0 \in T
  <2>1. s(0) = {} /\ P(0) = {}
    BY <1>0
  <2>2. ASSUME NEW f \in Scanned PROVE Buckets[f].allocated = SumOf(Loose, Part(f, {}))
    <3>1. Loose[f] = Buckets[f].allocated /\ Loose[f] \in Int
      BY Bucketed DEF Loose, AllocatedIn, Quads
    <3>2. Part(f, {}) = {f}
      BY PartAtFirst
    <3> QED BY <3>1, <3>2, SumOfOne
  <2>3. F[{}] = Buckets
    <3>1. {} \in SUBSET (DOMAIN Alphabet)
      OBVIOUS
    <3> QED BY <3>1
  <2> QED BY <2>1, <2>2, <2>3
<1>2. ASSUME NEW m \in T PROVE m + 1 \in T
  <2> HIDE DEF Q
  <2> SUFFICES ASSUME m + 1 <= Len(Alphabet) PROVE Q(m + 1)
    BY <1>2
  <2>00. m \in Nat /\ m <= Len(Alphabet)
    BY <1>0, <1>2
  <2>01. Q(m)
    BY <1>2, <2>00
  <2> USE DEF Q
  <2>0. m \in Nat /\ Q(m)
    BY <2>00, <2>01
  <2> DEFINE k == Len(Alphabet) - m
             x == Alphabet[k]
  <2>1. /\ k \in DOMAIN Alphabet /\ s(m + 1) = s(m) \cup {k} /\ s(m) = s(m + 1) \ {k}
        /\ s(m + 1) \in SUBSET (DOMAIN Alphabet) /\ s(m) \in SUBSET (DOMAIN Alphabet)
        /\ \A i \in s(m + 1) : k <= i
    BY <1>0, <2>0
  <2>2. P(m + 1) = P(m) \cup {x}
    BY <2>1
  <2>3. Min(s(m + 1)) = k
    <3>1. s(m + 1) # {} /\ k \in s(m + 1)
      BY <2>1
    <3>2. Min(s(m + 1)) \in s(m + 1) /\ Min(s(m + 1)) <= k /\ k <= Min(s(m + 1))
      <4> HIDE DEF s, k
      <4> QED BY <2>1, <3>1, LeastIndex
    <3> QED BY <1>0, <2>0, <2>1, <3>2
  <2>4. F[s(m + 1)] = Raised(x, F[s(m)])
    <3>1. s(m + 1) # {}
      BY <2>1
    <3> HIDE DEF s, k
    <3> QED BY <2>1, <2>3, <3>1
  <2>5. x \in Folders /\ P(m) \cap AncestorsOrSelf(x) = {}
    <3>1. \A i \in s(m) : i > k
      BY <1>0, <2>0
    <3>2. \A i \in s(m) : Alphabet[i] \in AncestorsOrSelf(Alphabet[k]) => i <= k
      BY <2>1, PathsAssumption
    <3>3. \A i \in s(m) : Alphabet[i] \notin AncestorsOrSelf(Alphabet[k])
      BY <1>0, <2>0, <3>1, <3>2
    <3> QED BY <2>1, <3>3, PathsAssumption
  <2>6. x \notin P(m)
    <3>1. x \in AncestorsOrSelf(x)
      BY <2>5, SelfFirst, FilesApart
    <3> QED BY <2>5, <3>1
  <2>7. F[s(m)] \in [Scanned -> Quads]
    BY <2>1
  <2>8. PICK t : t = F[s(m)]
    OBVIOUS
  <2>9. PICK p : p = P(m)
    OBVIOUS
  <2>10. PICK y : y = x
    OBVIOUS
  <2> HIDE DEF s, k, x, P
  <2>11. /\ t \in [Scanned -> Quads] /\ \A f \in Scanned : t[f].allocated = SumOf(Loose, Part(f, p))
         /\ y \in Folders /\ p \cap AncestorsOrSelf(y) = {} /\ y \notin p
    BY <2>0, <2>5, <2>6, <2>7, <2>8, <2>9, <2>10
  <2>12. \A f \in Scanned : Raised(y, t)[f].allocated = SumOf(Loose, Part(f, p \cup {y}))
    <3>1. CASE y = Root \/ y \notin Scanned
      <4>1. Raised(y, t) = t
        BY <2>11, <3>1 DEF Raised
      <4>2. ASSUME NEW f \in Scanned PROVE Part(f, p \cup {y}) = Part(f, p)
        <5>1. ASSUME NEW g \in Scanned, y \in AncestorsOrSelf(g) PROVE y \in AncestorsOrSelf(f)
          BY <3>1, <5>1, ScannedTree, SelfFirst
        <5> QED BY <5>1 DEF Part
      <4> QED BY <2>11, <4>1, <4>2
    <3>2. CASE y # Root /\ y \in Scanned
      <4>1. /\ Part(In[y], p \cup {y}) = Part(In[y], p) \cup Part(y, p)
            /\ Part(In[y], p) \cap Part(y, p) = {}
            /\ \A f \in Scanned : f # In[y] => Part(f, p \cup {y}) = Part(f, p)
        BY <2>11, <3>2, PartNext
      <4>2. In[y] \in Scanned /\ In[y] # y
        BY <3>2, ScannedTree
      <4>3. Raised(y, t) = [t EXCEPT ![In[y]] = Added(t[In[y]], t[y])]
        BY <2>11, <3>2 DEF Raised
      <4>4. /\ Added(t[In[y]], t[y]).allocated = t[In[y]].allocated + t[y].allocated
        BY <2>11, <3>2, <4>2, AddedUp
      <4>5. Raised(y, t)[In[y]].allocated = t[In[y]].allocated + t[y].allocated
        BY <2>11, <4>2, <4>3, <4>4
      <4>6. \A f \in Scanned : f # In[y] => Raised(y, t)[f] = t[f]
        BY <2>11, <4>3
      <4>7. SumOf(Loose, Part(In[y], p) \cup Part(y, p)) = SumOf(Loose, Part(In[y], p)) + SumOf(Loose, Part(y, p))
        <5>1. IsFiniteSet(Part(In[y], p)) /\ IsFiniteSet(Part(y, p))
          BY ScannedTree, FS_Subset DEF Part
        <5>2. \A g \in Part(In[y], p) \cup Part(y, p) : Loose[g] \in Int
          BY Bucketed DEF Loose, AllocatedIn, Quads, Part
        <5> QED BY <4>1, <5>1, <5>2, SumOverDisjoint
      <4>8. Raised(y, t)[In[y]].allocated = SumOf(Loose, Part(In[y], p \cup {y}))
        BY <2>11, <3>2, <4>1, <4>2, <4>5, <4>7
      <4>9. \A f \in Scanned : f # In[y] => Raised(y, t)[f].allocated = SumOf(Loose, Part(f, p \cup {y}))
        BY <2>11, <4>1, <4>6
      <4> QED BY <4>8, <4>9
    <3> QED BY <3>1, <3>2
  <2> QED BY <2>2, <2>4, <2>8, <2>9, <2>10, <2>12
<1>3. T = Nat
  <2>1. T \subseteq Nat
    OBVIOUS
  <2> HIDE DEF T
  <2> QED BY <1>1, <1>2, <2>1, NatClosed
<1>4. n \in Nat /\ n <= Len(Alphabet)
  BY <1>0
<1>5. Q(n)
  <2> HIDE DEF Q
  <2> QED BY <1>3, <1>4
<1> QED
  BY <1>5

LEMMA TotalsAreSums ==
  ASSUME ScanTypes, Rollups
  PROVE  /\ Totals \in [Scanned -> Quads]
         /\ \A f \in Scanned : Totals[f].allocated = SumOf(Loose, {g \in Scanned : f \in AncestorsOrSelf(g)})
<1>1. PICK F : /\ \A s \in SUBSET (DOMAIN Alphabet) :
                     /\ F[s] \in [Scanned -> Quads]
                     /\ F[s] = IF s = {} THEN Buckets ELSE Raised(Alphabet[Min(s)], F[s \ {Min(s)}])
               /\ Totals = F[DOMAIN Alphabet]
  BY TotalsIsFold
<1>2. Len(Alphabet) \in Nat /\ DOMAIN Alphabet = 1..Len(Alphabet) /\ Len(Alphabet) \in 0..Len(Alphabet)
  BY PathsAssumption
<1>3. {i \in DOMAIN Alphabet : i > Len(Alphabet) - Len(Alphabet)} = DOMAIN Alphabet
  BY <1>2
<1>4. {Alphabet[i] : i \in DOMAIN Alphabet} = Folders
  BY PathsAssumption
<1>5. \A f \in Scanned : F[DOMAIN Alphabet][f].allocated = SumOf(Loose, Part(f, Folders))
  <2>1. \A f \in Scanned : F[{i \in DOMAIN Alphabet : i > Len(Alphabet) - Len(Alphabet)}][f].allocated
          = SumOf(Loose, Part(f, {Alphabet[i] : i \in {j \in DOMAIN Alphabet : j > Len(Alphabet) - Len(Alphabet)}}))
    BY <1>1, <1>2, Collected
  <2> QED BY <1>3, <1>4, <2>1
<1>6. \A f \in Scanned : Part(f, Folders) = {g \in Scanned : f \in AncestorsOrSelf(g)}
  BY PartAtLast
<1> QED
  BY <1>1, <1>5, <1>6

-----------------------------------------------------------------------------
(* What the tree is built from.                                              *)

\* No folder is rolled up twice.
RolledOnce ==
  /\ \A x \in DOMAIN rollups : AncestorsOrSelf(x) \cap (Waiting \cup listing) = {}
  /\ current \notin DOMAIN rollups

\* What was allocated is in the rollups, or in the folder in progress.
Tallied ==
  /\ current = None => own.allocated = 0
  /\ options.emitAll => result.allocated = SumOf(AllocatedIn(rollups), DOMAIN rollups) + own.allocated

TreeInv == Rollups /\ RolledOnce /\ Tallied

LEMMA TreeInvInit == Init => TreeInv
<1> SUFFICES ASSUME Init PROVE TreeInv
  OBVIOUS
<1>1. DOMAIN rollups = {} /\ \A f : f \notin DOMAIN rollups
  BY DEF Init
<1>2. SumOf(AllocatedIn(rollups), DOMAIN rollups) = 0
  BY <1>1, SumEmpty
<1>3. own.allocated = 0 /\ result.allocated = 0
  BY DEF Init, Nothing
<1> QED
  BY <1>1, <1>2, <1>3 DEF TreeInv, Rollups, RolledOnce, Tallied

LEMMA RolledOpen == ScanTypes /\ Frontier /\ TreeInv /\ OpenFolder => TreeInv'
<1> SUFFICES ASSUME ScanTypes, Frontier, TreeInv, OpenFolder PROVE TreeInv'
  OBVIOUS
<1> USE DEF TreeInv
<1>1. PICK f : f = Head(pending)
  OBVIOUS
<1>2. /\ f \in Folders /\ f \in Waiting /\ Waiting' \subseteq Waiting
  BY <1>1, TakenApart DEF OpenFolder
<1>3. /\ rollups' = rollups /\ options' = options /\ current = None
      /\ listing = {} /\ own.allocated = 0
  BY <1>2, EntriesAssumption DEF OpenFolder, Frontier, ScanTypes, Tallied
<1>4. \A x \in DOMAIN rollups : x \in Nodes /\ f \notin AncestorsOrSelf(x) /\ x # f
  BY <1>2, FilesApart, SelfFirst DEF RolledOnce, ScanTypes
<1>5. RolledOnce'
  <2>1. CASE current' = f /\ listing' = EntriesOf(f)
    <3>1. \A e \in listing' : e \in Entries /\ In[e] = f
      BY <2>1 DEF EntriesOf, ScanTypes
    <3>2. \A x \in DOMAIN rollups, e \in listing' : e \notin AncestorsOrSelf(x)
      BY <1>4, <3>1, Above
    <3> QED BY <1>2, <1>3, <1>4, <2>1, <3>2 DEF RolledOnce
  <2>2. CASE UNCHANGED <<current, listing>>
    BY <1>2, <1>3, <2>2 DEF RolledOnce
  <2> QED BY <1>1, <2>1, <2>2 DEF OpenFolder
<1>6. result'.allocated = result.allocated /\ own'.allocated = 0
  <2>1. result' = result \/ \E U : result' = [result EXCEPT !.skipped = result.skipped + 1, !.unreadable = U]
    BY DEF OpenFolder
  <2>2. result'.allocated = result.allocated
    BY <2>1 DEF ScanTypes, Results
  <2>3. own' = Nothing \/ own' = own
    BY DEF OpenFolder
  <2> QED BY <1>3, <2>2, <2>3 DEF Nothing
<1>7. Tallied'
  <2>1. AllocatedIn(rollups') = AllocatedIn(rollups)
    BY <1>3
  <2> QED BY <1>3, <1>6, <2>1 DEF Tallied
<1> QED
  BY <1>3, <1>5, <1>7 DEF Rollups

LEMMA RolledRead == ScanTypes /\ Frontier /\ TreeInv /\ ReadEntry => TreeInv'
<1> SUFFICES ASSUME ScanTypes, Frontier, TreeInv, ReadEntry PROVE TreeInv'
  OBVIOUS
<1> USE DEF TreeInv
<1>1. PICK e \in listing : /\ listing' = listing \ {e}
                           /\ Subfolder(e) \/ File(e) \/ FileLink(e)
  BY DEF ReadEntry
<1>2. /\ rollups' = rollups /\ options' = options /\ current' = current /\ current # None
  BY DEF ReadEntry
<1>3. Waiting' \subseteq Waiting \cup {e}
  <2>1. CASE Subfolder(e)
    <3>1. pending' = pending \/ pending' = Append(pending, e)
      BY <2>1 DEF Subfolder
    <3>2. e \in Folders /\ pending \in Seq(Folders)
      BY <2>1 DEF Subfolder, ScanTypes
    <3>3. CASE pending' = pending
      BY <3>3 DEF Waiting
    <3>4. CASE pending' = Append(pending, e)
      <4>1. PICK d : d = e
        OBVIOUS
      <4>2. Waiting' = Waiting \cup {d}
        BY <3>2, <3>4, <4>1, WaitingMore
      <4> QED BY <4>1, <4>2
    <3> QED BY <3>1, <3>3, <3>4
  <2>2. CASE File(e) \/ FileLink(e)
    BY <2>2 DEF File, FileLink, Waiting
  <2> QED BY <1>1, <2>1, <2>2
<1>4. RolledOnce'
  BY <1>1, <1>2, <1>3 DEF RolledOnce
<1>5. \E a \in Nat : result'.allocated = result.allocated + a /\ own'.allocated = own.allocated + a
  <2>0. result \in Results /\ own \in [bytes : Nat, allocated : Nat, files : Nat]
    BY DEF ScanTypes
  <2>1. CASE File(e)
    <3>1. Allocated(e) \in Nat
      BY <2>1, AllocatedNat DEF File
    <3>2. own'.allocated = own.allocated + Allocated(e)
      BY <2>1 DEF File
    <3>3. PICK t, a, c, o, d : result' = [result EXCEPT !.total = t, !.allocated = a, !.files = c, !.online = o, !.duplicates = d]
                               /\ a = result.allocated + Allocated(e)
      BY <2>1 DEF File
    <3>4. result'.allocated = a
      BY <2>0, <3>3 DEF Results
    <3> QED BY <3>1, <3>2, <3>3, <3>4
  <2>2. CASE Subfolder(e) \/ FileLink(e)
    <3>1. own' = own /\ (result' = result \/ result' = [result EXCEPT !.folders = result.folders + 1])
      BY <2>2 DEF Subfolder, FileLink
    <3>2. result'.allocated = result.allocated
      BY <2>0, <3>1 DEF Results
    <3>3. result.allocated \in Nat /\ own.allocated \in Nat
      BY <2>0, FieldsOfResult
    <3> QED BY <3>1, <3>2, <3>3
  <2> QED BY <1>1, <2>1, <2>2
<1>6. Tallied'
  <2>1. PICK a \in Nat : result'.allocated = result.allocated + a /\ own'.allocated = own.allocated + a
    BY <1>5
  <2>2. PICK s : s = SumOf(AllocatedIn(rollups), DOMAIN rollups)
    OBVIOUS
  <2>3. s = SumOf(AllocatedIn(rollups'), DOMAIN rollups')
    BY <1>2, <2>2
  <2>4. s \in Nat
    <3>1. IsFiniteSet(DOMAIN rollups)
      BY ScannedTree, FS_Subset
    <3>2. \A f \in DOMAIN rollups : AllocatedIn(rollups)[f] \in Nat
      BY DEF AllocatedIn, Rollups
    <3> QED BY <2>2, <3>1, <3>2, SumNat
  <2>5. options.emitAll => result.allocated = s + own.allocated
    BY <2>2 DEF Tallied
  <2>6. own.allocated \in Nat
    BY DEF ScanTypes
  <2>7. options'.emitAll => result'.allocated = s + own'.allocated
    BY <1>2, <2>1, <2>4, <2>5, <2>6
  <2> QED BY <1>2, <2>3, <2>7 DEF Tallied
<1> QED
  BY <1>2, <1>4, <1>6 DEF Rollups

LEMMA RolledClose == ScanTypes /\ Frontier /\ TreeInv /\ CloseFolder => TreeInv'
<1> SUFFICES ASSUME ScanTypes, Frontier, TreeInv, CloseFolder PROVE TreeInv'
  OBVIOUS
<1> USE DEF TreeInv
<1>1. /\ current \in Folders /\ current' = None /\ listing' = {} /\ own' = Nothing /\ options' = options
      /\ pending' = pending /\ Waiting' = Waiting
      /\ rollups' = IF Emits(current) THEN Rolled(current) ELSE rollups
  BY DEF CloseFolder, ScanTypes, Waiting
<1>2. own \in [bytes : Nat, allocated : Nat, files : Nat] /\ DOMAIN rollups \subseteq Folders
  BY DEF ScanTypes
<1>3. DOMAIN rollups' \subseteq DOMAIN rollups \cup {current}
  BY <1>1 DEF Rolled
<1>4. RolledOnce'
  <2>1. AncestorsOrSelf(current) \cap Waiting = {}
    BY <1>1, EntriesAssumption DEF Frontier
  <2>2. None \notin DOMAIN rollups'
    BY <1>1, <1>2, <1>3, EntriesAssumption
  <2> QED BY <1>1, <1>3, <2>1, <2>2 DEF RolledOnce
<1>5. Rollups'
  BY <1>1, <1>2 DEF Rollups, Rolled
<1>6. result'.allocated = result.allocated
  <2>1. result' = result \/ result' = [result EXCEPT !.skipped = result.skipped + 1]
    BY DEF CloseFolder
  <2> QED BY <2>1 DEF ScanTypes, Results
<1>7. Tallied'
  <2>1. own'.allocated = 0
    BY <1>1 DEF Nothing
  <2>2. CASE options.emitAll
    <3>1. rollups' = Rolled(current)
      BY <1>1, <2>2 DEF Emits
    <3>2. PICK g, h, S, x : /\ g = AllocatedIn(rollups) /\ h = AllocatedIn(rollups')
                            /\ S = DOMAIN rollups /\ x = current
      OBVIOUS
    <3>3. DOMAIN rollups' = S \cup {x} /\ x \notin S
      BY <3>1, <3>2 DEF Rolled, RolledOnce
    <3>4. h[x] = own.allocated /\ h[x] \in Nat
      BY <1>2, <3>1, <3>2, <3>3 DEF AllocatedIn, Rolled
    <3>5. \A y \in S : h[y] = g[y] /\ g[y] \in Nat
      BY <3>1, <3>2, <3>3 DEF AllocatedIn, Rolled, Rollups
    <3>6. IsFiniteSet(S)
      BY <3>2, ScannedTree, FS_Subset
    <3>7. SumOf(h, S \cup {x}) = SumOf(h, S) + h[x]
      <4>1. \A y \in S \cup {x} : h[y] \in Int
        BY <3>4, <3>5
      <4> QED BY <3>3, <3>6, <4>1, SumOneMore
    <3>8. SumOf(g, S) = SumOf(h, S)
      BY <3>5, <3>6, SameSum
    <3>9. result.allocated = SumOf(g, S) + own.allocated
      BY <2>2, <3>2 DEF Tallied
    <3>10. result'.allocated = SumOf(h, S \cup {x}) /\ SumOf(h, S \cup {x}) \in Nat
      <4>1. \A y \in S \cup {x} : h[y] \in Nat
        BY <3>4, <3>5
      <4>2. IsFiniteSet(S \cup {x})
        BY <3>6, FS_AddElement
      <4> QED BY <1>6, <3>4, <3>7, <3>8, <3>9, <4>1, <4>2, SumNat
    <3>11. PICK t : t = SumOf(h, S \cup {x})
      OBVIOUS
    <3>12. t = SumOf(AllocatedIn(rollups'), DOMAIN rollups')
      BY <3>2, <3>3, <3>11
    <3>13. result'.allocated = t + 0
      BY <3>10, <3>11
    <3> QED BY <1>1, <2>1, <3>12, <3>13 DEF Tallied
  <2>3. CASE ~options.emitAll
    BY <1>1, <2>1, <2>3 DEF Tallied
  <2> QED BY <2>2, <2>3
<1> QED
  BY <1>4, <1>5, <1>7

LEMMA TreeInvStep == ScanTypes /\ Frontier /\ TreeInv /\ ScanNext => TreeInv'
<1> SUFFICES ASSUME ScanTypes, Frontier, TreeInv, ScanNext PROVE TreeInv'
  OBVIOUS
<1>1. CASE Finish
  <2>1. /\ UNCHANGED <<rollups, listing, current, options, own, pending>>
        /\ result' = [result EXCEPT !.completed = TRUE]
    BY <1>1 DEF Finish
  <2>2. result'.allocated = result.allocated
    BY <2>1 DEF ScanTypes, Results
  <2> QED BY <2>1, <2>2 DEF TreeInv, Rollups, RolledOnce, Tallied, Waiting
<1>2. CASE StopEarly \/ RequestStop \/ Change
  <2>1. UNCHANGED <<rollups, listing, current, options, own, pending, result>>
    BY <1>2 DEF StopEarly, RequestStop, Change
  <2> QED BY <2>1 DEF TreeInv, Rollups, RolledOnce, Tallied, Waiting
<1> QED
  BY <1>1, <1>2, RolledOpen, RolledRead, RolledClose DEF ScanNext, ScanStep

\* A scan that has returned takes no step.
LEMMA DoneStays == done => ~ScanNext
BY DEF ScanNext, ScanStep, OpenFolder, ReadEntry, CloseFolder, Finish, StopEarly, RequestStop, Change

-----------------------------------------------------------------------------
(* What hangs from a folder, and the leaves.                                 *)

Hooks(f, shown) == (AncestorsOrSelf(f) \ {f}) \cap (shown \cup {Root})

LEMMA Hanging ==
  ASSUME NEW shown, shown \subseteq Nodes \ {Root}, NEW f \in shown
  PROVE  /\ HangsFrom(f, shown) \in Hooks(f, shown)
         /\ \A b \in Hooks(f, shown) : Depth(b) <= Depth(HangsFrom(f, shown))
<1>1. Root \in Hooks(f, shown) /\ Hooks(f, shown) \subseteq Nodes
  BY SelfFirst, Above DEF Hooks
<1>2. \E a \in Hooks(f, shown) : \A b \in Hooks(f, shown) : Depth(b) <= Depth(a)
  BY <1>1, Deepest
<1> QED
  BY <1>2 DEF HangsFrom, Hooks

\* What hangs from one folder lies side by side.
LEMMA HungApart ==
  ASSUME NEW shown, shown \subseteq Nodes \ {Root}, NEW c \in shown, NEW d \in shown, c # d,
         HangsFrom(c, shown) = HangsFrom(d, shown), NEW g \in Nodes
  PROVE  ~(c \in AncestorsOrSelf(g) /\ d \in AncestorsOrSelf(g))
<1>1. ASSUME NEW x \in shown, NEW y \in shown, x # y, x \in AncestorsOrSelf(y),
             HangsFrom(x, shown) = HangsFrom(y, shown)
      PROVE  FALSE
  <2>1. PICK a : a = HangsFrom(x, shown)
    OBVIOUS
  <2>2. a \in Hooks(x, shown)
    BY <2>1, Hanging
  <2>3. x \in Hooks(y, shown)
    BY <1>1 DEF Hooks
  <2>4. Depth(x) <= Depth(a)
    BY <1>1, <2>1, <2>3, Hanging
  <2>5. Depth(a) < Depth(x) /\ Depth(a) \in Int /\ Depth(x) \in Int
    BY <2>2, LessDeep DEF Hooks
  <2> QED BY <2>4, <2>5
<1> QED
  BY <1>1, Comparable

\* So do the leaves: below a folder with another one shown below it, something hangs.
LEMMA LeavesApart ==
  ASSUME NEW shown, shown \subseteq Nodes \ {Root},
         NEW c \in Leaves(shown \cup {Root}, [f \in shown |-> HangsFrom(f, shown)]),
         NEW d \in Leaves(shown \cup {Root}, [f \in shown |-> HangsFrom(f, shown)]),
         c # d, NEW g \in Nodes
  PROVE  ~(c \in AncestorsOrSelf(g) /\ d \in AncestorsOrSelf(g))
<1> DEFINE hangs == [f \in shown |-> HangsFrom(f, shown)]
           leaves == Leaves(shown \cup {Root}, hangs)
<1>1. ASSUME NEW x \in leaves, NEW y \in leaves, x # y, x \in AncestorsOrSelf(y)
      PROVE  FALSE
  <2>0. x \in shown \cup {Root} /\ y \in shown \cup {Root} /\ \A h \in shown : HangsFrom(h, shown) # x
    BY DEF Leaves
  <2>00. Root \in Nodes /\ x \in Nodes /\ y \in Nodes
    BY <2>0 DEF Nodes
  <2> HIDE DEF leaves, hangs
  <2>1. y \in shown
    BY <1>1, <2>0, RootAlone
  <2> DEFINE S == {h \in shown : x \in AncestorsOrSelf(h) \ {h}}
  <2>2. y \in S /\ S \subseteq Nodes
    BY <1>1, <2>1
  <2>3. PICK h \in S : \A b \in S : Depth(h) <= Depth(b)
    BY <2>2, Deepest
  <2>4. PICK a : a = HangsFrom(h, shown)
    OBVIOUS
  <2>5. h \in shown /\ h \in Nodes /\ x \in AncestorsOrSelf(h) \ {h}
    BY <2>2, <2>3
  <2>6. a \in Hooks(h, shown) /\ x \in Hooks(h, shown)
    BY <2>0, <2>4, <2>5, Hanging DEF Hooks
  <2>7. Depth(x) <= Depth(a)
    BY <2>4, <2>5, <2>6, Hanging
  <2>8. a # x
    BY <2>0, <2>4, <2>5
  <2>9. a \in AncestorsOrSelf(h) \ {h} /\ a \in Nodes
    BY <2>5, <2>6, Above DEF Hooks
  <2>10. x \in AncestorsOrSelf(a) \/ a \in AncestorsOrSelf(x)
    BY <2>5, <2>9, Comparable
  <2>11. CASE a \in AncestorsOrSelf(x)
    <3>1. Depth(a) < Depth(x) /\ Depth(a) \in Int /\ Depth(x) \in Int
      BY <2>00, <2>8, <2>11, LessDeep
    <3> QED BY <2>7, <3>1
  <2>12. CASE x \in AncestorsOrSelf(a)
    <3>1. a # Root
      BY <2>8, <2>12, RootAlone
    <3>2. a \in S
      BY <2>6, <2>8, <2>12, <3>1 DEF Hooks
    <3>3. Depth(a) < Depth(h) /\ Depth(a) \in Int /\ Depth(h) \in Int
      BY <2>5, <2>9, LessDeep
    <3> QED BY <2>3, <3>2, <3>3
  <2> QED BY <2>10, <2>11, <2>12
<1> HIDE DEF leaves
<1>2. c \in leaves /\ d \in leaves
  BY DEF leaves
<1> QED
  BY <1>1, <1>2, Comparable

-----------------------------------------------------------------------------
(* The survey adds up.                                                       *)

Under(f) == {g \in Scanned : f \in AncestorsOrSelf(g)}

\* Folders side by side hold together no more than what they lie in.
LEMMA SideBySide ==
  ASSUME ScanTypes, Rollups, NEW C, C \subseteq Scanned, NEW U, U \subseteq Scanned,
         \A c \in C : Under(c) \subseteq U,
         \A c, d \in C : c # d => Under(c) \cap Under(d) = {}
  PROVE  SumOf(AllocatedIn(Totals), C) <= SumOf(Loose, U)
<1>1. IsFiniteSet(C) /\ IsFiniteSet(U)
  BY ScannedTree, FS_Subset
<1>2. \A g \in U : Loose[g] \in Nat
  BY Bucketed DEF Loose, AllocatedIn, Quads
<1>3. \A c \in C : AllocatedIn(Totals)[c] = SumOf(Loose, Under(c))
  BY TotalsAreSums DEF AllocatedIn, Under
<1> DEFINE K == [c \in C |-> Under(c)]
<1>4. /\ \A c \in C : K[c] \subseteq U
      /\ \A c, d \in C : c # d => K[c] \cap K[d] = {}
      /\ \A c \in C : AllocatedIn(Totals)[c] = SumOf(Loose, K[c])
  BY <1>3
<1>5. PICK k, w, g : k = K /\ w = AllocatedIn(Totals) /\ g = Loose
  OBVIOUS
<1> HIDE DEF K
<1>6. /\ \A c \in C : k[c] \subseteq U
      /\ \A c, d \in C : c # d => k[c] \cap k[d] = {}
      /\ \A c \in C : w[c] = SumOf(g, k[c])
      /\ \A x \in U : g[x] \in Nat
  BY <1>2, <1>4, <1>5
<1>7. \A x \in U : g[x] \in Int
  BY <1>6
<1>8. SumOf(w, C) = SumOf(g, UNION {k[c] : c \in C})
  BY <1>1, <1>6, <1>7, SumOfParts
<1>9. UNION {k[c] : c \in C} \in SUBSET U
  BY <1>6
<1>10. SumOf(g, UNION {k[c] : c \in C}) <= SumOf(g, U)
  BY <1>1, <1>6, <1>9, SumGrows
<1> QED
  BY <1>5, <1>8, <1>10

AddsUp(v, r, o) ==
  /\ \A f \in DOMAIN v.totals :
       v.totals[f].allocated =
         SumOf(AllocatedIn(r), {g \in DOMAIN v.totals : f \in AncestorsOrSelf(g)} \cap DOMAIN r)
  /\ v.identified = v.totals[Root].allocated + o.allocated
  /\ \A f \in v.shown \cup {Root} :
       SumOf(AllocatedIn(v.totals), {c \in v.shown : v.hangs[c] = f}) <= v.totals[f].allocated
  /\ SumOf(v.byClass, Classes) <= v.identified

LEMMA BuiltAddsUp ==
  ASSUME ScanTypes, TreeInv, options = SurveyOptions
  PROVE  AddsUp(BuildSurvey, rollups, own)
<1> DEFINE shown == Shown(Totals)
           hangs == [f \in shown |-> HangsFrom(f, shown)]
           leaves == Leaves(shown \cup {Root}, hangs)
           byClass == ByClass(Totals, leaves)
<1>0. /\ Rollups /\ options.emitAll
      /\ result.allocated = SumOf(AllocatedIn(rollups), DOMAIN rollups) + own.allocated
  BY DEF TreeInv, Tallied, SurveyOptions
<1>1. /\ BuildSurvey.identified = result.allocated /\ BuildSurvey.totals = Totals
      /\ BuildSurvey.shown = shown /\ BuildSurvey.hangs = hangs /\ BuildSurvey.byClass = byClass
  <2> HIDE DEF byClass, hangs, shown, leaves
  <2>1. BuildSurvey = [identified |-> result.allocated, complete |-> result.completed,
                       unreadable |-> result.skipped, totals |-> Totals, shown |-> shown, hangs |-> hangs,
                       byClass |-> byClass]
    BY DEF BuildSurvey, byClass, hangs, shown, leaves
  <2> QED BY <2>1
<1>2. /\ Totals \in [Scanned -> Quads]
      /\ \A f \in Scanned : Totals[f].allocated = SumOf(Loose, Under(f))
  BY <1>0, TotalsAreSums DEF Under
<1>3. /\ \A f \in Scanned : Loose[f] = IF f \in DOMAIN rollups THEN rollups[f].allocated ELSE 0
      /\ \A f \in Scanned : Loose[f] \in Nat
      /\ \A f \in DOMAIN rollups : AllocatedIn(rollups)[f] = Loose[f]
  BY <1>0, Bucketed, ScannedTree DEF Loose, AllocatedIn, Quads
<1>4. shown \subseteq Scanned \ {Root} /\ shown \subseteq Nodes \ {Root}
  BY <1>2, ScannedTree DEF Shown
<1>5. ASSUME NEW f \in Scanned
      PROVE  Totals[f].allocated = SumOf(AllocatedIn(rollups), Under(f) \cap DOMAIN rollups)
  <2>1. IsFiniteSet(Under(f)) /\ Under(f) \cap DOMAIN rollups \in SUBSET Under(f) /\ IsFiniteSet(Under(f) \cap DOMAIN rollups)
    BY ScannedTree, FS_Subset DEF Under
  <2>2. \A x \in Under(f) : Loose[x] \in Int
    BY <1>3 DEF Under
  <2>3. \A x \in Under(f) \ (Under(f) \cap DOMAIN rollups) : Loose[x] = 0
    BY <1>3 DEF Under
  <2>4. SumOf(Loose, Under(f) \cap DOMAIN rollups) = SumOf(Loose, Under(f))
    BY <2>1, <2>2, <2>3, SumWithoutNothing
  <2>5. \A x \in Under(f) \cap DOMAIN rollups : Loose[x] \in Int /\ Loose[x] = AllocatedIn(rollups)[x]
    BY <1>3, <2>2
  <2>6. SumOf(Loose, Under(f) \cap DOMAIN rollups) = SumOf(AllocatedIn(rollups), Under(f) \cap DOMAIN rollups)
    BY <2>1, <2>5, SameSum
  <2> QED BY <1>2, <2>4, <2>6
<1>6. Under(Root) = Scanned /\ DOMAIN rollups \subseteq Scanned /\ Root \in Scanned
  BY ScannedTree, SelfFirst DEF Under
<1>7. result.allocated = Totals[Root].allocated + own.allocated
  <2>1. Under(Root) \cap DOMAIN rollups = DOMAIN rollups
    BY <1>6
  <2> QED BY <1>0, <1>5, <1>6, <2>1
<1>8. ASSUME NEW f \in shown \cup {Root}
      PROVE  SumOf(AllocatedIn(Totals), {c \in shown : hangs[c] = f}) <= Totals[f].allocated
  <2> DEFINE C == {c \in shown : HangsFrom(c, shown) = f}
  <2>1. {c \in shown : hangs[c] = f} = C
    OBVIOUS
  <2>2. f \in Scanned
    BY <1>4, <1>6
  <2>3. ASSUME NEW c \in C PROVE Under(c) \subseteq Under(f)
    <3>1. f \in AncestorsOrSelf(c)
      BY <1>4, Hanging DEF Hooks
    <3> QED BY <3>1, ScannedTree, Transitive DEF Under
  <2>4. ASSUME NEW c \in C, NEW d \in C, c # d PROVE Under(c) \cap Under(d) = {}
    <3>1. ASSUME NEW g \in Scanned PROVE ~(c \in AncestorsOrSelf(g) /\ d \in AncestorsOrSelf(g))
      BY <1>4, <2>4, <3>1, ScannedTree, HungApart
    <3> QED BY <3>1 DEF Under
  <2>5. C \subseteq Scanned /\ Under(f) \subseteq Scanned
    BY <1>4 DEF Under
  <2> HIDE DEF C, shown
  <2>6. SumOf(AllocatedIn(Totals), C) <= SumOf(Loose, Under(f))
    BY <1>0, <2>3, <2>4, <2>5, SideBySide
  <2> QED BY <1>2, <2>1, <2>2, <2>6
<1>9. /\ SumOf(byClass, Classes) <= Totals[Root].allocated
      /\ SumOf(byClass, Classes) \in Nat /\ Totals[Root].allocated \in Nat
  <2> DEFINE K == [class \in Classes |-> {f \in leaves : Classify(PathOf[f]).class = class}]
  <2>1. \A class \in Classes : byClass[class] = SumOf(AllocatedIn(Totals), K[class])
    BY DEF ByClass, Sum, SumOf
  <2>2. leaves \subseteq Scanned
    BY <1>4, <1>6 DEF Leaves
  <2>3. \A x \in leaves : AllocatedIn(Totals)[x] \in Nat
    BY <1>2, <2>2 DEF AllocatedIn, Quads
  <2>4. ASSUME NEW c \in leaves, NEW d \in leaves, c # d PROVE Under(c) \cap Under(d) = {}
    <3>1. ASSUME NEW g \in Scanned PROVE ~(c \in AncestorsOrSelf(g) /\ d \in AncestorsOrSelf(g))
      BY <1>4, <2>4, <3>1, ScannedTree, LeavesApart
    <3> QED BY <3>1 DEF Under
  <2>5. /\ \A class \in Classes : K[class] \subseteq leaves
        /\ \A c, d \in Classes : c # d => K[c] \cap K[d] = {}
    OBVIOUS
  <2>6. IsFiniteSet(Classes)
    <3>1. IsFiniteSet({"safe"}) /\ IsFiniteSet({"consequence"}) /\ IsFiniteSet({"review"}) /\ IsFiniteSet({"protected"})
      BY FS_Singleton
    <3>2. IsFiniteSet({"safe"} \cup {"consequence"}) /\ IsFiniteSet({"review"} \cup {"protected"})
      BY <3>1, FS_Union
    <3>3. IsFiniteSet(({"safe"} \cup {"consequence"}) \cup ({"review"} \cup {"protected"}))
      BY <3>2, FS_Union
    <3>4. Classes = ({"safe"} \cup {"consequence"}) \cup ({"review"} \cup {"protected"})
      BY DEF Classes
    <3> QED BY <3>3, <3>4
  <2>7. PICK w, t, k, L : w = byClass /\ t = AllocatedIn(Totals) /\ k = K /\ L = leaves
    OBVIOUS
  <2> HIDE DEF K, byClass, leaves
  <2>8. IsFiniteSet(L) /\ L \subseteq Scanned
    BY <2>2, <2>7, ScannedTree, FS_Subset
  <2>9. /\ \A class \in Classes : k[class] \subseteq L /\ w[class] = SumOf(t, k[class])
        /\ \A c, d \in Classes : c # d => k[c] \cap k[d] = {}
        /\ \A x \in L : t[x] \in Nat
    BY <2>1, <2>3, <2>5, <2>7
  <2>10. \A x \in L : t[x] \in Int
    BY <2>9
  <2>11. SumOf(w, Classes) = SumOf(t, UNION {k[c] : c \in Classes})
    BY <2>6, <2>8, <2>9, <2>10, SumOfParts
  <2>12. UNION {k[c] : c \in Classes} \in SUBSET L
    BY <2>9
  <2>13. SumOf(t, UNION {k[c] : c \in Classes}) <= SumOf(t, L) /\ SumOf(t, L) \in Nat
         /\ SumOf(t, UNION {k[c] : c \in Classes}) \in Nat
    BY <2>8, <2>9, <2>12, SumGrows
  <2>14. SumOf(AllocatedIn(Totals), L) <= SumOf(Loose, Scanned)
    <3>1. \A c \in L : Under(c) \subseteq Scanned
      BY DEF Under
    <3>2. \A c, d \in L : c # d => Under(c) \cap Under(d) = {}
      BY <2>4, <2>7
    <3> QED BY <1>0, <2>8, <3>1, <3>2, SideBySide
  <2>15. Totals[Root].allocated = SumOf(Loose, Scanned) /\ Totals[Root].allocated \in Nat
    BY <1>2, <1>6 DEF Quads
  <2>16. PICK a, b, c : a = SumOf(w, Classes) /\ b = SumOf(t, L) /\ c = Totals[Root].allocated
    OBVIOUS
  <2>17. a \in Nat /\ b \in Nat /\ c \in Nat /\ a <= b /\ b <= c
    BY <2>7, <2>11, <2>13, <2>14, <2>15, <2>16
  <2> QED BY <2>7, <2>16, <2>17
<1>10. own.allocated \in Nat
  BY DEF ScanTypes
<1>11. SumOf(byClass, Classes) <= result.allocated
  <2>1. PICK a, b, c : a = SumOf(byClass, Classes) /\ b = Totals[Root].allocated /\ c = own.allocated
    OBVIOUS
  <2>2. a \in Nat /\ b \in Nat /\ c \in Nat /\ a <= b /\ result.allocated = b + c
    BY <1>7, <1>9, <1>10, <2>1
  <2>3. a <= result.allocated
    BY <2>2
  <2> QED BY <2>1, <2>3
<1> HIDE DEF byClass, leaves, hangs, shown
<1>12. DOMAIN Totals = Scanned
  BY <1>2
<1> QED
  BY <1>1, <1>4, <1>5, <1>7, <1>8, <1>11, <1>12 DEF AddsUp, Under

Built == survey # None => done /\ AddsUp(survey, rollups, own)

LEMMA TreeInductive == SurveySpec => [](WalkInv /\ TreeInv /\ Built)
<1>1. SurveyInit => TreeInv /\ Built
  BY TreeInvInit DEF SurveyInit, Built
<1>2. WalkInv /\ TreeInv /\ Built /\ [SurveyNext]_surveyVars => (TreeInv /\ Built)'
  <2> SUFFICES ASSUME WalkInv, TreeInv, Built, [SurveyNext]_surveyVars PROVE (TreeInv /\ Built)'
    OBVIOUS
  <2>1. CASE ScanNext /\ UNCHANGED survey
    <3>1. TreeInv'
      BY <2>1, TreeInvStep DEF WalkInv
    <3>2. survey = None
      BY <2>1, DoneStays DEF Built
    <3> QED BY <2>1, <3>1, <3>2 DEF Built
  <2>2. CASE UNCHANGED vars /\ (Build \/ UNCHANGED survey)
    <3>1. TreeInv'
      BY <2>2 DEF TreeInv, Rollups, RolledOnce, Tallied, Waiting, vars, disk
    <3>2. done' = done /\ rollups' = rollups /\ own' = own
      BY <2>2 DEF vars
    <3>3. CASE Build
      <4>1. AddsUp(survey', rollups', own')
        BY <3>2, <3>3, BuiltAddsUp DEF Build, WalkInv
      <4> QED BY <3>1, <3>2, <3>3, <4>1 DEF Build, Built
    <3>4. CASE UNCHANGED survey
      BY <3>1, <3>2, <3>4 DEF Built
    <3> QED BY <2>2, <3>3, <3>4
  <2> QED
    BY <2>1, <2>2 DEF SurveyNext, Build, surveyVars
<1> QED
  BY <1>1, <1>2, WalkInductive, PTL DEF SurveySpec

\* What survey_space() shows adds up, for every volume, catalogue of classes and order the disk
\* changed in: the total of a folder is what was rolled up in it and below, the total of the volume
\* what the scan identified, the children of a node hold no more than the node, and the classes no
\* more than the volume (survey_space, space_survey.cpp).
THEOREM TreeAndClassesAddUp == SurveySpec => []SurveyAddsUp
<1>1. Built => SurveyAddsUp
  BY DEF Built, AddsUp, SurveyAddsUp, Below, HungFrom, Sum, SumOf
<1> QED
  BY <1>1, TreeInductive, PTL
=============================================================================
