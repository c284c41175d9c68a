--------------------------- MODULE SdShellProofs ---------------------------
(***************************************************************************)
(* The file commands for any files, cards and clusters: no cluster ever    *)
(* belongs to two files, the clusters of a file hold the lines of which    *)
(* the directory tells, and a command that succeeds has done its work.     *)
(***************************************************************************)
EXTENDS SdShell, WellFoundedInduction, TLAPS

-----------------------------------------------------------------------------
(* Chains.                                                                   *)

\* What a directory entry or the cell of a cluster may hold.
Links == {0} \union Clusters
Cells == Links \union {EOC}
Fats == [Clusters -> Cells]

\* What the assumption says of clusters.
LEMMA ClustersLemma ==
    /\ NumClusters \in Nat /\ NumClusters > 0 /\ PerSector \in Nat /\ PerSector > 0
    /\ Clusters \subseteq Nat /\ 0 \notin Clusters /\ 1 \notin Clusters
    /\ EOC \notin Clusters /\ EOC # 0
BY ShellAssumption DEF Clusters, EOC

\* Induction on the natural numbers, for a set.
LEMMA NatSetInduction ==
    ASSUME NEW S, 0 \in S, \A n \in Nat : n \in S => n + 1 \in S
    PROVE  Nat \subseteq S
<1> DEFINE T == Nat \ S
<1> SUFFICES ASSUME T # {} PROVE FALSE
  OBVIOUS
<1>1. PICK x \in T : \A y \in T : ~ (<<y, x>> \in OpToRel(<, Nat))
  <2>1. T \subseteq Nat OBVIOUS
  <2>. HIDE DEF T
  <2> QED BY <2>1, NatLessThanWellFounded, WFMin
<1>2. \A y \in T : ~(y < x)
  <2>1. \A y \in T : y \in Nat /\ x \in Nat OBVIOUS
  <2>. HIDE DEF T
  <2> QED BY <1>1, <2>1, Zenon DEF OpToRel
<1> QED BY <1>2

\* h takes n steps from base.
Walks(h, n, V, base, step) ==
    h \in [0..n -> V] /\ h[0] = base /\ \A i \in 0..(n - 1) : h[i + 1] = step[h[i]]

\* A walk of n steps exists, and is the only one.
LEMMA WalkLemma ==
    ASSUME NEW V, NEW base \in V, NEW step \in [V -> V]
    PROVE  /\ \A n \in Nat : \E h : Walks(h, n, V, base, step)
           /\ \A n \in Nat, m \in Nat : \A h, k :
                Walks(h, n, V, base, step) /\ Walks(k, m, V, base, step) /\ n <= m => h[n] = k[n]
<1> DEFINE Q == {n \in Nat : \E h : Walks(h, n, V, base, step)}
<1>1. 0 \in Q
  <2>1. Walks([i \in 0..0 |-> base], 0, V, base, step)
    BY DEF Walks
  <2> QED BY <2>1
<1>2. ASSUME NEW n \in Nat, n \in Q PROVE n + 1 \in Q
  <2>1. PICK h : Walks(h, n, V, base, step)
    BY <1>2
  <2> DEFINE k == [i \in 0..(n + 1) |-> IF i = n + 1 THEN step[h[n]] ELSE h[i]]
  <2>2. h \in [0..n -> V] /\ h[0] = base /\ \A i \in 0..(n - 1) : h[i + 1] = step[h[i]]
    BY <2>1 DEF Walks
  <2>3. \A i \in 0..(n + 1) : k[i] \in V
    BY <2>2
  <2>4. k \in [0..(n + 1) -> V] /\ k[0] = base
    BY <2>2, <2>3
  <2>5. ASSUME NEW i \in 0..n PROVE k[i + 1] = step[k[i]]
    <3>1. CASE i = n
      BY <3>1
    <3>2. CASE i # n
      <4>1. i \in 0..(n - 1) /\ i + 1 \in 0..(n + 1) /\ i + 1 # n + 1
        BY <3>2
      <4> QED BY <4>1, <2>2
    <3> QED BY <3>1, <3>2
  <2>6. Walks(k, n + 1, V, base, step)
    <3>1. (n + 1) - 1 = n
      OBVIOUS
    <3> HIDE DEF k
    <3> QED BY <2>4, <2>5, <3>1 DEF Walks
  <2> QED BY <2>6
<1>3. Nat \subseteq Q
  <2> HIDE DEF Q
  <2> QED BY <1>1, <1>2, NatSetInduction
<1>4. ASSUME NEW n \in Nat, NEW m \in Nat, NEW h, NEW k, n <= m,
             Walks(h, n, V, base, step), Walks(k, m, V, base, step)
      PROVE  h[n] = k[n]
  <2> DEFINE R == {i \in Nat : i <= n => h[i] = k[i]}
  <2>1. 0 \in R
    BY <1>4 DEF Walks
  <2>2. ASSUME NEW i \in Nat, i \in R PROVE i + 1 \in R
    <3> SUFFICES ASSUME i + 1 <= n PROVE h[i + 1] = k[i + 1]
      OBVIOUS
    <3>1. i \in 0..(n - 1) /\ i \in 0..(m - 1) /\ h[i] = k[i]
      BY <1>4, <2>2
    <3> QED BY <3>1, <1>4 DEF Walks
  <2>3. Nat \subseteq R
    <3> HIDE DEF R
    <3> QED BY <2>1, <2>2, NatSetInduction
  <2> QED BY <2>3
<1>5. \A n \in Nat : \E h : Walks(h, n, V, base, step)
  BY <1>3
<1> QED BY <1>4, <1>5

Repeats(g, base, step) == g[0] = base /\ \A n \in Nat : g[n + 1] = step[g[n]]

\* A function on the natural numbers that takes a step at a time.
LEMMA NatRecursion ==
    ASSUME NEW V, NEW base \in V, NEW step \in [V -> V]
    PROVE  \E g \in [Nat -> V] : Repeats(g, base, step)
<1> DEFINE walk(n) == CHOOSE h : Walks(h, n, V, base, step)
           g == [n \in Nat |-> walk(n)[n]]
<1>1. \A n \in Nat : Walks(walk(n), n, V, base, step)
  BY WalkLemma
<1>2. \A n \in Nat : walk(n)[n] \in V
  <2> SUFFICES ASSUME NEW n \in Nat PROVE walk(n)[n] \in V
    OBVIOUS
  <2>1. Walks(walk(n), n, V, base, step)
    BY <1>1
  <2> HIDE DEF walk
  <2> QED BY <2>1 DEF Walks
<1>3. g[0] = base
  <2>1. Walks(walk(0), 0, V, base, step)
    BY <1>1
  <2> HIDE DEF walk
  <2> QED BY <2>1 DEF Walks
<1>4. ASSUME NEW n \in Nat PROVE g[n + 1] = step[g[n]]
  <2>1. Walks(walk(n), n, V, base, step) /\ Walks(walk(n + 1), n + 1, V, base, step)
    BY <1>1
  <2> HIDE DEF walk
  <2>2. walk(n)[n] = walk(n + 1)[n]
    <3>1. n <= n + 1 /\ n + 1 \in Nat
      OBVIOUS
    <3> QED BY <2>1, <3>1, WalkLemma
  <2>3. walk(n + 1)[n + 1] = step[walk(n + 1)[n]]
    BY <2>1 DEF Walks
  <2> QED BY <2>2, <2>3
<1> HIDE DEF walk
<1> QED BY <1>2, <1>3, <1>4 DEF Repeats

\* The recursion of Nth, a step at a time.
LEMMA NthLemma ==
    ASSUME NEW fat \in Fats, NEW first \in Cells
    PROVE  /\ Nth(fat, first, 0) = IF first \in Clusters THEN first ELSE 0
           /\ \A k \in Nat :
                /\ Nth(fat, first, k) \in Links
                /\ Nth(fat, first, k + 1) =
                     IF Nth(fat, first, k) \in Clusters /\ fat[Nth(fat, first, k)] \in Clusters
                     THEN fat[Nth(fat, first, k)] ELSE 0
<1> DEFINE step == [x \in Cells |-> IF x \in Clusters THEN fat[x] ELSE 0]
           nth[i \in Nat] == IF i = 0 THEN first
                             ELSE IF nth[i - 1] \in Clusters THEN fat[nth[i - 1]] ELSE 0
<1>1. step \in [Cells -> Cells]
  BY DEF Cells, Links, Fats
<1>2. PICK g \in [Nat -> Cells] : Repeats(g, first, step)
  <2> HIDE DEF step
  <2> QED BY <1>1, NatRecursion
<1>3. g = [i \in Nat |-> IF i = 0 THEN first
                         ELSE IF g[i - 1] \in Clusters THEN fat[g[i - 1]] ELSE 0]
  <2>1. ASSUME NEW i \in Nat
        PROVE  g[i] = IF i = 0 THEN first
                      ELSE IF g[i - 1] \in Clusters THEN fat[g[i - 1]] ELSE 0
    <3>1. CASE i = 0
      BY <3>1, <1>2 DEF Repeats
    <3>2. CASE i # 0
      <4>1. i - 1 \in Nat /\ (i - 1) + 1 = i
        BY <3>2
      <4>2. g[(i - 1) + 1] = step[g[i - 1]] /\ g[i - 1] \in Cells
        BY <1>2, <4>1 DEF Repeats
      <4> QED BY <3>2, <4>1, <4>2
    <3> QED BY <3>1, <3>2
  <2> QED BY <1>2, <2>1
<1>4. nth = [i \in Nat |-> IF i = 0 THEN first
                           ELSE IF nth[i - 1] \in Clusters THEN fat[nth[i - 1]] ELSE 0]
  BY <1>3
<1>5. \A k : Nth(fat, first, k) = IF nth[k] \in Clusters THEN nth[k] ELSE 0
  BY DEF Nth
<1> HIDE DEF nth
<1>6. nth[0] = first
  BY <1>4
<1>7. ASSUME NEW k \in Nat
      PROVE  nth[k + 1] = IF nth[k] \in Clusters THEN fat[nth[k]] ELSE 0
  <2>1. k + 1 \in Nat /\ k + 1 # 0 /\ (k + 1) - 1 = k
    OBVIOUS
  <2> QED BY <1>4, <2>1
<1> QED BY <1>5, <1>6, <1>7, ClustersLemma DEF Links

-----------------------------------------------------------------------------
(* The shape of a FAT: every cluster has at most one predecessor, and a      *)
(* cluster that is in a chain is not free.                                   *)

FatOK(fat) ==
    \A j \in Clusters : fat[j] \in Clusters =>
        fat[fat[j]] # 0 /\ \A k \in Clusters : fat[k] = fat[j] => k = j

\* x is the first cluster of a chain.
Begins(fat, x) == x \in Clusters /\ fat[x] # 0 /\ \A j \in Clusters : fat[j] # x

\* Chains that begin at different clusters never meet.
LEMMA ApartLemma ==
    ASSUME NEW fat \in Fats, FatOK(fat),
           NEW a, Begins(fat, a), NEW b, Begins(fat, b), a # b,
           NEW i \in Nat, NEW j \in Nat, Nth(fat, a, i) = Nth(fat, b, j)
    PROVE  Nth(fat, a, i) = 0
<1> DEFINE A(n) == Nth(fat, a, n)
           B(n) == Nth(fat, b, n)
           Q == {n \in Nat : \A m \in Nat : A(n) = B(m) => A(n) = 0}
<1>1. /\ a \in Clusters /\ b \in Clusters /\ a \in Cells /\ b \in Cells
      /\ \A k \in Clusters : fat[k] # a /\ fat[k] # b
  BY DEF Begins, Cells, Links
<1>2. A(0) = a /\ B(0) = b
  BY <1>1, NthLemma
<1>3. \A n \in Nat : /\ A(n) \in Links /\ B(n) \in Links
                     /\ A(n + 1) = IF A(n) \in Clusters /\ fat[A(n)] \in Clusters
                                   THEN fat[A(n)] ELSE 0
                     /\ B(n + 1) = IF B(n) \in Clusters /\ fat[B(n)] \in Clusters
                                   THEN fat[B(n)] ELSE 0
  BY <1>1, NthLemma
<1> HIDE DEF A, B
<1>4. \A m \in Nat : m # 0 => m - 1 \in Nat /\ (m - 1) + 1 = m
  OBVIOUS
<1>5. 0 \in Q
  <2> SUFFICES ASSUME NEW m \in Nat, A(0) = B(m) PROVE A(0) = 0
    OBVIOUS
  <2>1. CASE m = 0
    BY <2>1, <1>2
  <2>2. CASE m # 0
    <3>1. m - 1 \in Nat /\ (m - 1) + 1 = m
      BY <2>2
    <3> DEFINE y == B(m - 1)
    <3>2. B(m) = IF y \in Clusters /\ fat[y] \in Clusters THEN fat[y] ELSE 0
      BY <1>3, <3>1
    <3> HIDE DEF y
    <3> QED BY <3>2, <1>1, <1>2
  <2> QED BY <2>1, <2>2
<1>6. ASSUME NEW n \in Nat, n \in Q PROVE n + 1 \in Q
  <2> SUFFICES ASSUME NEW m \in Nat, A(n + 1) = B(m), A(n + 1) # 0 PROVE FALSE
    OBVIOUS
  <2>1. A(n) \in Clusters /\ A(n + 1) = fat[A(n)] /\ fat[A(n)] \in Clusters
    BY <1>3
  <2>2. m # 0
    BY <2>1, <1>1, <1>2
  <2>3. m - 1 \in Nat /\ (m - 1) + 1 = m
    BY <2>2
  <2> DEFINE y == B(m - 1)
  <2>4. B(m) = IF y \in Clusters /\ fat[y] \in Clusters THEN fat[y] ELSE 0
    BY <1>3, <2>3
  <2>5. A(n) = y => A(n) = 0
    BY <1>6, <2>3
  <2> HIDE DEF y
  <2>6. y \in Clusters /\ fat[y] = fat[A(n)]
    BY <2>1, <2>4
  <2>7. y = A(n)
    BY <2>1, <2>6 DEF FatOK
  <2> QED BY <2>1, <2>5, <2>7, ClustersLemma
<1>7. Nat \subseteq Q
  <2> HIDE DEF Q
  <2> QED BY <1>5, <1>6, NatSetInduction
<1> QED BY <1>7 DEF A, B

\* The clusters of a chain: its first one and, of some, the successors.
LEMMA ChainLemma ==
    ASSUME NEW fat \in Fats, NEW x \in Clusters
    PROVE  /\ ChainOf(fat, x) \subseteq Clusters /\ x \in ChainOf(fat, x)
           /\ fat[x] \in Clusters => fat[x] \in ChainOf(fat, x)
           /\ \A z \in ChainOf(fat, x) : z # x => \E y \in ChainOf(fat, x) : fat[y] = z
<1> DEFINE A(n) == Nth(fat, x, n)
<1>1. x \in Cells /\ NumClusters \in Nat /\ NumClusters > 0
  BY ClustersLemma DEF Cells, Links
<1>2. A(0) = x
  BY <1>1, NthLemma
<1>3. \A n \in Nat : /\ A(n) \in Links
                     /\ A(n + 1) = IF A(n) \in Clusters /\ fat[A(n)] \in Clusters
                                   THEN fat[A(n)] ELSE 0
  BY <1>1, NthLemma
<1>4. ChainOf(fat, x) = {A(k) : k \in 0..(NumClusters - 1)} \ {0}
  BY DEF ChainOf
<1> HIDE DEF A
<1>5. ChainOf(fat, x) \subseteq Clusters
  BY <1>3, <1>4 DEF Links
<1>6. x \in ChainOf(fat, x)
  <2>1. 0 \in 0..(NumClusters - 1)
    BY <1>1
  <2> QED BY <1>2, <1>4, <2>1, ClustersLemma
<1>7. fat[x] \in Clusters => fat[x] \in ChainOf(fat, x)
  <2> SUFFICES ASSUME fat[x] \in Clusters PROVE fat[x] \in ChainOf(fat, x)
    OBVIOUS
  <2>1. CASE NumClusters = 1
    <3>1. fat[x] = x
      BY <2>1 DEF Clusters
    <3> QED BY <3>1, <1>6
  <2>2. CASE NumClusters # 1
    <3>1. 1 \in 0..(NumClusters - 1) /\ 0 + 1 = 1
      BY <1>1, <2>2
    <3>2. A(1) = fat[x]
      BY <1>2, <1>3, <3>1
    <3> QED BY <1>4, <3>1, <3>2, ClustersLemma
  <2> QED BY <2>1, <2>2
<1>8. ASSUME NEW z \in ChainOf(fat, x), z # x
      PROVE  \E y \in ChainOf(fat, x) : fat[y] = z
  <2>1. PICK k \in 0..(NumClusters - 1) : z = A(k)
    BY <1>4
  <2>2. k # 0 /\ z # 0
    BY <1>2, <1>4, <1>8, <2>1
  <2>3. k - 1 \in Nat /\ (k - 1) + 1 = k /\ k - 1 \in 0..(NumClusters - 1)
    BY <1>1, <2>2
  <2> DEFINE y == A(k - 1)
  <2>4. A(k) = IF y \in Clusters /\ fat[y] \in Clusters THEN fat[y] ELSE 0
    BY <1>3, <2>3
  <2>5. y \in ChainOf(fat, x) \/ y = 0
    BY <1>4, <2>3
  <2> HIDE DEF y
  <2> QED BY <2>1, <2>2, <2>4, <2>5, ClustersLemma
<1> QED BY <1>5, <1>6, <1>7, <1>8

\* An empty file has no cluster.
LEMMA EmptyLemma ==
    ASSUME NEW fat \in Fats
    PROVE  ChainOf(fat, 0) = {}
<1> DEFINE A(n) == Nth(fat, 0, n)
           Q == {n \in Nat : A(n) = 0}
<1>1. /\ A(0) = 0
      /\ \A n \in Nat : A(n + 1) = IF A(n) \in Clusters /\ fat[A(n)] \in Clusters
                                   THEN fat[A(n)] ELSE 0
  BY NthLemma, ClustersLemma DEF Cells, Links
<1>2. ChainOf(fat, 0) = {A(k) : k \in 0..(NumClusters - 1)} \ {0}
  BY DEF ChainOf
<1> HIDE DEF A
<1>3. 0 \in Q /\ \A n \in Nat : n \in Q => n + 1 \in Q
  BY <1>1, ClustersLemma
<1>4. Nat \subseteq Q
  <2> HIDE DEF Q
  <2> QED BY <1>3, NatSetInduction
<1> QED BY <1>2, <1>4, ClustersLemma

\* remove_chain leaves a sound FAT with the other chains.
LEMMA FreeLemma ==
    ASSUME NEW fat \in Fats, FatOK(fat), NEW x, Begins(fat, x),
           NEW new, new = [k \in Clusters |-> IF k \in ChainOf(fat, x) THEN 0 ELSE fat[k]]
    PROVE  /\ new \in Fats /\ FatOK(new)
           /\ \A y : Begins(fat, y) /\ y # x => Begins(new, y)
<1> DEFINE Z == ChainOf(fat, x)
<1>1. /\ Z \subseteq Clusters /\ x \in Clusters
      /\ \A z \in Z : z # x => \E y \in Z : fat[y] = z
  BY ChainLemma DEF Begins
<1>2. new = [k \in Clusters |-> IF k \in Z THEN 0 ELSE fat[k]]
  OBVIOUS
<1> HIDE DEF Z
<1>3. new \in Fats
  BY <1>2 DEF Fats, Cells, Links
<1>4. ASSUME NEW j \in Clusters, new[j] \in Clusters
      PROVE  j \notin Z /\ new[j] = fat[j] /\ fat[j] \notin Z
  <2>1. j \notin Z /\ new[j] = fat[j]
    BY <1>2, <1>4, ClustersLemma
  <2>2. ASSUME fat[j] \in Z PROVE FALSE
    <3>1. fat[j] # x
      BY DEF Begins
    <3>2. PICK y \in Z : fat[y] = fat[j]
      BY <1>1, <2>2, <3>1
    <3>3. y = j
      BY <1>1, <1>4, <2>1, <3>2 DEF FatOK
    <3> QED BY <2>1, <3>3
  <2> QED BY <2>1, <2>2
<1>5. FatOK(new)
  <2> SUFFICES ASSUME NEW j \in Clusters, new[j] \in Clusters
               PROVE  new[new[j]] # 0 /\ \A k \in Clusters : new[k] = new[j] => k = j
    BY DEF FatOK
  <2>1. new[j] = fat[j] /\ fat[j] \in Clusters /\ new[fat[j]] = fat[fat[j]]
    BY <1>2, <1>4
  <2>2. \A k \in Clusters : new[k] = new[j] => fat[k] = fat[j]
    BY <1>4, <2>1
  <2> QED BY <2>1, <2>2 DEF FatOK
<1>6. ASSUME NEW y, Begins(fat, y), y # x PROVE Begins(new, y)
  <2>1. y \notin Z
    BY <1>1, <1>6 DEF Begins
  <2>2. \A j \in Clusters : new[j] # y
    BY <1>2, <1>6, ClustersLemma DEF Begins
  <2> QED BY <1>2, <1>6, <2>1, <2>2 DEF Begins
<1> QED BY <1>3, <1>5, <1>6

\* create_chain links a free cluster to the end of a chain, or to nothing.
LEMMA LinkLemma ==
    ASSUME NEW fat \in Fats, FatOK(fat), NEW c \in Clusters, fat[c] = 0,
           NEW t, t = 0 \/ (t \in Clusters /\ fat[t] = EOC)
    PROVE  /\ Linked(fat, t, c) \in Fats /\ FatOK(Linked(fat, t, c))
           /\ \A y : Begins(fat, y) => Begins(Linked(fat, t, c), y) /\ y # c
           /\ t = 0 => Begins(Linked(fat, t, c), c)
<1> DEFINE new == Linked(fat, t, c)
<1>1. new = [k \in Clusters |-> IF k = c THEN EOC ELSE IF k = t THEN c ELSE fat[k]]
  BY DEF Linked
<1> HIDE DEF new
<1>2. new \in Fats
  BY <1>1 DEF Fats, Cells, Links
<1>3. t # c /\ \A k \in Clusters : fat[k] # c
  <2>1. \A k \in Clusters : fat[k] # c
    BY DEF FatOK
  <2> QED BY <2>1, ClustersLemma
<1>4. FatOK(new)
  <2> SUFFICES ASSUME NEW j \in Clusters, new[j] \in Clusters
               PROVE  new[new[j]] # 0 /\ \A k \in Clusters : new[k] = new[j] => k = j
    BY DEF FatOK
  <2>1. j # c
    BY <1>1, ClustersLemma
  <2>2. CASE j = t
    <3>1. new[j] = c /\ new[c] = EOC
      BY <1>1, <2>1, <2>2
    <3> QED BY <1>1, <1>3, <2>2, <3>1, ClustersLemma
  <2>3. CASE j # t
    <3>1. new[j] = fat[j] /\ fat[j] \in Clusters
      BY <1>1, <2>1, <2>3
    <3>2. fat[fat[j]] # 0 /\ \A k \in Clusters : fat[k] = fat[j] => k = j
      BY <3>1 DEF FatOK
    <3>3. fat[j] # c
      BY <1>3
    <3>4. new[fat[j]] # 0
      BY <1>1, <3>1, <3>2, <3>3, ClustersLemma
    <3>5. \A k \in Clusters : new[k] = fat[j] => fat[k] = fat[j]
      BY <1>1, <3>1, <3>3, ClustersLemma
    <3> QED BY <3>1, <3>2, <3>4, <3>5
  <2> QED BY <2>2, <2>3
<1>5. ASSUME NEW y, Begins(fat, y) PROVE Begins(new, y) /\ y # c
  BY <1>1, <1>5, ClustersLemma DEF Begins
<1>6. t = 0 => Begins(new, c)
  BY <1>1, <1>3, ClustersLemma DEF Begins
<1> QED BY <1>2, <1>4, <1>5, <1>6 DEF new

\* The least of a set of numbers is one of them.
LEMMA MinLemma ==
    ASSUME NEW T \in SUBSET Nat, T # {}
    PROVE  Min(T) \in T
<1>1. PICK x \in T : \A y \in T : ~ (<<y, x>> \in OpToRel(<, Nat))
  BY NatLessThanWellFounded, WFMin
<1>2. \A y \in T : y \in Nat /\ x \in Nat
  OBVIOUS
<1>3. \A y \in T : ~(y < x)
  BY <1>1, <1>2, Zenon DEF OpToRel
<1>4. \A y \in T : x <= y
  BY <1>2, <1>3
<1> QED BY <1>4 DEF Min

\* create_chain finds a cluster that follows t already, or a free one for a
\* chain that ends with t or for a new one.
LEMMA GrownLemma ==
    ASSUME NEW fat \in Fats, NEW t \in Links
    PROVE  LET c == Grown(fat, t)
           IN  /\ c \in {0, 1} \union Clusters
               /\ c \in Clusters => \/ t # 0 /\ fat[t] = c
                                    \/ fat[c] = 0 /\ (t = 0 \/ fat[t] = EOC)
<1> DEFINE next == IF t + 1 \in Clusters THEN t + 1 ELSE 2
           hint == IF fs.last \in Clusters THEN fs.last ELSE IF t = 0 THEN 1 ELSE t
           c == Grown(fat, t)
<1>1. t # 0 => t \in Clusters /\ fat[t] \in {0, EOC} \union Clusters
  BY DEF Links, Fats, Cells
<1>2. next \in Clusters
  BY ClustersLemma DEF Clusters
<1>3. ASSUME NEW h
      PROVE  \/ FreeAfter(fat, h) = 0
             \/ FreeAfter(fat, h) \in Clusters /\ fat[FreeAfter(fat, h)] = 0
  <2> DEFINE free == {k \in Clusters : fat[k] = 0}
             later == {k \in free : k > h}
  <2>1. FreeAfter(fat, h) = IF free = {} THEN 0 ELSE IF later # {} THEN Min(later) ELSE Min(free)
    BY DEF FreeAfter
  <2>2. free \in SUBSET Nat /\ later \in SUBSET Nat /\ later \subseteq free
    BY ClustersLemma
  <2>3. (free # {} => Min(free) \in free) /\ (later # {} => Min(later) \in later)
    <3> HIDE DEF free, later
    <3> QED BY <2>2, MinLemma
  <2> QED BY <2>1, <2>2, <2>3
<1> DEFINE found == FreeAfter(fat, hint)
<1>4. c = CASE t # 0 /\ fat[t] = 0 -> 1
            [] t # 0 /\ fat[t] \in Clusters -> fat[t]
            [] t # 0 /\ fat[t] = EOC /\ fat[next] = 0 -> next
            [] OTHER -> found
  BY DEF Grown
<1>5. found = 0 \/ (found \in Clusters /\ fat[found] = 0)
  BY <1>3
<1> HIDE DEF next, found, c
<1>6. CASE t # 0 /\ fat[t] = 0
  <2>1. c = 1
    BY <1>4, <1>6, ClustersLemma
  <2> QED BY <2>1, ClustersLemma DEF c
<1>7. CASE t # 0 /\ fat[t] \in Clusters
  <2>1. c = fat[t]
    BY <1>4, <1>7, ClustersLemma
  <2> QED BY <1>7, <2>1 DEF c
<1>8. CASE t # 0 /\ fat[t] = EOC /\ fat[next] = 0
  <2>1. c = next
    BY <1>4, <1>8, ClustersLemma
  <2> QED BY <1>2, <1>8, <2>1 DEF c
<1>9. CASE (t = 0 \/ fat[t] = EOC) /\ ~(t # 0 /\ fat[t] = EOC /\ fat[next] = 0)
  <2>1. c = found
    BY <1>4, <1>9, ClustersLemma
  <2> QED BY <1>5, <1>9, <2>1, ClustersLemma DEF c
<1> QED BY <1>1, <1>6, <1>7, <1>8, <1>9

-----------------------------------------------------------------------------
(* Types.                                                                    *)

Entries == {Absent} \union {e \in [size : Nat, first : Links] : e.size > 0 => e.first # 0}
Dirs == [Files -> Entries]
Sectors == [of : Files \union {"none"}, n : Nat]
Volumes == [dir : Dirs, fat : Fats, data : [Clusters -> Sectors]]

Writing == {"seek", "fill", "line", "create", "flush", "close", "entry"}

WorldOK ==
    /\ card \in Cards \union {NoCard} /\ from \in Cards \union {NoCard}
    /\ disk \in [Cards -> Volumes]

Fils == [size : Nat, first : Links, clust : Links, sect : Links, buf : Nat,
         dirty : BOOLEAN, modified : BOOLEAN, err : BOOLEAN]

FsOK ==
    /\ fs \in [type : BOOLEAN, id : BOOLEAN, last : Links, win : {"none", "dir", "fat"},
               img : {0} \union Dirs \union Fats, wflag : BOOLEAN]
    /\ fs.win = "none" => ~fs.wflag
    /\ fs.win = "dir" => fs.img \in Dirs
    /\ fs.win = "fat" => fs.img \in Fats

FilOK == fil \in Fils

\* Only a command on a file has a name, and only with a volume it goes on. A
\* file that is not empty has a cluster, and so does what is to be freed.
CallOK ==
    /\ op \in {"none", "mount", "ls", "append", "input", "rm"}
    /\ pc \in {"prompt", "volume", "lookup", "chain", "sync"} \union Writing
    /\ pc \in Writing \/ (pc \in {"volume", "lookup"} /\ op \in {"append", "input", "rm"})
         => name \in Files
    /\ pc \notin {"prompt", "volume"} \/ fs.type \/ fs.win # "none" => from \in Cards
    /\ (pc \in Writing /\ fil.size > 0) \/ pc \in {"flush", "chain"} => fil.first # 0
    /\ pc = "fill" => fil.clust # 0

Types == WorldOK /\ FsOK /\ FilOK /\ CallOK

\* The fixed values have their types.
LEMMA ConstantsLemma ==
    /\ NoFile \in Fils
    /\ Unmounted \in [type : BOOLEAN, id : BOOLEAN, last : Links, win : {"none", "dir", "fat"},
                      img : {0} \union Dirs \union Fats, wflag : BOOLEAN]
    /\ Absent \in Entries /\ New \in Entries
    /\ Blank \in Volumes
    /\ NoCard \notin Cards
<1>1. 0 \in Links /\ 0 \in Nat /\ 0 \in Cells
  BY DEF Links, Cells
<1>2. Absent \in Entries /\ New \in Entries
  BY <1>1 DEF Entries, New
<1>3. Blank.dir \in Dirs /\ Blank.fat \in Fats /\ Blank.data \in [Clusters -> Sectors]
  BY <1>1, <1>2 DEF Blank, Dirs, Fats, Sectors
<1>4. Blank = [dir |-> Blank.dir, fat |-> Blank.fat, data |-> Blank.data]
  BY DEF Blank
<1>5. Blank \in Volumes
  <2> HIDE DEF Blank
  <2> QED BY <1>3, <1>4 DEF Volumes
<1> QED BY <1>1, <1>2, <1>5, ShellAssumption DEF Fils, NoFile, Unmounted

\* The types hold at the start.
LEMMA InitTypes == Init => Types
<1> SUFFICES ASSUME Init PROVE Types
  OBVIOUS
<1> USE ConstantsLemma
<1>1. WorldOK
  BY DEF Init, WorldOK
<1>2. FsOK
  BY DEF Init, FsOK, Unmounted
<1>3. FilOK
  BY DEF Init, FilOK
<1>4. CallOK
  BY DEF Init, CallOK, Writing, Unmounted
<1> QED BY <1>1, <1>2, <1>3, <1>4 DEF Types

\* What an access writes has its type.
LEMMA PutLemma ==
    ASSUME WorldOK, card # NoCard, NEW part \in {"dir", "fat", "data"}, NEW new,
           \/ part = "dir" /\ new \in Dirs
           \/ part = "fat" /\ new \in Fats
           \/ part = "data" /\ new \in [Clusters -> Sectors],
           disk' = [disk EXCEPT ![card][part] = new]
    PROVE  /\ card \in Cards /\ disk' \in [Cards -> Volumes]
           /\ \A c \in Cards : c # card => disk'[c] = disk[c]
           /\ disk'[card].dir = IF part = "dir" THEN new ELSE disk[card].dir
           /\ disk'[card].fat = IF part = "fat" THEN new ELSE disk[card].fat
           /\ disk'[card].data = IF part = "data" THEN new ELSE disk[card].data
<1>1. card \in Cards /\ disk[card] \in Volumes
  BY DEF WorldOK
<1>2. disk' = [disk EXCEPT ![card] = [disk[card] EXCEPT ![part] = new]]
  OBVIOUS
<1>3. disk[card] = [dir |-> disk[card].dir, fat |-> disk[card].fat, data |-> disk[card].data]
  BY <1>1 DEF Volumes
<1>4. /\ disk[card].dir \in Dirs /\ disk[card].fat \in Fats
      /\ disk[card].data \in [Clusters -> Sectors]
  BY <1>1 DEF Volumes
<1> DEFINE v == [disk[card] EXCEPT ![part] = new]
<1>5. /\ v.dir = IF part = "dir" THEN new ELSE disk[card].dir
      /\ v.fat = IF part = "fat" THEN new ELSE disk[card].fat
      /\ v.data = IF part = "data" THEN new ELSE disk[card].data
      /\ v = [dir |-> v.dir, fat |-> v.fat, data |-> v.data]
  <2>1. CASE part = "dir"
    BY <1>3, <2>1
  <2>2. CASE part = "fat"
    BY <1>3, <2>2
  <2>3. CASE part = "data"
    BY <1>3, <2>3
  <2> QED BY <2>1, <2>2, <2>3
<1> HIDE DEF v
<1>6. v \in Volumes
  BY <1>4, <1>5 DEF Volumes
<1>7. disk' = [disk EXCEPT ![card] = v]
  BY <1>2 DEF v
<1>8. disk' \in [Cards -> Volumes]
  BY <1>6, <1>7 DEF WorldOK
<1>9. disk'[card] = v /\ \A c \in Cards : c # card => disk'[c] = disk[c]
  BY <1>1, <1>7 DEF WorldOK
<1> QED BY <1>1, <1>5, <1>8, <1>9

\* A file with one more line has its type.
LEMMA BufferedLemma ==
    ASSUME NEW f \in Fils, NEW at \in Nat
    PROVE  Buffered(f, at) \in Fils /\ Buffered(f, at).first = f.first
<1> DEFINE a == [f EXCEPT !.buf = at]
           b == [a EXCEPT !.dirty = TRUE]
           c == [b EXCEPT !.modified = TRUE]
           d == [c EXCEPT !.size = @ + 1]
<1>1. a \in Fils /\ a.size = f.size /\ a.first = f.first
  BY DEF Fils
<1>2. b \in Fils /\ b.size = f.size /\ b.first = f.first
  <2> HIDE DEF a
  <2> QED BY <1>1 DEF Fils
<1>3. c \in Fils /\ c.size = f.size /\ c.first = f.first
  <2> HIDE DEF b
  <2> QED BY <1>2 DEF Fils
<1>4. d \in Fils /\ d.first = f.first
  <2> HIDE DEF c
  <2> QED BY <1>3 DEF Fils
<1>5. Buffered(f, at) = d
  BY DEF Buffered
<1> QED BY <1>4, <1>5

\* The data with the buffer in them have their type.
LEMMA DataLemma ==
    ASSUME WorldOK, FilOK, CallOK, pc \in {"flush", "close"}, card # NoCard
    PROVE  [disk[card].data EXCEPT ![fil.sect] = [of |-> name, n |-> fil.buf]]
               \in [Clusters -> Sectors]
<1>1. disk[card].data \in [Clusters -> Sectors]
  BY DEF WorldOK, Volumes
<1>2. [of |-> name, n |-> fil.buf] \in Sectors
  BY DEF Fils, FilOK, CallOK, Sectors, Writing
<1> QED BY <1>1, <1>2

\* The types hold after every step.
LEMMA TypesLemma == Types /\ [Next]_vars => Types'
<1> SUFFICES ASSUME Types, [Next]_vars PROVE Types'
  OBVIOUS
<1> USE ConstantsLemma
<1>a. WorldOK /\ FsOK /\ FilOK /\ CallOK
  BY DEF Types
<1>b. \A n \in Nat : n % PerSector # 0 => n > 0
  BY ClustersLemma
<1>c. fs.win = "dir" => fs.img \in [Files -> Entries]
  BY <1>a DEF FsOK, Dirs
<1>d. ASSUME fs.win = "dir", name \in Files, fs.img[name] # Absent
      PROVE  /\ fs.img[name] \in [size : Nat, first : Links]
             /\ fs.img[name].size > 0 => fs.img[name].first # 0
  BY <1>c, <1>d DEF Entries
<1>1. CASE Remove
  <2>1. WorldOK'
    BY <1>a, <1>1 DEF WorldOK, Remove, call
  <2>2. FsOK'
    BY <1>a, <1>1 DEF FsOK, Unmounted, Remove, call
  <2>3. FilOK'
    BY <1>a, <1>1 DEF Fils, FilOK, Remove, call
  <2>4. CallOK'
    BY <1>a, <1>1 DEF CallOK, Fils, FilOK, Writing, Unmounted, Remove, call
  <2> QED BY <2>1, <2>2, <2>3, <2>4 DEF Types
<1>2. CASE \E c \in Cards : Insert(c)
  <2>1. WorldOK'
    BY <1>a, <1>2 DEF WorldOK, Insert, call
  <2>2. FsOK'
    BY <1>a, <1>2 DEF FsOK, Unmounted, Insert, call
  <2>3. FilOK'
    BY <1>a, <1>2 DEF Fils, FilOK, Insert, call
  <2>4. CallOK'
    BY <1>a, <1>2 DEF CallOK, Fils, FilOK, Writing, Unmounted, Insert, call
  <2> QED BY <2>1, <2>2, <2>3, <2>4 DEF Types
<1>3. CASE Reset
  <2>1. WorldOK'
    BY <1>a, <1>3 DEF WorldOK, Reset, Return
  <2>2. FsOK'
    BY <1>a, <1>3 DEF FsOK, Unmounted, Reset, Return
  <2>3. FilOK'
    BY <1>a, <1>3 DEF Fils, FilOK, Reset, Return
  <2>4. CallOK'
    BY <1>a, <1>3 DEF CallOK, Fils, FilOK, Writing, Unmounted, Reset, Return
  <2> QED BY <2>1, <2>2, <2>3, <2>4 DEF Types
<1>4. CASE mount
  <2>1. WorldOK'
    BY <1>a, <1>4 DEF WorldOK, mount
  <2>2. FsOK'
    BY <1>a, <1>4 DEF FsOK, Unmounted, mount
  <2>3. FilOK'
    BY <1>a, <1>4 DEF Fils, FilOK, mount
  <2>4. CallOK'
    BY <1>a, <1>4 DEF CallOK, Fils, FilOK, Writing, Unmounted, mount
  <2> QED BY <2>1, <2>2, <2>3, <2>4 DEF Types
<1>5. CASE unmount
  <2>1. WorldOK'
    BY <1>a, <1>5 DEF WorldOK, unmount, call
  <2>2. FsOK'
    BY <1>a, <1>5 DEF FsOK, Unmounted, unmount, call
  <2>3. FilOK'
    BY <1>a, <1>5 DEF Fils, FilOK, unmount, call
  <2>4. CallOK'
    BY <1>a, <1>5 DEF CallOK, Fils, FilOK, Writing, Unmounted, unmount, call
  <2> QED BY <2>1, <2>2, <2>3, <2>4 DEF Types
<1>6. CASE \E o \in {"ls", "append", "input", "rm"}, f \in Files \union {"none"} :
               (o = "ls" \/ f \in Files) /\ Command(o, f)
  <2>1. WorldOK'
    BY <1>a, <1>6 DEF WorldOK, Command
  <2>2. FsOK'
    BY <1>a, <1>6 DEF FsOK, Unmounted, Command
  <2>3. FilOK'
    BY <1>a, <1>6 DEF Fils, FilOK, Command
  <2>4. CallOK'
    BY <1>a, <1>6 DEF CallOK, Fils, FilOK, Writing, Unmounted, Command
  <2> QED BY <2>1, <2>2, <2>3, <2>4 DEF Types
<1>7. CASE StillMounted
  <2>1. WorldOK'
    BY <1>a, <1>7 DEF WorldOK, StillMounted, AfterVolume, Return, Goto, call
  <2>2. FsOK'
    BY <1>a, <1>7 DEF FsOK, Unmounted, StillMounted, AfterVolume, Return, Goto, call
  <2>3. FilOK'
    BY <1>a, <1>7 DEF Fils, FilOK, StillMounted, AfterVolume, Return, Goto, call
  <2>4. CallOK'
    BY <1>a, <1>7 DEF CallOK, Fils, FilOK, Writing, Unmounted, StillMounted, AfterVolume, Return,
           Goto, call
  <2> QED BY <2>1, <2>2, <2>3, <2>4 DEF Types
<1>8. CASE MountVolume
  <2>a. \/ /\ card \in Cards /\ from' \in Cards /\ fil' \in {fil, NoFile}
           /\ pc' = "prompt" \/ (pc' = "lookup" /\ name' = name /\ op' = op)
           /\ op' \in {op, "none"}
        \/ pc' = "prompt" /\ from' = from /\ op' = "none" /\ fs'.type = FALSE /\ fs'.win = fs.win
    BY <1>a, <1>8 DEF MountVolume, Works, WorldOK, FsOK, AfterVolume, Return, Goto
  <2>b. pc = "volume"
    BY <1>8 DEF MountVolume
  <2>1. WorldOK'
    BY <1>a, <1>8 DEF WorldOK, MountVolume, AfterVolume, Return, Goto, call
  <2>2. FsOK'
    BY <1>a, <1>8 DEF FsOK, Unmounted, MountVolume, AfterVolume, Return, Goto, call
  <2>3. FilOK'
    BY <1>a, <1>8 DEF Fils, FilOK, MountVolume, AfterVolume, Return, Goto, call
  <2>4. CallOK'
    <3>1. /\ op' \in {"none", "mount", "ls", "append", "input", "rm"}
          /\ pc' \in {"prompt", "lookup"}
      BY <1>a, <2>a, <2>b DEF CallOK
    <3>2. pc' = "lookup" /\ op' \in {"append", "input", "rm"} => name' \in Files
      BY <1>a, <2>a, <2>b DEF CallOK
    <3>3. pc' = "lookup" \/ fs'.type \/ fs'.win # "none" => from' \in Cards
      <4>1. fs.win # "none" => from \in Cards
        BY <1>a DEF CallOK
      <4>2. CASE from' \in Cards
        BY <4>2
      <4>3. CASE pc' = "prompt" /\ from' = from /\ fs'.type = FALSE /\ fs'.win = fs.win
        BY <4>1, <4>3, Zenon
      <4> QED BY <2>a, <4>2, <4>3
    <3> QED BY <3>1, <3>2, <3>3 DEF CallOK, Writing
  <2> QED BY <2>1, <2>2, <2>3, <2>4 DEF Types
<1>9. CASE LookUp_Nothing
  <2>1. WorldOK'
    BY <1>a, <1>9 DEF WorldOK, LookUp_Nothing, At, Return
  <2>2. FsOK'
    BY <1>a, <1>9 DEF FsOK, Unmounted, LookUp_Nothing, At, Return
  <2>3. FilOK'
    BY <1>a, <1>9 DEF Fils, FilOK, LookUp_Nothing, At, Return
  <2>4. CallOK'
    BY <1>a, <1>9 DEF CallOK, Fils, FilOK, Writing, Unmounted, LookUp_Nothing, At, Return
  <2> QED BY <2>1, <2>2, <2>3, <2>4 DEF Types
<1>10. CASE TypeDot
  <2>1. WorldOK'
    BY <1>a, <1>10 DEF WorldOK, TypeDot, Goto
  <2>2. FsOK'
    BY <1>a, <1>10 DEF FsOK, Unmounted, TypeDot, Goto
  <2>3. FilOK'
    BY <1>a, <1>10 DEF Fils, FilOK, TypeDot, Goto
  <2>4. CallOK'
    BY <1>a, <1>10 DEF CallOK, Fils, FilOK, Writing, Unmounted, TypeDot, Goto
  <2> QED BY <2>1, <2>2, <2>3, <2>4 DEF Types
<1>11. CASE OpenAppend
  <2>a. fs.win = "dir" /\ name \in Files /\ fs.img[name] # Absent
    BY <1>a, <1>11 DEF OpenAppend, At, Wanted, CallOK
  <2> DEFINE e == fs.img[name]
             f == Opened(e, FALSE)
  <2>b. e \in [size : Nat, first : Links] /\ (e.size > 0 => e.first # 0)
    BY <1>d, <2>a
  <2>c. /\ f \in Fils
        /\ f.size = e.size /\ f.first = e.first /\ f.clust = e.first
    BY <2>b DEF Fils, Opened, NoFile
  <2>d. /\ fil' = f /\ pc' \in {"seek", "fill", "line"} /\ UNCHANGED <<op, name, want, trouble>>
        /\ pc' = "fill" => f.size % PerSector # 0
    BY <1>11 DEF OpenAppend, AfterSeek, Goto
  <2> HIDE DEF f, e
  <2>1. WorldOK'
    BY <1>a, <1>11 DEF WorldOK, OpenAppend, At, Wanted, Goto, AfterSeek, Opened
  <2>2. FsOK'
    BY <1>a, <1>11 DEF FsOK, Unmounted, OpenAppend, At, Wanted, Goto, AfterSeek, Opened
  <2>3. FilOK'
    BY <1>a, <1>11, <2>c, <2>d DEF Fils, FilOK, OpenAppend, At, Wanted, Goto, AfterSeek, Opened
  <2>4. CallOK'
    BY <1>a, <1>11, <1>b, <2>b, <2>c, <2>d DEF CallOK, Fils, FilOK, Writing, Unmounted,
           OpenAppend, At, Wanted, Goto, AfterSeek, Opened
  <2> QED BY <2>1, <2>2, <2>3, <2>4 DEF Types
<1>12. CASE Seek
  <2> DEFINE c == Nth(fs.img, fil.first, Needed(fil.size) - 1)
  <2>a. c \in Links
    <3>1. fs.img \in Fats /\ fil.first \in Cells /\ fil.size \in Nat
      BY <1>a, <1>12 DEF Seek, At, Wanted, FsOK, Fils, FilOK, Cells
    <3>2. Nth(fs.img, fil.first, Needed(fil.size) - 1) \in Links
      BY DEF Nth, Links
    <3> QED BY <3>2
  <2>b. \/ Return(TRUE)
        \/ /\ c # 0 /\ fil' = [fil EXCEPT !.clust = c] /\ pc' \in {"fill", "line"}
           /\ UNCHANGED <<op, name, want, trouble>>
    BY <1>12 DEF Seek, AfterSeek, Goto
  <2>e. pc \in Writing
    BY <1>12 DEF Seek, At, Writing
  <2> HIDE DEF c
  <2>1. WorldOK'
    BY <1>a, <1>12 DEF WorldOK, Seek, At, Wanted, Goto, AfterSeek, Return
  <2>2. FsOK'
    BY <1>a, <1>12 DEF FsOK, Unmounted, Seek, At, Wanted, Goto, AfterSeek, Return
  <2>3. FilOK'
    BY <1>a, <2>a, <2>b DEF Fils, FilOK, Return
  <2>4. CallOK'
    BY <1>a, <1>12, <2>a, <2>b, <2>e DEF CallOK, Fils, FilOK, Writing, Unmounted, Seek, At,
           Wanted, Goto, AfterSeek, Return
  <2> QED BY <2>1, <2>2, <2>3, <2>4 DEF Types
<1>13. CASE Fill
  <2>a. \/ Return(TRUE)
        \/ /\ card # NoCard /\ pc' = "line" /\ UNCHANGED <<op, name>>
           /\ fil' = [fil EXCEPT !.sect = fil.clust, !.buf = disk[card].data[fil.clust].n]
    BY <1>13 DEF Fill, Goto, Works
  <2>b. fil.clust \in Clusters
    BY <1>a, <1>13 DEF Fill, CallOK, Fils, FilOK, Links
  <2>c. card # NoCard => disk[card].data[fil.clust].n \in Nat
    <3>1. card # NoCard => disk[card].data \in [Clusters -> Sectors]
      BY <1>a DEF WorldOK, Volumes
    <3> QED BY <2>b, <3>1 DEF Sectors
  <2>e. pc \in Writing
    BY <1>13 DEF Fill, Writing
  <2>1. WorldOK'
    BY <1>a, <1>13 DEF WorldOK, Fill, Goto, Return, Works, Fails
  <2>2. FsOK'
    BY <1>a, <1>13 DEF FsOK, Unmounted, Fill, Goto, Return, Works, Fails
  <2>3. FilOK'
    BY <1>a, <2>a, <2>c DEF Fils, FilOK, Return
  <2>4. CallOK'
    BY <1>a, <1>13, <2>a, <2>e DEF CallOK, Fils, FilOK, Writing, Unmounted, Fill, Goto, Return,
           Works, Fails
  <2> QED BY <2>1, <2>2, <2>3, <2>4 DEF Types
<1>14. CASE TypeLine
  <2>a. /\ pc' \in {"line", "create"}
        /\ fil' = fil \/ (fil' = Buffered(fil, fil.buf + 1) /\ fil.size % PerSector # 0)
    BY <1>14 DEF TypeLine
  <2>f. Buffered(fil, fil.buf + 1) \in Fils
    <3>1. fil \in Fils /\ fil.buf + 1 \in Nat
      BY <1>a DEF FilOK, Fils
    <3> QED BY <3>1, BufferedLemma
  <2>e. pc \in Writing /\ pc' \in Writing
    BY <1>14, <2>a DEF TypeLine, Writing
  <2>1. WorldOK'
    BY <1>a, <1>14 DEF WorldOK, TypeLine, Buffered
  <2>2. FsOK'
    BY <1>a, <1>14 DEF FsOK, Unmounted, TypeLine, Buffered
  <2>3. FilOK'
    BY <1>a, <2>a, <2>f DEF FilOK
  <2>4. CallOK'
    BY <1>a, <1>14, <1>b, <2>a, <2>e DEF CallOK, Fils, FilOK, Writing, Unmounted, TypeLine,
           Buffered
  <2> QED BY <2>1, <2>2, <2>3, <2>4 DEF Types
<1>15. CASE SyncWindow
  <2>a. fs.win \in {"dir", "fat"}
    BY <1>a, <1>15 DEF SyncWindow, FsOK
  <2>b. disk' = disk \/ (card # NoCard /\ disk' = [disk EXCEPT ![card][fs.win] = fs.img])
    BY <1>15 DEF SyncWindow, Put, Works
  <2>c. disk' \in [Cards -> Volumes]
    BY <1>a, <2>a, <2>b, PutLemma DEF WorldOK, FsOK
  <2>d. /\ from' = from /\ fs'.type = fs.type /\ fs'.win = fs.win
        /\ (op' = op /\ name' = name) \/ (op' = "none" /\ pc' = "prompt")
    BY <1>a, <1>15 DEF SyncWindow, FsOK, call, Abort, NextLine, Return
  <2>e. \/ pc' = pc /\ fil' = fil
        \/ pc' = "line" /\ pc \in {"create", "flush"} /\ fil' = [fil EXCEPT !.err = TRUE]
        \/ pc' = "prompt"
    BY <1>15 DEF SyncWindow, call, Abort, NextLine, Return
  <2>f. \/ pc' = pc /\ fil' = fil
        \/ pc' = "line" /\ pc \in Writing /\ fil'.first = fil.first /\ fil'.size = fil.size
        \/ pc' = "prompt"
    BY <1>a, <2>e DEF Fils, FilOK, Writing
  <2>1. WorldOK'
    BY <1>a, <1>15, <2>c DEF WorldOK, SyncWindow, Abort, NextLine, Return, call, Fails
  <2>2. FsOK'
    BY <1>a, <1>15 DEF FsOK, Unmounted, SyncWindow, Abort, NextLine, Return, call, Fails
  <2>3. FilOK'
    BY <1>a, <1>15 DEF Fils, FilOK, SyncWindow, Abort, NextLine, Return, call, Fails
  <2>4. CallOK'
    BY <1>a, <2>a, <2>d, <2>f DEF CallOK, Writing
  <2> QED BY <2>1, <2>2, <2>3, <2>4 DEF Types
<1>16. CASE LoadWindow
  <2>a. /\ Wanted \in {"dir", "fat"} /\ from \in Cards
        /\ Wanted = "dir" => pc \in {"lookup", "entry"}
    BY <1>a, <1>16 DEF LoadWindow, Wanted, CallOK
  <2>b. \/ /\ card # NoCard /\ fs' = [fs EXCEPT !.win = Wanted, !.img = disk[card][Wanted]]
        \/ fs' = [fs EXCEPT !.win = "none", !.img = 0]
    BY <1>16 DEF LoadWindow, Works
  <2>c. card # NoCard => /\ Wanted = "dir" => disk[card][Wanted] \in Dirs
                         /\ Wanted = "fat" => disk[card][Wanted] \in Fats
    BY <1>a DEF WorldOK, Volumes
  <2>d. ~fs.wflag
    BY <1>16 DEF LoadWindow
  <2>e. /\ from' = from /\ fs'.type = fs.type
        /\ (op' = op /\ name' = name) \/ (op' = "none" /\ pc' = "prompt")
    BY <1>a, <1>16 DEF LoadWindow, FsOK, call, Abort, NextLine, Return
  <2>f. \/ pc' = pc /\ fil' = fil
        \/ pc' = "line" /\ pc \in {"create", "flush"} /\ fil' = [fil EXCEPT !.err = TRUE]
        \/ pc' = "prompt"
    BY <1>16 DEF LoadWindow, call, Abort, NextLine, Return
  <2>g. \/ pc' = pc /\ fil' = fil
        \/ pc' = "line" /\ pc \in Writing /\ fil'.first = fil.first /\ fil'.size = fil.size
        \/ pc' = "prompt"
    BY <1>a, <2>f DEF Fils, FilOK, Writing
  <2>1. WorldOK'
    BY <1>a, <1>16 DEF WorldOK, LoadWindow, Abort, NextLine, Return, call, Fails, Works
  <2>2. FsOK'
    BY <1>a, <1>16, <2>a, <2>b, <2>c, <2>d DEF FsOK, Unmounted, LoadWindow, Abort, NextLine,
           Return, call, Fails, Works
  <2>h. \/ fil' = fil \/ fil' = NoFile
        \/ fil' = [fil EXCEPT !.err = TRUE]
    BY <1>16 DEF LoadWindow, Abort, NextLine, Return
  <2>3. FilOK'
    BY <1>a, <2>h DEF Fils, FilOK, NoFile
  <2>4. CallOK'
    BY <1>a, <2>a, <2>e, <2>g DEF CallOK, Writing
  <2> QED BY <2>1, <2>2, <2>3, <2>4 DEF Types
<1>17. CASE SyncFs
  <2>b. \/ disk' = disk
        \/ /\ card # NoCard /\ fs.win \in {"dir", "fat"}
           /\ disk' = [disk EXCEPT ![card][fs.win] = fs.img]
    BY <1>a, <1>17 DEF SyncFs, Put, Works, FsOK
  <2>c. disk' \in [Cards -> Volumes]
    BY <1>a, <2>b, PutLemma DEF WorldOK, FsOK
  <2>1. WorldOK'
    BY <1>a, <1>17, <2>c DEF WorldOK, SyncFs, Return, Fails
  <2>2. FsOK'
    BY <1>a, <1>17 DEF FsOK, Unmounted, SyncFs, Return, Fails
  <2>3. FilOK'
    BY <1>a, <1>17 DEF Fils, FilOK, SyncFs, Return, Fails
  <2>4. CallOK'
    BY <1>a, <1>17 DEF CallOK, Fils, FilOK, Writing, Unmounted, SyncFs, Return, Fails
  <2> QED BY <2>1, <2>2, <2>3, <2>4 DEF Types
<1>18. CASE OpenNew
  <2>a. fs.win = "dir"
    BY <1>18 DEF OpenNew, At, Wanted
  <2>b. [fs.img EXCEPT ![name] = New] \in Dirs
    BY <1>c, <2>a DEF Dirs
  <2>1. WorldOK'
    BY <1>a, <1>18 DEF WorldOK, OpenNew, At, Wanted, Dirtied, Goto, Opened, NoFile, New
  <2>2. FsOK'
    BY <1>a, <1>18, <2>a, <2>b DEF FsOK, Unmounted, OpenNew, At, Wanted, Dirtied, Goto, Opened,
           NoFile, New
  <2>3. FilOK'
    BY <1>a, <1>18 DEF Fils, FilOK, OpenNew, At, Wanted, Dirtied, Goto, Opened, NoFile, New
  <2>4. CallOK'
    BY <1>a, <1>18 DEF CallOK, Fils, FilOK, Writing, Unmounted, OpenNew, At, Wanted, Dirtied,
           Goto, Opened, NoFile, New
  <2> QED BY <2>1, <2>2, <2>3, <2>4 DEF Types
<1>19. CASE RemoveEntry
  <2>a. fs.win = "dir" /\ name \in Files /\ fs.img[name] # Absent
    BY <1>a, <1>19 DEF RemoveEntry, At, Wanted, CallOK
  <2>b. [fs.img EXCEPT ![name] = Absent] \in Dirs
    BY <1>c, <2>a DEF Dirs
  <2>c. fs.img[name].first \in Links
    BY <1>d, <2>a
  <2>1. WorldOK'
    BY <1>a, <1>19 DEF WorldOK, RemoveEntry, At, Wanted, Dirtied, Goto, NoFile
  <2>2. FsOK'
    BY <1>a, <1>19, <2>a, <2>b DEF FsOK, Unmounted, RemoveEntry, At, Wanted, Dirtied, Goto, NoFile
  <2>3. FilOK'
    BY <1>a, <1>19, <2>c DEF Fils, FilOK, RemoveEntry, At, Wanted, Dirtied, Goto, NoFile
  <2>4. CallOK'
    BY <1>a, <1>19, <2>c DEF CallOK, Fils, FilOK, Writing, Unmounted, RemoveEntry, At, Wanted,
           Dirtied, Goto, NoFile
  <2> QED BY <2>1, <2>2, <2>3, <2>4 DEF Types
<1>20. CASE RemoveChain
  <2>a. fs.win = "fat" /\ fs.img \in Fats
    BY <1>a, <1>20 DEF RemoveChain, At, Wanted, FsOK
  <2>b. [k \in Clusters |-> IF k \in ChainOf(fs.img, fil.first) THEN 0 ELSE fs.img[k]] \in Fats
    BY <2>a DEF Fats, Cells, Links
  <2>1. WorldOK'
    BY <1>a, <1>20 DEF WorldOK, RemoveChain, At, Wanted, Dirtied, Goto
  <2>2. FsOK'
    BY <1>a, <1>20, <2>a, <2>b DEF FsOK, Unmounted, RemoveChain, At, Wanted, Dirtied, Goto
  <2>3. FilOK'
    BY <1>a, <1>20 DEF Fils, FilOK, RemoveChain, At, Wanted, Dirtied, Goto
  <2>4. CallOK'
    BY <1>a, <1>20 DEF CallOK, Fils, FilOK, Writing, Unmounted, RemoveChain, At, Wanted, Dirtied,
           Goto
  <2> QED BY <2>1, <2>2, <2>3, <2>4 DEF Types
<1>21. CASE CreateChain
  <2> DEFINE tail == IF fil.size = 0 THEN 0 ELSE fil.clust
             c == Grown(fs.img, tail)
             new == Linked(fs.img, tail, c)
  <2>a. fs.win = "fat" /\ fs.img \in Fats /\ pc = "create" /\ name \in Files
    BY <1>a, <1>21 DEF CreateChain, At, Wanted, FsOK, CallOK, Writing
  <2>b. tail \in Links
    BY <1>a, ClustersLemma DEF Fils, FilOK, Links
  <2>c. c \in {0, 1} \union Clusters
    BY <2>a, <2>b, GrownLemma
  <2>d. c \in Clusters => new \in Fats
    BY <2>a DEF Linked, Fats, Cells, Links
  <2>e. \/ /\ fs' = fs /\ pc' = "line" /\ fil'.size = fil.size /\ fil'.first = fil.first
           /\ fil' \in {[fil EXCEPT !.err = TRUE], [fil EXCEPT !.modified = TRUE]}
        \/ /\ c \in Clusters /\ pc' = "flush"
           /\ fil' = [fil EXCEPT !.clust = c, !.first = IF @ = 0 THEN c ELSE @]
           /\ fs' = fs \/ fs' = [fs EXCEPT !.img = new, !.wflag = TRUE, !.last = c]
    <3>1. c < 2 => c \notin Clusters
      BY DEF Clusters
    <3>2. CreateChain
      BY <1>21
    <3>3. fil = [size |-> fil.size, first |-> fil.first, clust |-> fil.clust, sect |-> fil.sect,
                 buf |-> fil.buf, dirty |-> fil.dirty, modified |-> fil.modified, err |-> fil.err]
      BY <1>a DEF Fils, FilOK
    <3>4. c > 1 => c \in Clusters
      BY <2>c
    <3>5. \/ /\ fs' = fs /\ pc' = "line"
             /\ fil' \in {[fil EXCEPT !.err = TRUE], [fil EXCEPT !.modified = TRUE]}
          \/ /\ c \in Clusters /\ pc' = "flush"
             /\ fil' = [fil EXCEPT !.clust = c, !.first = IF @ = 0 THEN c ELSE @]
             /\ fs' = fs \/ fs' = [fs EXCEPT !.img = new, !.wflag = TRUE, !.last = c]
      BY <2>a, <3>2, <3>4 DEF CreateChain, Abort, NextLine, Goto
    <3> HIDE DEF c, new
    <3> QED BY <3>3, <3>5
  <2>f. UNCHANGED <<op, name, card, disk, reg, from>>
    BY <2>a, <1>21 DEF CreateChain, Abort, NextLine, Goto
  <2> HIDE DEF c, new, tail
  <2>1. WorldOK'
    BY <1>a, <2>f DEF WorldOK
  <2>2. FsOK'
    BY <1>a, <2>a, <2>d, <2>e DEF FsOK, Links
  <2>3. FilOK'
    BY <1>a, <2>e DEF Fils, FilOK, Links
  <2>4. CallOK'
    <3>1. /\ fs'.win = fs.win /\ fs.win # "none" /\ pc' \in {"line", "flush"} /\ from \in Cards
      BY <1>a, <2>a, <2>e DEF CallOK, FsOK
    <3>2. fil'.first = fil.first \/ (fil'.first = c /\ c # 0)
      BY <1>a, <2>e, ClustersLemma DEF Fils, FilOK
    <3>3. fil'.size = fil.size
      BY <1>a, <2>e DEF Fils, FilOK
    <3>5. pc' = "flush" => fil'.first # 0
      <4>1. fil = [size |-> fil.size, first |-> fil.first, clust |-> fil.clust, sect |-> fil.sect,
                   buf |-> fil.buf, dirty |-> fil.dirty, modified |-> fil.modified, err |-> fil.err]
        BY <1>a DEF Fils, FilOK
      <4>2. pc' = "flush" => c # 0 /\ fil'.first = IF fil.first = 0 THEN c ELSE fil.first
        BY <2>e, <4>1, ClustersLemma
      <4> QED BY <4>2
    <3>4. pc \in Writing /\ pc' \in Writing /\ pc' # "fill" /\ pc' # "chain"
      BY <2>a, <3>1 DEF Writing
    <3> QED BY <1>a, <2>a, <2>f, <3>1, <3>2, <3>3, <3>4, <3>5 DEF CallOK
  <2> QED BY <2>1, <2>2, <2>3, <2>4 DEF Types
<1>22. CASE Flush
  <2>b. \/ disk' = disk
        \/ /\ card # NoCard
           /\ \E new \in [Clusters -> Sectors] : disk' = [disk EXCEPT ![card]["data"] = new]
    BY <1>a, <1>22, DataLemma DEF Flush, WriteBuffer, Put, Works
  <2>c. disk' \in [Cards -> Volumes]
    BY <1>a, <2>b, PutLemma DEF WorldOK
  <2>d. pc' = "line" /\ pc = "flush" /\ pc \in Writing /\ UNCHANGED <<op, name, card, from, fs>>
    BY <1>22 DEF Flush, NextLine, Abort, Writing
  <2>e. fil' = [fil EXCEPT !.err = TRUE] \/ fil' = Buffered([fil EXCEPT !.sect = fil.clust], 1)
    BY <1>22 DEF Flush, NextLine, Abort
  <2>1. WorldOK'
    BY <1>a, <2>c, <2>d DEF WorldOK
  <2>2. FsOK'
    BY <1>a, <2>d DEF FsOK
  <2> DEFINE g == [fil EXCEPT !.sect = fil.clust]
  <2>g. /\ g \in Fils
        /\ g.first = fil.first
    BY <1>a DEF Fils, FilOK
  <2>h. [fil EXCEPT !.err = TRUE] \in Fils /\ [fil EXCEPT !.err = TRUE].first = fil.first
    BY <1>a DEF Fils, FilOK
  <2>j. Buffered(g, 1) \in Fils /\ Buffered(g, 1).first = g.first
    BY <2>g, BufferedLemma
  <2>i. fil' = [fil EXCEPT !.err = TRUE] \/ fil' = Buffered(g, 1)
    BY <2>e
  <2> HIDE DEF g
  <2>3. FilOK'
    BY <2>h, <2>i, <2>j DEF FilOK
  <2>4. CallOK'
    <3>1. fil'.first = fil.first
      BY <2>g, <2>h, <2>i, <2>j
    <3> QED BY <1>a, <2>d, <3>1 DEF CallOK, Writing
  <2> QED BY <2>1, <2>2, <2>3, <2>4 DEF Types
<1>23. CASE Close
  <2>b. \/ disk' = disk
        \/ /\ card # NoCard
           /\ \E new \in [Clusters -> Sectors] : disk' = [disk EXCEPT ![card]["data"] = new]
    BY <1>a, <1>23, DataLemma DEF Close, WriteBuffer, Put, Works
  <2>c. disk' \in [Cards -> Volumes]
    BY <1>a, <2>b, PutLemma DEF WorldOK
  <2>d. pc \in Writing
    BY <1>23 DEF Close, Writing
  <2>1. WorldOK'
    BY <1>a, <1>23, <2>c DEF WorldOK, Close, Return, Goto
  <2>2. FsOK'
    BY <1>a, <1>23 DEF FsOK, Unmounted, Close, Return, Goto
  <2>3. FilOK'
    BY <1>a, <1>23 DEF Fils, FilOK, Close, Return, Goto
  <2>4. CallOK'
    BY <1>a, <1>23, <2>d DEF CallOK, Fils, FilOK, Writing, Unmounted, Close, Return, Goto
  <2> QED BY <2>1, <2>2, <2>3, <2>4 DEF Types
<1>24. CASE WriteEntry
  <2>a. fs.win = "dir" /\ pc \in Writing
    BY <1>24 DEF WriteEntry, At, Wanted, Writing
  <2>b. [size |-> fil.size, first |-> fil.first] \in Entries
    BY <1>a, <2>a DEF Fils, FilOK, CallOK, Entries
  <2>c. [fs.img EXCEPT ![name] = [size |-> fil.size, first |-> fil.first]] \in Dirs
    BY <1>c, <2>a, <2>b DEF Dirs
  <2>1. WorldOK'
    BY <1>a, <1>24 DEF WorldOK, WriteEntry, At, Wanted, Dirtied, Goto
  <2>2. FsOK'
    BY <1>a, <1>24, <2>a, <2>c DEF FsOK, Unmounted, WriteEntry, At, Wanted, Dirtied, Goto
  <2>3. FilOK'
    BY <1>a, <1>24 DEF Fils, FilOK, WriteEntry, At, Wanted, Dirtied, Goto
  <2>4. CallOK'
    BY <1>a, <1>24 DEF CallOK, Fils, FilOK, Writing, Unmounted, WriteEntry, At, Wanted, Dirtied,
           Goto
  <2> QED BY <2>1, <2>2, <2>3, <2>4 DEF Types
<1>25. CASE UNCHANGED vars
  <2>1. WorldOK' /\ FsOK' /\ FilOK' /\ CallOK'
    BY <1>a, <1>25 DEF vars, call, WorldOK, FsOK, Fils, FilOK, CallOK
  <2> QED BY <2>1 DEF Types
<1> QED BY <1>1, <1>2, <1>3, <1>4, <1>5, <1>6, <1>7, <1>8, <1>9, <1>10, <1>11,
           <1>12, <1>13, <1>14, <1>15, <1>16, <1>17, <1>18, <1>19, <1>20, <1>21, <1>22, <1>23,
           <1>24, <1>25 DEF Next

-----------------------------------------------------------------------------
(* What the volumes hold, and what the window and the open file add to it.   *)

\* The chains of two files begin at different clusters, which no other precedes.
DirOK(dir, fat) ==
    \A f \in Files : dir[f].first # 0 =>
        Begins(fat, dir[f].first) /\ \A g \in Files : dir[g].first = dir[f].first => g = f

VolOK(dir, fat) == FatOK(fat) /\ DirOK(dir, fat)

\* The mounted volume is its card's, with the sector in the window.
TheDir == IF fs.win = "dir" THEN fs.img ELSE disk[from].dir
TheFat == IF fs.win = "fat" THEN fs.img ELSE disk[from].fat

DisksOK == \A c \in Cards : VolOK(disk[c].dir, disk[c].fat)

MountedOK == from \in Cards => VolOK(TheDir, TheFat)

CleanOK ==
    from \in Cards /\ fs.wflag = FALSE =>
        /\ fs.win = "dir" => fs.img = disk[from].dir
        /\ fs.win = "fat" => fs.img = disk[from].fat

\* The chain that begins at x is of none but the files of S.
Own(dir, fat, x, S) ==
    x # 0 => Begins(fat, x) /\ \A g \in Files : dir[g].first = x => g \in S

\* The chain of the open file is of that file only, or in no file yet; the one
\* that f_unlink is about to free is in no file any more.
TaskOK ==
    /\ pc \in Writing => Own(TheDir, TheFat, fil.first, {name})
    /\ pc = "chain" => Own(TheDir, TheFat, fil.first, {})

Sound == DisksOK /\ MountedOK /\ CleanOK /\ TaskOK

IInv == Types /\ crossed \in BOOLEAN /\ (crossed = FALSE => Sound)

\* The tables of the cards and the window stay as they are.
Kept ==
    /\ from' = from /\ fs'.win = fs.win /\ fs'.img = fs.img
    /\ fs'.wflag = fs.wflag
    /\ \A c \in Cards : disk'[c].dir = disk[c].dir /\ disk'[c].fat = disk[c].fat

\* The command goes on with the file it has, or has none any more.
Goes ==
    \/ pc' \notin Writing \union {"chain"}
    \/ pc \in Writing /\ pc' \in Writing /\ name' = name /\ fil'.first = fil.first
    \/ pc = "chain" /\ pc' = "chain" /\ fil' = fil

\* The chain of the command stays its own.
LEMMA GoesLemma ==
    ASSUME TaskOK, Goes, TheDir' = TheDir, TheFat' = TheFat
    PROVE  TaskOK'
BY DEF TaskOK, Goes, Writing

\* A step that leaves the tables alone keeps the volumes sound.
LEMMA KeptLemma ==
    ASSUME Types, Sound, Kept, Goes
    PROVE  Sound'
<1>1. from \in Cards => TheDir' = TheDir /\ TheFat' = TheFat
  BY DEF Kept, TheDir, TheFat
<1>2. DisksOK'
  BY DEF Sound, DisksOK, Kept
<1>3. MountedOK'
  BY <1>1 DEF Sound, MountedOK, Kept
<1>4. CleanOK'
  BY DEF Sound, CleanOK, Kept
<1>5. pc \in Writing \/ pc = "chain" => from \in Cards
  BY DEF Types, CallOK, Writing
<1>6. TaskOK'
  <2>1. CASE pc' \notin Writing \union {"chain"}
    BY <2>1 DEF TaskOK
  <2>2. CASE from \in Cards
    BY <1>1, <2>2, GoesLemma DEF Sound
  <2> QED BY <1>5, <2>1, <2>2 DEF Goes
<1> QED BY <1>2, <1>3, <1>4, <1>6 DEF Sound

\* The write of the window.
LEMMA WriteLemma ==
    ASSUME Types, Sound, Goes, fs.win # "none", card = from,
           Put(fs.win, fs.img), fs' = [fs EXCEPT !.wflag = FALSE], from' = from
    PROVE  Sound'
<1>1. /\ fs.win \in {"dir", "fat"} /\ WorldOK
      /\ fs'.win = fs.win /\ fs'.img = fs.img
      /\ fs.win = "dir" => fs.img \in Dirs
      /\ fs.win = "fat" => fs.img \in Fats
  BY DEF Types, FsOK
<1>2. /\ from \in Cards
      /\ \A c \in Cards : c # from => disk'[c] = disk[c]
      /\ disk'[from].dir = TheDir /\ disk'[from].fat = TheFat
  <2>1. card # NoCard /\ disk' = [disk EXCEPT ![card][fs.win] = fs.img]
    BY DEF Put, Works
  <2> DEFINE part == fs.win
             new == fs.img
  <2>2. /\ part \in {"dir", "fat", "data"}
        /\ \/ part = "dir" /\ new \in Dirs
           \/ part = "fat" /\ new \in Fats
           \/ part = "data" /\ new \in [Clusters -> Sectors]
        /\ disk' = [disk EXCEPT ![card][part] = new]
    BY <1>1, <2>1
  <2> HIDE DEF part, new
  <2>3. /\ card \in Cards
        /\ \A c \in Cards : c # card => disk'[c] = disk[c]
        /\ disk'[card].dir = IF part = "dir" THEN new ELSE disk[card].dir
        /\ disk'[card].fat = IF part = "fat" THEN new ELSE disk[card].fat
    BY <1>1, <2>1, <2>2, PutLemma
  <2> QED BY <2>3 DEF TheDir, TheFat, part, new
<1>3. TheDir' = TheDir /\ TheFat' = TheFat
  BY <1>1, <1>2 DEF TheDir, TheFat
<1>4. VolOK(TheDir, TheFat)
  BY <1>2 DEF Sound, MountedOK
<1>5. DisksOK'
  BY <1>2, <1>4 DEF Sound, DisksOK
<1>6. MountedOK'
  BY <1>3, <1>4 DEF MountedOK
<1>7. CleanOK'
  BY <1>1, <1>2, <1>3 DEF CleanOK, TheDir, TheFat
<1>8. TaskOK'
  BY <1>3, GoesLemma DEF Sound
<1> QED BY <1>5, <1>6, <1>7, <1>8 DEF Sound

\* The read of a sector into the window, or the window emptied, both when it
\* has nothing that is not on the card.
LEMMA ReadLemma ==
    ASSUME Types, Sound, Goes, fs.wflag = FALSE, from' = from, disk' = disk,
           fs'.wflag = FALSE,
           \/ fs'.win = "dir" /\ fs'.img = disk[from].dir
           \/ fs'.win = "fat" /\ fs'.img = disk[from].fat
           \/ fs'.win = "none"
    PROVE  Sound'
<1>1. from \in Cards => TheDir = disk[from].dir /\ TheFat = disk[from].fat
  BY DEF Sound, CleanOK, TheDir, TheFat
<1>2. TheDir' = disk[from].dir /\ TheFat' = disk[from].fat
  BY DEF TheDir, TheFat
<1>3. DisksOK'
  BY DEF Sound, DisksOK
<1>4. MountedOK'
  BY <1>2, <1>3 DEF MountedOK, DisksOK
<1>5. CleanOK'
  BY DEF CleanOK
<1>6. pc \in Writing \/ pc = "chain" => from \in Cards
  BY DEF Types, CallOK, Writing
<1>7. TaskOK'
  <2>1. CASE pc' \notin Writing \union {"chain"}
    BY <2>1 DEF TaskOK
  <2>2. CASE from \in Cards
    BY <1>1, <1>2, <2>2, GoesLemma DEF Sound
  <2> QED BY <1>6, <2>1, <2>2 DEF Goes
<1> QED BY <1>3, <1>4, <1>5, <1>7 DEF Sound

\* A step that changes the sector in the window only.
LEMMA DirtyLemma ==
    ASSUME Types, Sound, disk' = disk, from' = from, fs'.win = fs.win, fs'.wflag = TRUE,
           VolOK(TheDir', TheFat'), TaskOK'
    PROVE  Sound'
BY DEF Sound, DisksOK, MountedOK, CleanOK

\* An access to another card is never forgotten.
LEMMA TouchedLemma ==
    ASSUME crossed \in BOOLEAN, Touched
    PROVE  crossed' \in BOOLEAN /\ (crossed' = FALSE => crossed = FALSE /\ card = from)
<1>1. crossed' = (crossed \/ card # from)
  BY DEF Touched
<1>2. crossed' \in BOOLEAN
  BY <1>1, Zenon
<1>3. CASE crossed = TRUE
  BY <1>1, <1>3, Zenon
<1>4. CASE card # from
  BY <1>1, <1>4, Zenon
<1>5. CASE crossed = FALSE /\ card = from
  BY <1>2, <1>5
<1> QED BY <1>2, <1>3, <1>4, <1>5

\* No step forgets that cards were mixed up.
LEMMA CrossedLemma ==
    ASSUME crossed \in BOOLEAN, [Next]_vars
    PROVE  crossed' = crossed \/ Touched
<1>1. CASE SyncWindow
  BY <1>1 DEF SyncWindow, Put
<1>2. CASE LoadWindow
  BY <1>2 DEF LoadWindow
<1>3. CASE SyncFs
  BY <1>3 DEF SyncFs, Put
<1>4. CASE Fill
  BY <1>4 DEF Fill
<1>5. CASE Flush
  BY <1>5 DEF Flush, WriteBuffer, Put
<1>6. CASE Close
  BY <1>6 DEF Close, WriteBuffer, Put
<1>7. CASE Remove \/ (\E c \in Cards : Insert(c)) \/ Reset \/ mount \/ unmount
           \/ StillMounted \/ MountVolume
  BY <1>7 DEF Remove, Insert, Reset, mount, unmount, StillMounted, MountVolume
<1>8. CASE \E o, f : Command(o, f)
  BY <1>8 DEF Command
<1>9. CASE LookUp_Nothing \/ OpenNew \/ OpenAppend \/ Seek \/ RemoveEntry \/ RemoveChain
  BY <1>9 DEF LookUp_Nothing, OpenNew, OpenAppend, Seek, RemoveEntry, RemoveChain
<1>10. CASE TypeLine \/ TypeDot \/ CreateChain \/ WriteEntry
  BY <1>10 DEF TypeLine, TypeDot, CreateChain, WriteEntry
<1>11. CASE UNCHANGED vars
  BY <1>11 DEF vars
<1> QED BY <1>1, <1>2, <1>3, <1>4, <1>5, <1>6, <1>7, <1>8, <1>9, <1>10, <1>11 DEF Next

\* The data of a card are not its tables.
LEMMA DataKept ==
    ASSUME Types, pc \in {"flush", "close"}, UNCHANGED <<fs, from>>,
           UNCHANGED disk \/ WriteBuffer
    PROVE  Kept
<1>1. CASE UNCHANGED disk
  BY <1>1 DEF Kept
<1>2. CASE WriteBuffer
  <2> DEFINE part == "data"
             new == [disk[card].data EXCEPT ![fil.sect] = [of |-> name, n |-> fil.buf]]
  <2>1. card # NoCard /\ disk' = [disk EXCEPT ![card][part] = new]
    BY <1>2 DEF WriteBuffer, Put, Works
  <2>2. new \in [Clusters -> Sectors] /\ part = "data" /\ WorldOK
    BY <2>1, DataLemma DEF Types
  <2> HIDE DEF part, new
  <2>3. /\ card \in Cards
        /\ \A c \in Cards : c # card => disk'[c] = disk[c]
        /\ disk'[card].dir = IF part = "dir" THEN new ELSE disk[card].dir
        /\ disk'[card].fat = IF part = "fat" THEN new ELSE disk[card].fat
    BY <2>1, <2>2, PutLemma
  <2> QED BY <2>2, <2>3 DEF Kept
<1> QED BY <1>1, <1>2

\* The volumes stay sound with every step that touches no other card.
LEMMA SoundLemma ==
    ASSUME IInv, [Next]_vars, crossed' = FALSE
    PROVE  Sound'
<1>0. Types /\ Sound /\ (Touched => card = from) /\ Types'
  BY CrossedLemma, TouchedLemma, TypesLemma DEF IInv
<1>t. WorldOK /\ FsOK /\ FilOK /\ CallOK
  BY <1>0 DEF Types
<1>1. CASE Remove \/ (\E c \in Cards : Insert(c))
  <2>1. Kept /\ UNCHANGED call /\ UNCHANGED fil
    BY <1>1 DEF Remove, Insert, Kept
  <2>2. Goes
    BY <1>t, <2>1 DEF call, Goes, CallOK
  <2> QED BY <1>0, <2>1, <2>2, KeptLemma
<1>2. CASE Reset
  <2>1. /\ fs'.wflag = FALSE /\ fs'.win = "none" /\ from' = NoCard /\ disk' = disk
        /\ pc' = "prompt"
    BY <1>2 DEF Reset, Unmounted, Return
  <2>2. DisksOK' /\ MountedOK' /\ CleanOK'
    BY <1>0, <2>1, ConstantsLemma DEF Sound, DisksOK, MountedOK, CleanOK
  <2>3. TaskOK'
    BY <2>1 DEF TaskOK, Writing
  <2> QED BY <2>2, <2>3 DEF Sound
<1>3. CASE mount \/ unmount
  <2>1. Kept
    BY <1>t, <1>3 DEF mount, unmount, Kept, FsOK
  <2>2. Goes
    BY <1>3 DEF mount, unmount, Goes, call, Writing
  <2> QED BY <1>0, <2>1, <2>2, KeptLemma
<1>4. CASE \E o, f : Command(o, f)
  <2>1. Kept /\ Goes
    BY <1>4 DEF Command, Kept, Goes, Writing
  <2> QED BY <1>0, <2>1, KeptLemma
<1>5. CASE StillMounted
  <2>1. Kept /\ Goes
    BY <1>5 DEF StillMounted, AfterVolume, Return, Goto, Kept, Goes, Writing
  <2> QED BY <1>0, <2>1, KeptLemma
<1>6. CASE MountVolume
  <2>1. pc' \in {"prompt", "lookup"}
    BY <1>6 DEF MountVolume, AfterVolume, Return, Goto
  <2>2. Goes
    BY <2>1 DEF Goes, Writing
  <2>3. CASE fs' = [fs EXCEPT !.type = FALSE] /\ UNCHANGED <<from, disk>>
    <3>1. Kept
      BY <1>t, <2>3 DEF Kept, FsOK
    <3> QED BY <1>0, <2>2, <3>1, KeptLemma
  <2>4. CASE fs' = [Unmounted EXCEPT !.type = TRUE, !.id = TRUE] /\ UNCHANGED disk
    <3>1. fs'.win = "none"
      BY <2>4 DEF Unmounted
    <3>2. DisksOK' /\ MountedOK' /\ CleanOK'
      BY <1>0, <2>4, <3>1 DEF Sound, DisksOK, MountedOK, CleanOK, TheDir, TheFat
    <3>3. TaskOK'
      BY <2>1 DEF TaskOK, Writing
    <3> QED BY <3>2, <3>3 DEF Sound
  <2> QED BY <1>6, <2>3, <2>4 DEF MountVolume
<1>7. CASE SyncWindow \/ SyncFs
  <2>1. Goes
    <3>1. \/ pc' = pc /\ fil' = fil /\ name' = name
          \/ pc' = "line" /\ pc \in {"create", "flush"} /\ name' = name
             /\ fil' = [fil EXCEPT !.err = TRUE]
          \/ pc' = "prompt"
      BY <1>7 DEF SyncWindow, SyncFs, call, Abort, NextLine, Return
    <3> QED BY <1>t, <3>1 DEF Goes, FilOK, Fils, CallOK, Writing
  <2>2. CASE Put(fs.win, fs.img)
    <3>1. fs.wflag => fs.win # "none"
      BY <1>t DEF FsOK
    <3>2. /\ fs.win # "none" /\ card = from /\ from' = from
          /\ fs' = [fs EXCEPT !.wflag = FALSE]
      BY <1>0, <1>7, <2>2, <3>1 DEF SyncWindow, SyncFs, Put, Works, Fails
    <3> QED BY <1>0, <2>1, <2>2, <3>2, WriteLemma
  <2>3. CASE UNCHANGED <<disk, fs, from>>
    <3>1. Kept
      BY <2>3 DEF Kept
    <3> QED BY <1>0, <2>1, <3>1, KeptLemma
  <2> QED BY <1>7, <2>2, <2>3 DEF SyncWindow, SyncFs
<1>8. CASE LoadWindow
  <2>1. Goes
    <3>1. \/ pc' = pc /\ fil' = fil /\ name' = name
          \/ pc' = "line" /\ pc \in {"create", "flush"} /\ name' = name
             /\ fil' = [fil EXCEPT !.err = TRUE]
          \/ pc' = "prompt"
      BY <1>8 DEF LoadWindow, call, Abort, NextLine, Return
    <3> QED BY <1>t, <3>1 DEF Goes, FilOK, Fils, CallOK, Writing
  <2>2. Wanted \in {"dir", "fat"} /\ disk' = disk /\ from' = from
    BY <1>8 DEF LoadWindow, Wanted
  <2>3. fs.wflag = FALSE
    BY <1>t, <1>8 DEF LoadWindow, FsOK
  <2>4. \/ fs' = [fs EXCEPT !.win = Wanted, !.img = disk[from][Wanted]]
        \/ fs' = [fs EXCEPT !.win = "none", !.img = 0]
    BY <1>0, <1>8 DEF LoadWindow
  <2>5. /\ fs'.wflag = FALSE
        /\ \/ fs'.win = "dir" /\ fs'.img = disk[from].dir
           \/ fs'.win = "fat" /\ fs'.img = disk[from].fat
           \/ fs'.win = "none"
    BY <1>t, <2>2, <2>3, <2>4 DEF FsOK
  <2> QED BY <1>0, <2>1, <2>2, <2>3, <2>5, ReadLemma
<1>9. CASE LookUp_Nothing
  <2>1. Kept /\ Goes
    BY <1>9 DEF LookUp_Nothing, Return, Kept, Goes, Writing
  <2> QED BY <1>0, <2>1, KeptLemma
<1>10. CASE OpenAppend
  <2>1. Kept
    BY <1>10 DEF OpenAppend, Kept
  <2>2. /\ fs.win = "dir" /\ name \in Files /\ name' = name /\ pc' \in Writing
        /\ fs.img[name] # Absent /\ fil' = Opened(fs.img[name], FALSE)
    BY <1>t, <1>10 DEF OpenAppend, At, Wanted, CallOK, AfterSeek, Goto, Writing
  <2>3. fil'.first = fs.img[name].first
    BY <2>2 DEF Opened, NoFile
  <2>4. VolOK(TheDir, TheFat) /\ TheDir = fs.img
    BY <1>0, <1>t, <1>10, <2>2 DEF Sound, MountedOK, TheDir, OpenAppend, At, CallOK
  <2>5. Own(TheDir, TheFat, fil'.first, {name})
    BY <2>2, <2>3, <2>4 DEF VolOK, DirOK, Own
  <2>6. TheDir' = TheDir /\ TheFat' = TheFat
    BY <1>10, <2>2 DEF OpenAppend, TheDir, TheFat
  <2>7. DisksOK' /\ MountedOK' /\ CleanOK'
    BY <1>0, <1>10, <2>6 DEF OpenAppend, Sound, DisksOK, MountedOK, CleanOK
  <2>8. TaskOK'
    BY <2>2, <2>5, <2>6 DEF TaskOK, Writing
  <2> QED BY <2>7, <2>8 DEF Sound
<1>11. CASE Seek
  <2>1. Kept
    BY <1>11 DEF Seek, Kept
  <2>2. \/ pc' = "prompt"
        \/ /\ pc' \in {"fill", "line"} /\ name' = name
           /\ \E c : fil' = [fil EXCEPT !.clust = c]
    BY <1>11 DEF Seek, AfterSeek, Goto, Return
  <2>3. Goes
    BY <1>t, <1>11, <2>2 DEF Seek, At, Goes, FilOK, Fils, Writing
  <2> QED BY <1>0, <2>1, <2>3, KeptLemma
<1>12. CASE Fill
  <2>1. Kept
    BY <1>12 DEF Fill, Kept
  <2>2. \/ pc' = "prompt"
        \/ /\ pc' = "line" /\ name' = name
           /\ \E b : fil' = [fil EXCEPT !.sect = fil.clust, !.buf = b]
    BY <1>12 DEF Fill, Goto, Return
  <2>3. Goes
    BY <1>t, <1>12, <2>2 DEF Fill, Goes, FilOK, Fils, Writing
  <2> QED BY <1>0, <2>1, <2>3, KeptLemma
<1>13. CASE OpenNew
  <2>1. /\ fs.win = "dir" /\ name \in Files /\ fs.img \in Dirs /\ from \in Cards
        /\ fs'.win = "dir" /\ fs'.img = [fs.img EXCEPT ![name] = New] /\ fs'.wflag = TRUE
        /\ disk' = disk /\ from' = from /\ name' = name
        /\ pc' = "line" /\ fil' = Opened(New, TRUE)
    BY <1>t, <1>13 DEF OpenNew, At, Wanted, CallOK, FsOK, Dirtied, Goto, Fils
  <2>2. TheDir = fs.img /\ TheDir' = [fs.img EXCEPT ![name] = New] /\ TheFat' = TheFat
    BY <2>1 DEF TheDir, TheFat
  <2>3. VolOK(TheDir, TheFat)
    BY <1>0, <2>1 DEF Sound, MountedOK
  <2>4. \A f \in Files : TheDir'[f] = IF f = name THEN New ELSE TheDir[f]
    BY <2>1, <2>2 DEF Dirs
  <2>5. New.first = 0 /\ fil'.first = 0
    BY <2>1 DEF New, Opened, NoFile
  <2>6. VolOK(TheDir', TheFat')
    BY <2>2, <2>3, <2>4, <2>5 DEF VolOK, DirOK
  <2>7. TaskOK'
    BY <2>1, <2>5 DEF TaskOK, Own
  <2> QED BY <1>0, <2>1, <2>6, <2>7, DirtyLemma
<1>14. CASE RemoveEntry
  <2> DEFINE x == fs.img[name].first
  <2>1. /\ fs.win = "dir" /\ name \in Files /\ fs.img \in Dirs /\ from \in Cards
        /\ fs'.win = "dir" /\ fs'.img = [fs.img EXCEPT ![name] = Absent] /\ fs'.wflag = TRUE
        /\ disk' = disk /\ from' = from
        /\ pc' \in {"chain", "sync"} /\ (pc' = "chain" => x # 0)
        /\ fil' = [NoFile EXCEPT !.first = x]
    BY <1>t, <1>14 DEF RemoveEntry, At, Wanted, CallOK, FsOK, Dirtied, Goto
  <2>2. TheDir = fs.img /\ TheDir' = [fs.img EXCEPT ![name] = Absent] /\ TheFat' = TheFat
    BY <2>1 DEF TheDir, TheFat
  <2>3. VolOK(TheDir, TheFat)
    BY <1>0, <2>1 DEF Sound, MountedOK
  <2>4. \A f \in Files : TheDir'[f] = IF f = name THEN Absent ELSE TheDir[f]
    BY <2>1, <2>2 DEF Dirs
  <2>5. Absent.first = 0 /\ fil'.first = x
    BY <2>1 DEF NoFile, Absent
  <2>6. VolOK(TheDir', TheFat')
    BY <2>2, <2>3, <2>4, <2>5 DEF VolOK, DirOK
  <2>7. Own(TheDir', TheFat', x, {})
    <3>1. x # 0 => Begins(TheFat, x)
      BY <2>1, <2>2, <2>3 DEF VolOK, DirOK
    <3>2. \A g \in Files : x # 0 => TheDir'[g].first # x
      BY <2>1, <2>2, <2>3, <2>4, <2>5 DEF VolOK, DirOK
    <3> QED BY <2>2, <3>1, <3>2 DEF Own
  <2>8. TaskOK'
    BY <2>1, <2>5, <2>7 DEF TaskOK, Writing
  <2> QED BY <1>0, <2>1, <2>6, <2>8, DirtyLemma
<1>15. CASE RemoveChain
  <2> DEFINE new == [k \in Clusters |-> IF k \in ChainOf(fs.img, fil.first) THEN 0 ELSE fs.img[k]]
  <2>1. /\ fs.win = "fat" /\ fs.img \in Fats /\ from \in Cards /\ fil.first # 0
        /\ fs'.win = "fat" /\ fs'.img = new /\ fs'.wflag = TRUE
        /\ disk' = disk /\ from' = from /\ pc = "chain" /\ pc' = "sync"
    BY <1>t, <1>15 DEF RemoveChain, At, Wanted, CallOK, FsOK, Dirtied, Goto
  <2> HIDE DEF new
  <2>2. TheFat = fs.img /\ TheFat' = new /\ TheDir' = TheDir
    BY <2>1 DEF TheDir, TheFat
  <2>3. VolOK(TheDir, TheFat) /\ Own(TheDir, TheFat, fil.first, {})
    BY <1>0, <2>1 DEF Sound, MountedOK, TaskOK
  <2>4. FatOK(TheFat) /\ Begins(TheFat, fil.first) /\ \A g \in Files : TheDir[g].first # fil.first
    BY <2>1, <2>3 DEF VolOK, Own
  <2>5. FatOK(new) /\ \A y : Begins(TheFat, y) /\ y # fil.first => Begins(new, y)
    BY <2>1, <2>2, <2>4, FreeLemma DEF new
  <2>6. VolOK(TheDir', TheFat')
    BY <2>2, <2>3, <2>4, <2>5 DEF VolOK, DirOK
  <2>7. TaskOK'
    BY <2>1 DEF TaskOK, Writing
  <2> QED BY <1>0, <2>1, <2>6, <2>7, DirtyLemma
<1>16. CASE TypeLine \/ TypeDot
  <2>1. Kept
    BY <1>16 DEF TypeLine, TypeDot, Kept
  <2>2. /\ pc = "line" /\ pc' \in Writing /\ name' = name
        /\ fil' = fil \/ fil' = Buffered(fil, fil.buf + 1)
    BY <1>16 DEF TypeLine, TypeDot, Goto, Writing
  <2>3. fil \in Fils /\ fil.buf + 1 \in Nat
    BY <1>t DEF FilOK, Fils
  <2>4. fil'.first = fil.first
    BY <2>2, <2>3, BufferedLemma
  <2>5. Goes
    BY <2>2, <2>4 DEF Goes, Writing
  <2> QED BY <1>0, <2>1, <2>5, KeptLemma
<1>17. CASE Flush
  <2>1. Kept
    BY <1>0, <1>17, DataKept DEF Flush
  <2>2. /\ pc = "flush" /\ pc' = "line" /\ name' = name
        /\ \/ fil' = [fil EXCEPT !.err = TRUE]
           \/ fil' = Buffered([fil EXCEPT !.sect = fil.clust], 1)
    BY <1>17 DEF Flush, NextLine, Abort
  <2> DEFINE g == [fil EXCEPT !.sect = fil.clust]
  <2>3. g \in Fils /\ g.first = fil.first /\ [fil EXCEPT !.err = TRUE].first = fil.first
    BY <1>t DEF FilOK, Fils
  <2> HIDE DEF g
  <2>4. Buffered(g, 1).first = g.first
    BY <2>3, BufferedLemma
  <2>5. fil'.first = fil.first
    BY <2>2, <2>3, <2>4 DEF g
  <2>6. Goes
    BY <2>2, <2>5 DEF Goes, Writing
  <2> QED BY <1>0, <2>1, <2>6, KeptLemma
<1>18. CASE Close
  <2>1. Kept
    BY <1>0, <1>18, DataKept DEF Close
  <2>2. Goes
    BY <1>18 DEF Close, Goes, Goto, Return, Writing
  <2> QED BY <1>0, <2>1, <2>2, KeptLemma
<1>19. CASE WriteEntry
  <2> DEFINE e == [size |-> fil.size, first |-> fil.first]
  <2>1. /\ fs.win = "dir" /\ name \in Files /\ fs.img \in Dirs /\ from \in Cards
        /\ fs'.win = "dir" /\ fs'.img = [fs.img EXCEPT ![name] = e] /\ fs'.wflag = TRUE
        /\ disk' = disk /\ from' = from
        /\ pc \in Writing /\ pc' = "sync"
    BY <1>t, <1>19 DEF WriteEntry, At, Wanted, CallOK, FsOK, Dirtied, Goto, Writing
  <2>2. TheDir = fs.img /\ TheDir' = [fs.img EXCEPT ![name] = e] /\ TheFat' = TheFat
    BY <2>1 DEF TheDir, TheFat
  <2>3. VolOK(TheDir, TheFat) /\ Own(TheDir, TheFat, fil.first, {name})
    BY <1>0, <2>1 DEF Sound, MountedOK, TaskOK
  <2>4. \A f \in Files : TheDir'[f] = IF f = name THEN e ELSE TheDir[f]
    BY <2>1, <2>2 DEF Dirs
  <2>5. e.first = fil.first
    OBVIOUS
  <2> HIDE DEF e
  <2>6. VolOK(TheDir', TheFat')
    <3>1. FatOK(TheFat')
      BY <2>2, <2>3 DEF VolOK
    <3>2. ASSUME NEW f \in Files, TheDir'[f].first # 0
          PROVE  Begins(TheFat', TheDir'[f].first)
      BY <2>2, <2>3, <2>4, <2>5, <3>2 DEF VolOK, DirOK, Own
    <3>3. ASSUME NEW f \in Files, TheDir'[f].first # 0,
                 NEW g \in Files, TheDir'[g].first = TheDir'[f].first
          PROVE  g = f
      BY <2>3, <2>4, <2>5, <3>3 DEF VolOK, DirOK, Own
    <3> QED BY <3>1, <3>2, <3>3 DEF VolOK, DirOK
  <2>7. TaskOK'
    BY <2>1 DEF TaskOK, Writing
  <2> QED BY <1>0, <2>1, <2>6, <2>7, DirtyLemma
<1>20. CASE UNCHANGED vars
  <2>1. Kept /\ UNCHANGED <<pc, fil, name>>
    BY <1>20 DEF vars, call, Kept
  <2>2. Goes
    BY <1>t, <2>1 DEF Goes, CallOK
  <2> QED BY <1>0, <2>1, <2>2, KeptLemma
<1>21. CASE CreateChain
  <2> DEFINE tail == IF fil.size = 0 THEN 0 ELSE fil.clust
             c == Grown(fs.img, tail)
             new == Linked(fs.img, tail, c)
  <2>1. /\ fs.win = "fat" /\ fs.img \in Fats /\ from \in Cards /\ pc = "create" /\ pc \in Writing
        /\ disk' = disk /\ from' = from
    BY <1>t, <1>21 DEF CreateChain, At, Wanted, CallOK, FsOK, Writing
  <2>2. TheFat = fs.img /\ VolOK(TheDir, TheFat) /\ Own(TheDir, TheFat, fil.first, {name})
    BY <1>0, <2>1 DEF Sound, MountedOK, TaskOK, TheFat
  <2>3. tail \in Links /\ (fil.size > 0 => fil.first # 0) /\ (tail # 0 => fil.size > 0)
    BY <1>t, <2>1 DEF FilOK, Fils, Links, CallOK
  <2>4. /\ c \in {0, 1} \union Clusters
        /\ c \in Clusters => \/ tail # 0 /\ fs.img[tail] = c
                             \/ fs.img[c] = 0 /\ (tail = 0 \/ fs.img[tail] = EOC)
    BY <2>1, <2>3, GrownLemma
  <2>5. \/ /\ UNCHANGED fs /\ pc' = "line" /\ name' = name
           /\ fil' \in {[fil EXCEPT !.err = TRUE], [fil EXCEPT !.modified = TRUE]}
        \/ /\ c \in Clusters /\ pc' = "flush" /\ name' = name
           /\ fil' = [fil EXCEPT !.clust = c, !.first = IF @ = 0 THEN c ELSE @]
           /\ \/ c \in ChainOf(fs.img, tail) /\ UNCHANGED fs
              \/ /\ c \notin ChainOf(fs.img, tail)
                 /\ fs' = [fs EXCEPT !.img = new, !.wflag = TRUE, !.last = c]
    <3>1. c > 1 => c \in Clusters
      BY <2>4
    <3> HIDE DEF new
    <3> QED BY <1>21, <2>1, <3>1 DEF CreateChain, Abort, NextLine, Goto, new
  <2>6. fil = [size |-> fil.size, first |-> fil.first, clust |-> fil.clust, sect |-> fil.sect,
               buf |-> fil.buf, dirty |-> fil.dirty, modified |-> fil.modified, err |-> fil.err]
    BY <1>t DEF FilOK, Fils
  <2> HIDE DEF c, new
  <2>7. CASE UNCHANGED fs /\ pc' = "line" /\ name' = name
             /\ fil' \in {[fil EXCEPT !.err = TRUE], [fil EXCEPT !.modified = TRUE]}
    <3>1. Kept
      BY <2>1, <2>7 DEF Kept
    <3>2. Goes
      BY <2>1, <2>6, <2>7 DEF Goes, Writing
    <3> QED BY <1>0, <3>1, <3>2, KeptLemma
  <2>8. CASE /\ c \in Clusters /\ pc' = "flush" /\ name' = name
             /\ fil' = [fil EXCEPT !.clust = c, !.first = IF @ = 0 THEN c ELSE @]
    <3>1. fil'.first = IF fil.first = 0 THEN c ELSE fil.first
      BY <2>6, <2>8
    <3>2. CASE c \in ChainOf(fs.img, tail) /\ UNCHANGED fs
      <4>1. tail # 0
        BY <3>2, EmptyLemma, <2>1
      <4>2. Kept
        BY <2>1, <3>2 DEF Kept
      <4>3. Goes
        BY <2>1, <2>3, <2>8, <3>1, <4>1 DEF Goes, Writing
      <4> QED BY <1>0, <4>2, <4>3, KeptLemma
    <3>3. CASE /\ c \notin ChainOf(fs.img, tail)
               /\ fs' = [fs EXCEPT !.img = new, !.wflag = TRUE, !.last = c]
      <4>1. tail # 0 => tail \in Clusters
        BY <2>3 DEF Links
      <4>2. fs.img[c] = 0 /\ (tail = 0 \/ fs.img[tail] = EOC)
        BY <2>1, <2>4, <2>8, <3>3, <4>1, ChainLemma
      <4>3. tail = 0 \/ (tail \in Clusters /\ fs.img[tail] = EOC)
        BY <4>1, <4>2
      <4>4. FatOK(fs.img)
        BY <2>2 DEF VolOK
      <4>5. /\ FatOK(new)
            /\ \A y : Begins(TheFat, y) => Begins(new, y) /\ y # c
            /\ tail = 0 => Begins(new, c)
        <5> HIDE DEF tail
        <5> QED BY <2>1, <2>2, <2>8, <4>2, <4>3, <4>4, LinkLemma DEF new
      <4>6. TheFat' = new /\ TheDir' = TheDir /\ fs'.win = fs.win /\ fs'.wflag = TRUE
        BY <1>t, <2>1, <3>3 DEF FsOK, TheDir, TheFat
      <4>7. VolOK(TheDir', TheFat')
        BY <2>2, <4>5, <4>6 DEF VolOK, DirOK
      <4>8. Own(TheDir', TheFat', fil'.first, {name})
        <5>1. CASE fil.first # 0
          BY <2>2, <3>1, <4>5, <4>6, <5>1 DEF Own
        <5>2. CASE fil.first = 0
          <6>1. tail = 0 /\ fil'.first = c
            BY <2>3, <3>1, <5>2
          <6>2. \A g \in Files : TheDir[g].first # c
            BY <2>2, <2>8, <4>5, ClustersLemma DEF VolOK, DirOK
          <6> QED BY <4>5, <4>6, <6>1, <6>2 DEF Own
        <5> QED BY <5>1, <5>2
      <4>9. TaskOK'
        BY <2>8, <4>8 DEF TaskOK
      <4> QED BY <1>0, <2>1, <4>6, <4>7, <4>9, DirtyLemma
    <3> QED BY <2>5, <2>8, <3>2, <3>3
  <2> QED BY <2>5, <2>7, <2>8
<1> QED BY <1>1, <1>2, <1>3, <1>4, <1>5, <1>6, <1>7, <1>8, <1>9, <1>10, <1>11, <1>12, <1>13,
           <1>14, <1>15, <1>16, <1>17, <1>18, <1>19, <1>20, <1>21 DEF Next

\* Blank cards are sound.
LEMMA InitSound == Init => IInv
<1> SUFFICES ASSUME Init PROVE IInv
  OBVIOUS
<1>1. Types
  BY InitTypes
<1>2. \A c \in Cards : VolOK(disk[c].dir, disk[c].fat)
  <2> SUFFICES ASSUME NEW c \in Cards PROVE VolOK(Blank.dir, Blank.fat)
    BY DEF Init
  <2>1. \A f \in Files : Blank.dir[f].first = 0
    BY DEF Blank, Absent
  <2>2. \A k \in Clusters : Blank.fat[k] = 0
    BY DEF Blank
  <2> QED BY <2>1, <2>2, ClustersLemma DEF VolOK, FatOK, DirOK
<1>3. MountedOK /\ CleanOK
  BY ConstantsLemma DEF Init, MountedOK, CleanOK
<1>4. TaskOK
  BY DEF Init, TaskOK, Writing
<1>5. crossed \in BOOLEAN
  BY DEF Init
<1> QED BY <1>1, <1>2, <1>3, <1>4, <1>5 DEF IInv, Sound, DisksOK

\* The invariant of the chains is inductive.
LEMMA NextSound == IInv /\ [Next]_vars => IInv'
<1> SUFFICES ASSUME IInv, [Next]_vars PROVE IInv'
  OBVIOUS
<1>1. Types'
  BY TypesLemma DEF IInv
<1>2. crossed' \in BOOLEAN
  BY CrossedLemma, TouchedLemma DEF IInv
<1>3. crossed' = FALSE => Sound'
  BY SoundLemma
<1> QED BY <1>1, <1>2, <1>3 DEF IInv

\* Files whose chains begin at different clusters share none.
LEMMA DisjointLemma ==
    ASSUME NEW dir \in Dirs, NEW fat \in Fats, VolOK(dir, fat),
           NEW f \in Files, NEW g \in Files, f # g
    PROVE  ChainOf(fat, dir[f].first) \intersect ChainOf(fat, dir[g].first) = {}
<1> DEFINE a == dir[f].first
           b == dir[g].first
<1>1. CASE a = 0 \/ b = 0
  BY <1>1, EmptyLemma
<1>2. CASE a # 0 /\ b # 0
  <2>1. FatOK(fat) /\ Begins(fat, a) /\ Begins(fat, b) /\ a # b
    BY <1>2 DEF VolOK, DirOK
  <2> HIDE DEF a, b
  <2>2. \A i \in Nat, j \in Nat : Nth(fat, a, i) = Nth(fat, b, j) => Nth(fat, a, i) = 0
    BY <2>1, ApartLemma
  <2>3. ChainOf(fat, a) \intersect ChainOf(fat, b) = {}
    BY <2>2, ClustersLemma DEF ChainOf
  <2> QED BY <2>3 DEF a, b
<1> QED BY <1>1, <1>2

\* For any files, cards and clusters, and whatever is interrupted: no cluster of
\* a card ever belongs to two of its files (ff.c:1541).
THEOREM ApartTheorem == Spec => []ChainsApart
<1>1. IInv => ChainsApart
  <2> SUFFICES ASSUME IInv, ~crossed, NEW c \in Cards, NEW f \in Files, NEW g \in Files, f # g
               PROVE  ChainOf(disk[c].fat, disk[c].dir[f].first)
                        \intersect ChainOf(disk[c].fat, disk[c].dir[g].first) = {}
    BY DEF ChainsApart
  <2>1. crossed = FALSE
    BY DEF IInv
  <2>2. VolOK(disk[c].dir, disk[c].fat) /\ WorldOK
    BY <2>1 DEF IInv, Sound, DisksOK, Types
  <2>3. disk[c].dir \in Dirs /\ disk[c].fat \in Fats
    BY <2>2 DEF WorldOK, Volumes
  <2> QED BY <2>2, <2>3, DisjointLemma
<1> QED BY <1>1, InitSound, NextSound, PTL DEF Spec

\* From no cluster no cluster follows.
LEMMA EmptyChain ==
    ASSUME NEW fat \in Fats
    PROVE  \A n \in Nat : Nth(fat, 0, n) = 0
<1> DEFINE A(n) == Nth(fat, 0, n)
           Q == {n \in Nat : A(n) = 0}
<1>1. /\ A(0) = 0
      /\ \A n \in Nat : A(n + 1) = IF A(n) \in Clusters /\ fat[A(n)] \in Clusters
                                   THEN fat[A(n)] ELSE 0
  BY NthLemma, ClustersLemma DEF Cells, Links
<1> HIDE DEF A
<1>2. 0 \in Q /\ \A n \in Nat : n \in Q => n + 1 \in Q
  BY <1>1, ClustersLemma
<1>3. Nat \subseteq Q
  <2> HIDE DEF Q
  <2> QED BY <1>2, NatSetInduction
<1>4. \A n \in Nat : A(n) = 0
  BY <1>3
<1> QED BY <1>4 DEF A

-----------------------------------------------------------------------------
(* What the chains hold.                                                     *)

\* What the operators say of the clusters of a chain, without the recursion.
LEMMA StepLemma ==
    ASSUME NEW fat \in Fats, NEW x \in Links
    PROVE  /\ Nth(fat, x, 0) = x
           /\ \A k \in Nat : /\ Nth(fat, x, k) \in Links
                             /\ Nth(fat, x, k + 1) # 0 => /\ Nth(fat, x, k) \in Clusters
                                                          /\ Nth(fat, x, k + 1) = fat[Nth(fat, x, k)]
                                                          /\ Nth(fat, x, k + 1) \in Clusters
                             /\ Nth(fat, x, k) \in Clusters /\ fat[Nth(fat, x, k)] \in Clusters =>
                                  Nth(fat, x, k + 1) = fat[Nth(fat, x, k)]
<1>1. x \in Cells /\ (x \in Clusters \/ x = 0)
  BY DEF Cells, Links
<1> QED BY <1>1, NthLemma, ClustersLemma DEF Links

\* A chain on the card is the beginning of what the window makes of it.
Longer(fat1, fat2, x) == \A k \in Nat : Nth(fat1, x, k) # 0 => Nth(fat2, x, k) = Nth(fat1, x, k)

\* Who keeps the successors of the clusters of a chain only lengthens it.
LEMMA LongerLemma ==
    ASSUME NEW fat \in Fats, NEW new \in Fats, NEW x \in Links,
           \A k \in Nat : LET y == Nth(fat, x, k)
                          IN  y \in Clusters /\ fat[y] \in Clusters => new[y] = fat[y]
    PROVE  Longer(fat, new, x)
<1> DEFINE A(n) == Nth(fat, x, n)
           B(n) == Nth(new, x, n)
           Q == {n \in Nat : A(n) # 0 => B(n) = A(n)}
<1>1. A(0) = x /\ B(0) = x
  BY StepLemma
<1>2. \A n \in Nat : /\ A(n + 1) # 0 => /\ A(n) \in Clusters /\ A(n + 1) = fat[A(n)]
                                       /\ A(n + 1) \in Clusters
                     /\ B(n) \in Clusters /\ new[B(n)] \in Clusters => B(n + 1) = new[B(n)]
  BY StepLemma
<1>3. \A n \in Nat : A(n) \in Clusters /\ fat[A(n)] \in Clusters => new[A(n)] = fat[A(n)]
  OBVIOUS
<1> HIDE DEF A, B
<1>4. 0 \in Q
  BY <1>1
<1>5. ASSUME NEW n \in Nat, n \in Q PROVE n + 1 \in Q
  <2> SUFFICES ASSUME A(n + 1) # 0 PROVE B(n + 1) = A(n + 1)
    OBVIOUS
  <2>1. A(n) \in Clusters /\ A(n + 1) = fat[A(n)] /\ A(n + 1) \in Clusters
    BY <1>2
  <2>2. A(n) = B(n)
    BY <1>5, <2>1, ClustersLemma
  <2> QED BY <1>2, <1>3, <2>1, <2>2
<1>6. Nat \subseteq Q
  <2> HIDE DEF Q
  <2> QED BY <1>4, <1>5, NatSetInduction
<1>7. \A n \in Nat : A(n) # 0 => B(n) = A(n)
  BY <1>6
<1> QED BY <1>7 DEF A, B, Longer

\* create_chain does.
LEMMA LinkKeeps ==
    ASSUME NEW fat \in Fats, NEW c \in Clusters, fat[c] = 0,
           NEW t, t = 0 \/ (t \in Clusters /\ fat[t] = EOC), NEW x \in Links,
           Linked(fat, t, c) \in Fats
    PROVE  Longer(fat, Linked(fat, t, c), x)
<1> DEFINE new == Linked(fat, t, c)
<1>1. \A k \in Clusters : fat[k] \in Clusters => new[k] = fat[k]
  BY ClustersLemma DEF Linked
<1> HIDE DEF new
<1>2. \A k \in Nat : LET y == Nth(fat, x, k)
                     IN  y \in Clusters /\ fat[y] \in Clusters => new[y] = fat[y]
  BY <1>1
<1>3. new \in Fats
  BY DEF new
<1>4. Longer(fat, new, x)
  BY <1>2, <1>3, LongerLemma
<1> QED BY <1>4 DEF new

\* remove_chain keeps the other chains.
LEMMA FreeKeeps ==
    ASSUME NEW fat \in Fats, FatOK(fat), NEW a, Begins(fat, a),
           NEW x \in Links, x # 0 => Begins(fat, x), x # a,
           NEW new \in Fats, new = [k \in Clusters |-> IF k \in ChainOf(fat, a) THEN 0 ELSE fat[k]]
    PROVE  Longer(fat, new, x)
<1>1. ASSUME NEW k \in Nat, Nth(fat, x, k) \in Clusters
      PROVE  Nth(fat, x, k) \notin ChainOf(fat, a)
  <2> SUFFICES ASSUME Nth(fat, x, k) \in ChainOf(fat, a) PROVE FALSE
    OBVIOUS
  <2>1. PICK i \in Nat : Nth(fat, a, i) = Nth(fat, x, k)
    BY ClustersLemma DEF ChainOf
  <2>2. CASE x = 0
    <3>1. \A n \in Nat : Nth(fat, 0, n) = 0
      BY EmptyChain
    <3> QED BY <1>1, <2>2, <3>1, ClustersLemma
  <2>3. CASE x # 0
    <3>1. Nth(fat, a, i) = 0
      BY <2>1, <2>3, ApartLemma
    <3> QED BY <1>1, <2>1, <3>1, ClustersLemma
  <2> QED BY <2>2, <2>3
<1>2. \A k \in Nat : LET y == Nth(fat, x, k)
                     IN  y \in Clusters /\ fat[y] \in Clusters => new[y] = fat[y]
  BY <1>1
<1> QED BY <1>2, LongerLemma

\* A chain never comes back to a cluster.
LEMMA OnceLemma ==
    ASSUME NEW fat \in Fats, FatOK(fat), NEW x, Begins(fat, x),
           NEW p \in Nat, NEW q \in Nat, Nth(fat, x, p) = Nth(fat, x, q), Nth(fat, x, p) # 0
    PROVE  p = q
<1> DEFINE A(n) == Nth(fat, x, n)
           Q == {n \in Nat : \A m \in Nat : A(n) = A(m) /\ A(n) # 0 => n = m}
<1>1. x \in Links /\ x \in Clusters /\ \A j \in Clusters : fat[j] # x
  BY DEF Begins, Links
<1>2. A(0) = x
  BY <1>1, StepLemma
<1>3. \A n \in Nat : A(n + 1) # 0 => A(n) \in Clusters /\ A(n + 1) = fat[A(n)] /\ A(n + 1) \in Clusters
  BY <1>1, StepLemma
<1> HIDE DEF A
<1>4. \A m \in Nat : m # 0 => m - 1 \in Nat /\ (m - 1) + 1 = m
  OBVIOUS
<1>5. ASSUME NEW m \in Nat, A(m) = x PROVE m = 0
  <2> SUFFICES ASSUME m # 0 PROVE FALSE
    OBVIOUS
  <2>1. PICK l \in Nat : l + 1 = m
    BY <1>4
  <2>2. A(l) \in Clusters /\ x = fat[A(l)]
    BY <1>1, <1>3, <1>5, <2>1, ClustersLemma
  <2> QED BY <1>1, <2>2
<1>6. 0 \in Q
  BY <1>2, <1>5
<1>7. ASSUME NEW n \in Nat, n \in Q PROVE n + 1 \in Q
  <2> SUFFICES ASSUME NEW m \in Nat, A(n + 1) = A(m), A(n + 1) # 0 PROVE n + 1 = m
    OBVIOUS
  <2>1. A(n) \in Clusters /\ A(n + 1) = fat[A(n)] /\ A(n + 1) \in Clusters
    BY <1>3
  <2>2. m # 0
    BY <1>1, <1>2, <2>1
  <2> DEFINE l == m - 1
  <2>3. l \in Nat /\ l + 1 = m
    BY <2>2
  <2> HIDE DEF l
  <2>4. A(l) \in Clusters /\ A(m) = fat[A(l)]
    BY <1>3, <2>3
  <2>5. A(l) = A(n)
    BY <2>1, <2>4 DEF FatOK
  <2>6. n = l
    BY <1>7, <2>1, <2>3, <2>5, ClustersLemma
  <2> QED BY <2>3, <2>6
<1>8. Nat \subseteq Q
  <2> HIDE DEF Q
  <2> QED BY <1>6, <1>7, NatSetInduction
<1>9. \A n \in Nat, m \in Nat : A(n) = A(m) /\ A(n) # 0 => n = m
  BY <1>8
<1> QED BY <1>9 DEF A

\* A cluster has enough of a file of n lines, of which it is the k-th.
Enough(m, n, k) == m >= PerSector \/ m >= n - k * PerSector

\* The chain of x has clusters for n lines, and they hold those of f.
Held(fat, data, x, n, f) ==
    \A k \in Nat : k * PerSector < n =>
        /\ Nth(fat, x, k) # 0
        /\ data[Nth(fat, x, k)].of = f
        /\ Enough(data[Nth(fat, x, k)].n, n, k)

\* It is the last cluster of n lines.
Last(n, k) == k * PerSector < n /\ n <= k * PerSector + PerSector

\* Lines that are held in a chain are in a longer one.
LEMMA HeldLonger ==
    ASSUME NEW fat, NEW new, NEW data, NEW x, NEW n, NEW f,
           Held(fat, data, x, n, f), Longer(fat, new, x)
    PROVE  Held(new, data, x, n, f)
BY DEF Held, Longer

\* Nothing is held of no lines.
LEMMA NoneHeld ==
    ASSUME NEW fat, NEW data, NEW x, NEW n \in Int, n <= 0, NEW f
    PROVE  Held(fat, data, x, n, f)
<1>1. ASSUME NEW k \in Nat PROVE ~(k * PerSector < n)
  <2>1. k * PerSector >= 0
    BY ClustersLemma
  <2>2. k * PerSector \in Int
    BY ClustersLemma
  <2> QED BY <2>1, <2>2
<1> QED BY <1>1 DEF Held

\* What a write to the cluster s does not take away.
LEMMA HeldWritten ==
    ASSUME NEW fat \in Fats, NEW data \in [Clusters -> Sectors], NEW x \in Links, NEW n \in Int, NEW f,
           Held(fat, data, x, n, f), NEW s, NEW v,
           \A k \in Nat : k * PerSector < n /\ Nth(fat, x, k) = s => v.of = f /\ Enough(v.n, n, k)
    PROVE  Held(fat, [data EXCEPT ![s] = v], x, n, f)
<1>1. \A k \in Nat : Nth(fat, x, k) # 0 => Nth(fat, x, k) \in Clusters
  BY StepLemma DEF Links
<1>2. \A c \in Clusters : [data EXCEPT ![s] = v][c] = IF c = s THEN v ELSE data[c]
  OBVIOUS
<1> QED BY <1>1, <1>2 DEF Held

\* The lines in the last sector, when it is not full.
LEMMA RemainderLemma ==
    ASSUME NEW n \in Nat, NEW P \in Nat, P > 0, NEW k \in Nat, k * P <= n, n < k * P + P
    PROVE  n % P = n - k * P
<1> DEFINE q == n \div P
           r == n % P
<1>1. n = P * q + r /\ r \in 0..(P - 1) /\ q \in Nat
  OBVIOUS
<1> HIDE DEF q, r
<1>2. \A i \in Nat, j \in Nat : i < j => i * P + P <= j * P
  OBVIOUS
<1>3. P * q = q * P
  BY <1>1
<1> DEFINE kP == k * P
           qP == q * P
<1>4. kP \in Nat /\ qP \in Nat /\ kP <= n /\ n < kP + P /\ n = qP + r
  BY <1>1, <1>3
<1>5. (k < q => kP + P <= qP) /\ (q < k => qP + P <= kP)
  BY <1>1, <1>2
<1> HIDE DEF kP, qP
<1>6. k = q
  BY <1>1, <1>4, <1>5
<1>7. kP = qP
  BY <1>6 DEF kP, qP
<1>8. r = n - kP
  BY <1>1, <1>4, <1>7
<1> QED BY <1>8 DEF r, kP

\* There is one last cluster, and it is full if the lines come out even.
LEMMA LastLemma ==
    ASSUME NEW n \in Nat
    PROVE  /\ \A i \in Nat, j \in Nat : Last(n, i) /\ Last(n, j) => i = j
           /\ \A i \in Nat, j \in Nat : Last(n, i) /\ j * PerSector < n => j <= i
           /\ n > 0 => \E i \in Nat : Last(n, i) /\ i = Needed(n) - 1
           /\ \A i \in Nat : Last(n, i) /\ n % PerSector = 0 => n = i * PerSector + PerSector
           /\ \A i \in Nat : Last(n, i) /\ n % PerSector # 0 => n < i * PerSector + PerSector
           /\ n % PerSector = 0 => \E i \in Nat : n = i * PerSector
<1> DEFINE P == PerSector
<1>1. P \in Nat /\ P > 0
  BY ClustersLemma
<1> HIDE DEF P
<1>2. \A i \in Nat, j \in Nat : i * P < n /\ n <= j * P + P => i <= j
  <2> SUFFICES ASSUME NEW i \in Nat, NEW j \in Nat, i > j PROVE j * P + P <= i * P
    BY <1>1
  <2> QED BY <1>1
<1>3. ASSUME n > 0 PROVE \E i \in Nat : i * P < n /\ n <= i * P + P /\ i = ((n + P - 1) \div P) - 1
  <2> DEFINE i == ((n + P - 1) \div P) - 1
  <2>1. i \in Nat /\ i * P < n /\ n <= i * P + P
    BY <1>1, <1>3
  <2> QED BY <2>1
<1>4. ASSUME NEW i \in Nat, i * P < n, n <= i * P + P
      PROVE  IF n % P = 0 THEN n = i * P + P ELSE n < i * P + P
  <2>1. CASE n = i * P + P
    <3>1. n = P * (i + 1)
      BY <1>1, <2>1
    <3>2. n % P = 0
      BY <1>1, <3>1
    <3> QED BY <2>1, <3>2
  <2>2. CASE n < i * P + P
    <3>1. n % P = n - i * P
      <4>1. i * P <= n
        BY <1>1, <1>4
      <4> QED BY <1>1, <2>2, <4>1, RemainderLemma, Zenon
    <3>2. n - i * P > 0
      BY <1>1, <1>4
    <3> QED BY <2>2, <3>1, <3>2
  <2> QED BY <1>1, <1>4, <2>1, <2>2
<1>5. ASSUME n % P = 0 PROVE \E i \in Nat : n = i * P
  <2> DEFINE i == n \div P
  <2>1. i \in Nat /\ n = i * P
    BY <1>1, <1>5
  <2> QED BY <2>1
<1>6. ASSUME NEW i \in Nat, NEW j \in Nat, Last(n, i), j * PerSector < n PROVE j <= i
  BY <1>2, <1>6 DEF Last, P
<1>7. ASSUME NEW i \in Nat, NEW j \in Nat, Last(n, i), Last(n, j) PROVE i = j
  <2>1. i <= j /\ j <= i
    BY <1>6, <1>7 DEF Last
  <2> QED BY <2>1
<1>8. n > 0 => \E i \in Nat : Last(n, i) /\ i = Needed(n) - 1
  BY <1>3 DEF Last, Needed, P
<1>9. \A i \in Nat : Last(n, i) => IF n % PerSector = 0 THEN n = i * PerSector + PerSector
                                                       ELSE n < i * PerSector + PerSector
  BY <1>4 DEF Last, P
<1>10. n % PerSector = 0 => \E i \in Nat : n = i * PerSector
  BY <1>5 DEF P
<1> QED BY <1>6, <1>7, <1>8, <1>9, <1>10

\* What is held is backed.
LEMMA BackedLemma ==
    ASSUME NEW c \in Cards, NEW f \in Files, disk \in [Cards -> Volumes],
           Held(disk[c].fat, disk[c].data, disk[c].dir[f].first, disk[c].dir[f].size, f),
           disk[c].dir[f] # Absent
    PROVE  Backed(c, f)
<1> DEFINE e == disk[c].dir[f]
           fat == disk[c].fat
           data == disk[c].data
           P == PerSector
           cluster(k) == Nth(fat, e.first, k)
           full(k) == IF e.size >= (k + 1) * P THEN P ELSE e.size % P
<1>1. e.size \in Nat /\ e.first \in Links /\ fat \in Fats /\ data \in [Clusters -> Sectors]
  BY DEF Volumes, Dirs, Entries
<1>2. P \in Nat /\ P > 0
  BY ClustersLemma
<1>3. Held(fat, data, e.first, e.size, f)
  OBVIOUS
<1>4. Backed(c, f) <=> \A k \in 0..(Needed(e.size) - 1) :
                          /\ cluster(k) # 0
                          /\ data[cluster(k)].of = f
                          /\ data[cluster(k)].n >= full(k)
  BY DEF Backed
<1> HIDE DEF e, fat, data
<1>5. ASSUME NEW k \in 0..(Needed(e.size) - 1)
      PROVE  cluster(k) # 0 /\ data[cluster(k)].of = f /\ data[cluster(k)].n >= full(k)
  <2>1. k \in Nat /\ k * P < e.size
    BY <1>1, <1>2 DEF Needed
  <2>2. cluster(k) # 0 /\ data[cluster(k)].of = f /\ Enough(data[cluster(k)].n, e.size, k)
    BY <1>3, <2>1 DEF Held
  <2> DEFINE m == data[cluster(k)].n
  <2>3. m \in Nat
    BY <1>1, <2>1, <2>2, StepLemma DEF Links, Sectors
  <2>4. m >= full(k)
    <3>1. m >= P \/ m >= e.size - k * P
      BY <2>2 DEF Enough
    <3> HIDE DEF m
    <3>2. (k + 1) * P = k * P + P
      BY <1>2, <2>1
    <3>3. CASE e.size >= (k + 1) * P
      BY <1>1, <1>2, <2>1, <2>3, <3>1, <3>2, <3>3
    <3>4. CASE e.size < (k + 1) * P
      <4>1. e.size % P = e.size - k * P
        BY <1>1, <1>2, <2>1, <3>2, <3>4, RemainderLemma
      <4>2. e.size % P < P /\ e.size % P \in Nat
        BY <1>1, <1>2
      <4> QED BY <1>1, <1>2, <2>3, <3>1, <3>4, <4>1, <4>2
    <3>5. (k + 1) * P \in Nat
      BY <1>2, <2>1
    <3> QED BY <1>1, <3>3, <3>4, <3>5
  <2> QED BY <2>2, <2>4
<1> QED BY <1>4, <1>5

-----------------------------------------------------------------------------
(* The lines of the files, and where those of the open one are.              *)

\* Nothing is held of no lines, and an entry without lines has no chain.
AllHeld(dir, fat, data) ==
    \A f \in Files : /\ Held(fat, data, dir[f].first, dir[f].size, f)
                     /\ dir[f].size = 0 => dir[f].first = 0

DisksHeld == \A c \in Cards : AllHeld(disk[c].dir, disk[c].fat, disk[c].data)

ViewHeld == from \in Cards => AllHeld(TheDir, TheFat, disk[from].data)

Prefix == from \in Cards => \A f \in Files : Longer(disk[from].fat, TheFat, disk[from].dir[f].first)

\* An entry that begins where the file f of n lines begins is an earlier one of f.
Before(dir, x, n, f) ==
    x # 0 => \A g \in Files : dir[g].first = x => g = f /\ dir[g].size <= n

Mixed == from \in Cards => \A f \in Files : Before(disk[from].dir, TheDir[f].first, TheDir[f].size, f)

\* The lines of an open file are on the card, but for those of its last cluster
\* if the buffer is dirty.
FileHeld(f, nm, fat, data) ==
    \A k \in Nat : k * PerSector < f.size =>
        /\ Nth(fat, f.first, k) # 0
        /\ f.dirty = TRUE /\ Last(f.size, k) =>
             Nth(fat, f.first, k) = f.sect /\ Enough(f.buf, f.size, k)
        /\ ~(f.dirty = TRUE /\ Last(f.size, k)) =>
             /\ data[Nth(fat, f.first, k)].of = nm
             /\ Enough(data[Nth(fat, f.first, k)].n, f.size, k)

\* It stands at its last cluster, has the last lines in the buffer if there is
\* room for more, stands at a cluster that it has more than it needs.
Sited(f, fat) == \A k \in Nat : Last(f.size, k) => f.clust = Nth(fat, f.first, k)

Loaded(f, fat) ==
    \A k \in Nat : Last(f.size, k) /\ f.size < k * PerSector + PerSector =>
        f.sect = Nth(fat, f.first, k) /\ Enough(f.buf, f.size, k)

Grows(f, fat) ==
    /\ f.clust # 0
    /\ \A k \in Nat : k * PerSector = f.size => f.clust = Nth(fat, f.first, k)

Ready == pc \in {"fill", "create"} \/ (pc = "line" /\ fil.err = FALSE)

Position ==
    /\ Ready => Sited(fil, TheFat)
    /\ pc = "line" /\ fil.err = FALSE => Loaded(fil, TheFat)
    /\ pc \in {"create", "flush"} => fil.size % PerSector = 0
    /\ pc = "flush" => Grows(fil, TheFat)
    /\ pc = "fill" => fil.size % PerSector # 0

Flags ==
    /\ fil.size = 0 /\ pc # "flush" => fil.first = 0
    /\ fil.dirty = TRUE => fil.size > 0
    /\ pc \in {"seek", "fill"} => fil.dirty = FALSE /\ fil.size > 0

FileOK ==
    pc \in Writing =>
        /\ FileHeld(fil, name, TheFat, disk[from].data)
        /\ Position /\ Flags
        /\ Before(disk[from].dir, fil.first, fil.size, name)
        /\ Before(TheDir, fil.first, fil.size, name)
        /\ pc = "entry" => Held(TheFat, disk[from].data, fil.first, fil.size, name)

Tables == DisksHeld /\ ViewHeld /\ Prefix /\ Mixed

Backing == Tables /\ FileOK

\* What the types say of the mounted volume.
LEMMA ViewTypes ==
    ASSUME Types, from \in Cards
    PROVE  /\ TheDir \in Dirs /\ TheFat \in Fats
           /\ disk[from].dir \in Dirs /\ disk[from].fat \in Fats
           /\ disk[from].data \in [Clusters -> Sectors]
<1>1. WorldOK /\ FsOK
  BY DEF Types
<1>2. /\ disk[from].dir \in Dirs /\ disk[from].fat \in Fats
      /\ disk[from].data \in [Clusters -> Sectors]
  BY <1>1 DEF WorldOK, Volumes
<1> QED BY <1>1, <1>2 DEF FsOK, TheDir, TheFat

\* What the types say of an entry.
LEMMA EntryTypes ==
    ASSUME NEW dir \in Dirs, NEW f \in Files
    PROVE  dir[f].size \in Int /\ dir[f].first \in Links
BY DEF Dirs, Entries, Absent, Links

\* After a step that leaves a window that agrees with the card.
LEMMA FreshLemma ==
    ASSUME Types', Sound', DisksHeld',
           from' \in Cards => TheDir' = disk'[from'].dir /\ TheFat' = disk'[from'].fat
    PROVE  Tables'
<1> SUFFICES ASSUME from' \in Cards
             PROVE  /\ AllHeld(TheDir', TheFat', disk'[from'].data)
                    /\ \A f \in Files : Longer(disk'[from'].fat, TheFat', disk'[from'].dir[f].first)
                    /\ \A f \in Files : Before(disk'[from'].dir, TheDir'[f].first, TheDir'[f].size, f)
  BY DEF Tables, ViewHeld, Prefix, Mixed
<1>1. TheDir' = disk'[from'].dir /\ TheFat' = disk'[from'].fat
  OBVIOUS
<1>2. AllHeld(TheDir', TheFat', disk'[from'].data)
  BY <1>1 DEF DisksHeld
<1>3. \A f \in Files : Longer(disk'[from'].fat, TheFat', disk'[from'].dir[f].first)
  BY <1>1 DEF Longer
<1>4. DirOK(TheDir', TheFat')
  BY DEF Sound, MountedOK, VolOK
<1>5. \A f \in Files : TheDir'[f].size \in Int
  <2>1. WorldOK'
    BY DEF Types
  <2>2. TheDir' \in Dirs
    BY <1>1, <2>1 DEF WorldOK, Volumes
  <2> QED BY <2>2, EntryTypes
<1>6. \A f \in Files : Before(disk'[from'].dir, TheDir'[f].first, TheDir'[f].size, f)
  BY <1>1, <1>4, <1>5 DEF DirOK, Before
<1> QED BY <1>2, <1>3, <1>6

\* The entries on the card fit the FAT in the window as well.
LEMMA CardDirLemma ==
    ASSUME Types, Sound, from \in Cards
    PROVE  DirOK(disk[from].dir, TheFat)
<1>1. CASE fs.win = "fat"
  BY <1>1 DEF Sound, MountedOK, VolOK, TheDir
<1>2. CASE fs.win # "fat"
  BY <1>2 DEF Sound, DisksOK, VolOK, TheFat
<1> QED BY <1>1, <1>2

\* Nothing changes on the cards and in the window.
LEMMA TablesKept ==
    ASSUME Types, Tables, Kept, \A c \in Cards : disk'[c].data = disk[c].data
    PROVE  Tables'
<1>1. from \in Cards => /\ TheDir' = TheDir /\ TheFat' = TheFat /\ disk'[from].data = disk[from].data
                        /\ disk'[from].dir = disk[from].dir /\ disk'[from].fat = disk[from].fat
  BY DEF Kept, TheDir, TheFat
<1>2. from' = from
  BY DEF Kept
<1>3. DisksHeld'
  BY DEF Tables, DisksHeld, Kept
<1>4. ViewHeld' /\ Prefix' /\ Mixed'
  BY <1>1, <1>2 DEF Tables, ViewHeld, Prefix, Mixed
<1> QED BY <1>3, <1>4 DEF Tables

\* The FAT in the window changes, and the chains of the files only grow.
LEMMA TablesLinked ==
    ASSUME Types, Tables, from \in Cards, from' = from, disk' = disk, TheDir' = TheDir,
           \A f \in Files : /\ Longer(TheFat, TheFat', TheDir[f].first)
                            /\ Longer(TheFat, TheFat', disk[from].dir[f].first)
    PROVE  Tables'
<1>1. DisksHeld' /\ Mixed'
  BY DEF Tables, DisksHeld, Mixed
<1>2. ViewHeld'
  BY HeldLonger DEF Tables, ViewHeld, AllHeld
<1>3. Prefix'
  BY DEF Tables, Prefix, Longer
<1> QED BY <1>1, <1>2, <1>3 DEF Tables

\* The directory in the window changes in the entry of a file.
LEMMA TablesEntered ==
    ASSUME Types, Tables, from \in Cards, from' = from, disk' = disk, TheFat' = TheFat,
           NEW e, \A f \in Files : TheDir'[f] = IF f = name THEN e ELSE TheDir[f],
           Held(TheFat, disk[from].data, e.first, e.size, name),
           e.size = 0 => e.first = 0,
           Before(disk[from].dir, e.first, e.size, name)
    PROVE  Tables'
<1>1. DisksHeld' /\ Prefix'
  BY DEF Tables, DisksHeld, Prefix
<1>2. ViewHeld' /\ Mixed'
  BY DEF Tables, ViewHeld, AllHeld, Mixed
<1> QED BY <1>1, <1>2 DEF Tables

\* The open file stays as it is, or is marked by an error; the card may get the
\* directory of the window.
LEMMA FileStays ==
    ASSUME Types, FileOK, from' = from, name' = name,
           pc \in Writing => /\ TheDir' = TheDir /\ TheFat' = TheFat
                             /\ disk'[from].data = disk[from].data
                             /\ disk'[from].dir = disk[from].dir \/ disk'[from].dir = TheDir,
           \/ pc' \notin Writing
           \/ pc' = pc /\ fil' = fil
           \/ pc \in {"create", "flush"} /\ pc' = "line" /\ fil' = [fil EXCEPT !.err = TRUE]
              /\ (pc = "flush" => fil.dirty = TRUE)
    PROVE  FileOK'
<1>1. CASE pc' \notin Writing
  BY <1>1 DEF FileOK
<1>2. CASE pc' = pc /\ fil' = fil
  BY <1>2 DEF FileOK, Position, Ready, Flags
<1>3. CASE pc \in {"create", "flush"} /\ pc' = "line" /\ fil' = [fil EXCEPT !.err = TRUE]
           /\ (pc = "flush" => fil.dirty = TRUE)
  <2>1. /\ fil'.size = fil.size /\ fil'.first = fil.first /\ fil'.clust = fil.clust
        /\ fil'.sect = fil.sect /\ fil'.buf = fil.buf /\ fil'.dirty = fil.dirty
        /\ fil'.err = TRUE
    BY <1>3 DEF Types, FilOK, Fils
  <2>2. pc \in Writing
    BY <1>3 DEF Writing
  <2>3. Position' /\ Flags'
    BY <1>3, <2>1, <2>2 DEF FileOK, Position, Ready, Flags
  <2>4. FileHeld(fil', name', TheFat', disk'[from'].data)
    BY <2>1, <2>2 DEF FileOK, FileHeld
  <2>5. /\ Before(disk'[from'].dir, fil'.first, fil'.size, name')
        /\ Before(TheDir', fil'.first, fil'.size, name')
    BY <2>1, <2>2 DEF FileOK
  <2> QED BY <1>3, <2>3, <2>4, <2>5 DEF FileOK
<1> QED BY <1>1, <1>2, <1>3

\* What a line more changes in the open file.
LEMMA BufferedFields ==
    ASSUME NEW f \in Fils, NEW at \in Nat
    PROVE  LET b == Buffered(f, at)
           IN  /\ b.size = f.size + 1 /\ b.first = f.first /\ b.clust = f.clust /\ b.sect = f.sect
               /\ b.buf = at /\ b.dirty = TRUE /\ b.err = f.err
<1>1. ASSUME NEW b, b = [f EXCEPT !.buf = at, !.dirty = TRUE, !.modified = TRUE, !.size = @ + 1]
      PROVE  /\ b.size = f.size + 1 /\ b.first = f.first /\ b.clust = f.clust /\ b.sect = f.sect
             /\ b.buf = at /\ b.dirty = TRUE /\ b.err = f.err
  BY <1>1 DEF Fils
<1> QED BY <1>1 DEF Buffered

\* A cluster of two chains is the same place of the same chain.
LEMMA PlaceLemma ==
    ASSUME NEW fat \in Fats, FatOK(fat), NEW a, Begins(fat, a), NEW x \in Links,
           x # 0 => Begins(fat, x), NEW p \in Nat, NEW k \in Nat,
           Nth(fat, x, k) = Nth(fat, a, p), Nth(fat, a, p) # 0
    PROVE  x = a /\ k = p
<1>1. x # 0
  BY EmptyChain
<1>2. x = a
  BY <1>1, ApartLemma
<1> QED BY <1>2, OnceLemma

\* Where a chain of the view has a cluster that the open file writes to.
WrittenOK(fat, x, n, f) ==
    \A k \in Nat : k * PerSector < n /\ Nth(fat, x, k) = fil.sect =>
        f = name /\ Enough(fil.buf, n, k)

\* The buffer takes nothing away from any file, as the card or as the window has it.
LEMMA SectorLemma ==
    ASSUME Types, Sound, Backing, pc \in Writing, fil.dirty = TRUE,
           NEW x \in Links, NEW n \in Int, NEW f \in Files, x # 0 => Begins(TheFat, x),
           fil.first # 0 /\ x = fil.first => f = name /\ n <= fil.size
    PROVE  WrittenOK(TheFat, x, n, f)
<1>1. from \in Cards /\ fil \in Fils /\ fil.size > 0 /\ fil.first # 0
  BY DEF Types, CallOK, FilOK, Backing, FileOK, Flags, Writing
<1>2. TheFat \in Fats /\ FatOK(TheFat) /\ Begins(TheFat, fil.first)
  BY <1>1, ViewTypes DEF Sound, MountedOK, VolOK, TaskOK, Own
<1>3. fil.size \in Nat /\ fil.buf \in Nat /\ fil.first \in Links
  BY <1>1 DEF Fils
<1>4. PICK p \in Nat : Last(fil.size, p)
  BY <1>1, <1>3, LastLemma
<1>5. /\ Nth(TheFat, fil.first, p) # 0 /\ Nth(TheFat, fil.first, p) = fil.sect
      /\ Enough(fil.buf, fil.size, p)
  BY <1>4 DEF Backing, FileOK, FileHeld, Last
<1>6. ASSUME NEW k \in Nat, k * PerSector < n, Nth(TheFat, x, k) = fil.sect
      PROVE  f = name /\ Enough(fil.buf, n, k)
  <2>1. x = fil.first /\ k = p
    BY <1>2, <1>5, <1>6, PlaceLemma
  <2>2. f = name /\ n <= fil.size
    BY <1>1, <2>1
  <2>3. k * PerSector \in Int
    BY ClustersLemma
  <2>4. Enough(fil.buf, n, k)
    BY <1>3, <1>5, <2>1, <2>2, <2>3, ClustersLemma DEF Enough
  <2> QED BY <2>2, <2>4
<1> QED BY <1>6 DEF WrittenOK

\* The buffer is written: all that was held still is, and the open file as well.
LEMMA BufferWritten ==
    ASSUME Types, Sound, Backing, pc \in {"flush", "close"}, fil.dirty = TRUE,
           WriteBuffer, card = from, UNCHANGED <<fs, from>>
    PROVE  /\ Tables' /\ TheDir' = TheDir /\ TheFat' = TheFat
           /\ disk'[from].dir = disk[from].dir
           /\ Held(TheFat, disk'[from].data, fil.first, fil.size, name)
<1> DEFINE D == disk[from].data
           v == [of |-> name, n |-> fil.buf]
           new == [D EXCEPT ![fil.sect] = v]
<1>1. /\ from \in Cards /\ fil \in Fils /\ pc \in Writing /\ name \in Files
      /\ fil.size > 0 /\ fil.first # 0 /\ WorldOK /\ FilOK /\ CallOK
  BY DEF Types, WorldOK, CallOK, FilOK, Backing, FileOK, Flags, Writing
<1>2. /\ TheDir \in Dirs /\ TheFat \in Fats /\ D \in [Clusters -> Sectors]
      /\ disk[from].dir \in Dirs /\ disk[from].fat \in Fats
  BY <1>1, ViewTypes
<1>3. /\ \A c \in Cards : c # from => disk'[c] = disk[c]
      /\ disk'[from].dir = disk[from].dir /\ disk'[from].fat = disk[from].fat
      /\ disk'[from].data = new
  <2> DEFINE part == "data"
             all == [disk[card].data EXCEPT ![fil.sect] = [of |-> name, n |-> fil.buf]]
  <2>1. card # NoCard /\ disk' = [disk EXCEPT ![card][part] = all]
    BY DEF WriteBuffer, Put, Works
  <2>2. all \in [Clusters -> Sectors] /\ part = "data"
    BY <1>1, <2>1, DataLemma
  <2>3. all = new
    OBVIOUS
  <2> HIDE DEF part, all, new
  <2>4. /\ \A c \in Cards : c # card => disk'[c] = disk[c]
        /\ disk'[card].dir = IF part = "dir" THEN all ELSE disk[card].dir
        /\ disk'[card].fat = IF part = "fat" THEN all ELSE disk[card].fat
        /\ disk'[card].data = IF part = "data" THEN all ELSE disk[card].data
    BY <1>1, <2>1, <2>2, PutLemma
  <2> QED BY <2>2, <2>3, <2>4
<1>4. TheDir' = TheDir /\ TheFat' = TheFat
  BY <1>3 DEF TheDir, TheFat
<1>5. fil.size \in Int /\ fil.size \in Nat /\ fil.first \in Links /\ v.of = name /\ v.n = fil.buf
  BY <1>1 DEF Fils
<1> HIDE DEF D, v
<1>6. ASSUME NEW fat \in Fats, NEW x \in Links, NEW n \in Int, NEW f \in Files,
             Held(fat, D, x, n, f), Longer(fat, TheFat, x), WrittenOK(TheFat, x, n, f)
      PROVE  Held(fat, new, x, n, f)
  <2>1. \A k \in Nat : k * PerSector < n /\ Nth(fat, x, k) = fil.sect => v.of = f /\ Enough(v.n, n, k)
    BY <1>5, <1>6 DEF Held, Longer, WrittenOK
  <2> QED BY <1>2, <1>6, <2>1, HeldWritten
<1> HIDE DEF new
<1>7. /\ \A x : Longer(TheFat, TheFat, x)
      /\ \A f \in Files : Longer(disk[from].fat, TheFat, disk[from].dir[f].first)
  BY <1>1 DEF Backing, Tables, Prefix, Longer
<1>8. ASSUME NEW f \in Files
      PROVE  /\ WrittenOK(TheFat, TheDir[f].first, TheDir[f].size, f)
             /\ WrittenOK(TheFat, disk[from].dir[f].first, disk[from].dir[f].size, f)
  <2>1. DirOK(TheDir, TheFat) /\ DirOK(disk[from].dir, TheFat)
    BY <1>1, CardDirLemma DEF Sound, MountedOK, VolOK
  <2>2. Before(disk[from].dir, fil.first, fil.size, name) /\ Before(TheDir, fil.first, fil.size, name)
    BY <1>1 DEF Backing, FileOK
  <2>3. WrittenOK(TheFat, TheDir[f].first, TheDir[f].size, f)
    <3> DEFINE x == TheDir[f].first
               n == TheDir[f].size
    <3>1. x \in Links /\ n \in Int
      BY <1>2, EntryTypes
    <3>2. x # 0 => Begins(TheFat, x)
      BY <2>1 DEF DirOK
    <3>3. fil.first # 0 /\ x = fil.first => f = name /\ n <= fil.size
      BY <2>2 DEF Before
    <3> HIDE DEF x, n
    <3>4. WrittenOK(TheFat, x, n, f)
      BY <1>1, <3>1, <3>2, <3>3, SectorLemma
    <3> QED BY <3>4 DEF x, n
  <2>4. WrittenOK(TheFat, disk[from].dir[f].first, disk[from].dir[f].size, f)
    <3> DEFINE x == disk[from].dir[f].first
               n == disk[from].dir[f].size
    <3>1. x \in Links /\ n \in Int
      BY <1>2, EntryTypes
    <3>2. x # 0 => Begins(TheFat, x)
      BY <2>1 DEF DirOK
    <3>3. fil.first # 0 /\ x = fil.first => f = name /\ n <= fil.size
      BY <2>2 DEF Before
    <3> HIDE DEF x, n
    <3>4. WrittenOK(TheFat, x, n, f)
      BY <1>1, <3>1, <3>2, <3>3, SectorLemma
    <3> QED BY <3>4 DEF x, n
  <2> QED BY <2>3, <2>4
<1>9. AllHeld(disk[from].dir, disk[from].fat, new)
  <2> SUFFICES ASSUME NEW f \in Files
               PROVE  Held(disk[from].fat, new, disk[from].dir[f].first, disk[from].dir[f].size, f)
    BY <1>1 DEF Backing, Tables, DisksHeld, AllHeld
  <2>1. Held(disk[from].fat, D, disk[from].dir[f].first, disk[from].dir[f].size, f)
    BY <1>1 DEF Backing, Tables, DisksHeld, AllHeld, D
  <2>2. disk[from].dir[f].first \in Links /\ disk[from].dir[f].size \in Int
    BY <1>2, EntryTypes
  <2> QED BY <1>2, <1>6, <1>7, <1>8, <2>1, <2>2
<1>10. AllHeld(TheDir, TheFat, new)
  <2> SUFFICES ASSUME NEW f \in Files
               PROVE  Held(TheFat, new, TheDir[f].first, TheDir[f].size, f)
    BY <1>1 DEF Backing, Tables, ViewHeld, AllHeld
  <2>1. Held(TheFat, D, TheDir[f].first, TheDir[f].size, f)
    BY <1>1 DEF Backing, Tables, ViewHeld, AllHeld, D
  <2>2. TheDir[f].first \in Links /\ TheDir[f].size \in Int
    BY <1>2, EntryTypes
  <2> QED BY <1>2, <1>6, <1>7, <1>8, <2>1, <2>2
<1>11. Tables'
  <2>1. DisksHeld'
    BY <1>3, <1>9 DEF Backing, Tables, DisksHeld
  <2>2. ViewHeld'
    BY <1>3, <1>4, <1>10 DEF ViewHeld
  <2>3. Prefix' /\ Mixed'
    BY <1>3, <1>4 DEF Backing, Tables, Prefix, Mixed
  <2> QED BY <2>1, <2>2, <2>3 DEF Tables
<1>12. Held(TheFat, new, fil.first, fil.size, name)
  <2> DEFINE s == fil.sect
  <2>1. PICK p \in Nat : Last(fil.size, p)
    BY <1>1, <1>5, LastLemma
  <2>2. FileHeld(fil, name, TheFat, D)
    BY <1>1 DEF Backing, FileOK, D
  <2>3. Nth(TheFat, fil.first, p) # 0 /\ Nth(TheFat, fil.first, p) = s /\ Enough(fil.buf, fil.size, p)
    BY <2>1, <2>2 DEF FileHeld, Last
  <2>4. s \in Clusters /\ new[s] = v /\ \A c \in Clusters : c # s => new[c] = D[c]
    <3>1. s \in Clusters
      <4>1. TheFat \in Fats /\ fil.first \in Links
        BY <1>2, <1>5
      <4>2. Nth(TheFat, fil.first, p) \in Links
        BY <4>1, StepLemma
      <4> QED BY <2>3, <4>2 DEF Links
    <3>2. new = [D EXCEPT ![s] = v]
      BY DEF new, D, v
    <3> HIDE DEF s
    <3> QED BY <1>2, <3>1, <3>2
  <2>5. ASSUME NEW k \in Nat, k * PerSector < fil.size
        PROVE  LET x == Nth(TheFat, fil.first, k)
               IN  x # 0 /\ new[x].of = name /\ Enough(new[x].n, fil.size, k)
    <3> DEFINE x == Nth(TheFat, fil.first, k)
    <3>1. x # 0 /\ x \in Clusters
      BY <1>2, <1>5, <2>2, <2>5, StepLemma DEF FileHeld, Links
    <3>2. CASE k = p
      BY <1>5, <2>3, <2>4, <3>1, <3>2
    <3>3. CASE k # p
      <4>1. ~Last(fil.size, k)
        BY <1>5, <2>1, <3>3, LastLemma
      <4>2. D[x].of = name /\ Enough(D[x].n, fil.size, k)
        BY <2>2, <2>5, <4>1 DEF FileHeld
      <4>3. x # s
        <5>1. FatOK(TheFat) /\ Begins(TheFat, fil.first)
          BY <1>1 DEF Sound, MountedOK, VolOK, TaskOK, Own
        <5> QED BY <1>2, <2>3, <3>1, <3>3, <5>1, OnceLemma
      <4> QED BY <2>4, <3>1, <4>2, <4>3
    <3> QED BY <3>2, <3>3
  <2> QED BY <2>5 DEF Held
<1> QED BY <1>3, <1>4, <1>11, <1>12

\* The write of the window to the card.
LEMMA SyncTables ==
    ASSUME Types, Types', Sound', Tables, fs.win # "none", card = from,
           Put(fs.win, fs.img), fs' = [fs EXCEPT !.wflag = FALSE], from' = from
    PROVE  /\ Tables' /\ TheDir' = TheDir /\ TheFat' = TheFat
           /\ disk'[from].data = disk[from].data /\ disk'[from].dir = TheDir
<1>1. /\ fs.win \in {"dir", "fat"} /\ WorldOK
      /\ fs'.win = fs.win /\ fs'.img = fs.img
      /\ fs.win = "dir" => fs.img \in Dirs
      /\ fs.win = "fat" => fs.img \in Fats
  BY DEF Types, FsOK
<1>2. /\ from \in Cards
      /\ \A c \in Cards : c # from => disk'[c] = disk[c]
      /\ disk'[from].dir = TheDir /\ disk'[from].fat = TheFat /\ disk'[from].data = disk[from].data
  <2>1. card # NoCard /\ disk' = [disk EXCEPT ![card][fs.win] = fs.img]
    BY DEF Put, Works
  <2> DEFINE part == fs.win
             new == fs.img
  <2>2. /\ part \in {"dir", "fat", "data"}
        /\ \/ part = "dir" /\ new \in Dirs
           \/ part = "fat" /\ new \in Fats
           \/ part = "data" /\ new \in [Clusters -> Sectors]
        /\ disk' = [disk EXCEPT ![card][part] = new]
    BY <1>1, <2>1
  <2>d. part # "data"
    BY <1>1
  <2> HIDE DEF part, new
  <2>3. /\ card \in Cards
        /\ \A c \in Cards : c # card => disk'[c] = disk[c]
        /\ disk'[card].dir = IF part = "dir" THEN new ELSE disk[card].dir
        /\ disk'[card].fat = IF part = "fat" THEN new ELSE disk[card].fat
    BY <1>1, <2>1, <2>2, PutLemma
  <2>w. WorldOK /\ card # NoCard /\ disk' = [disk EXCEPT ![card][part] = new]
    BY <1>1, <2>1, <2>2
  <2>4. disk'[card].data = IF part = "data" THEN new ELSE disk[card].data
    BY <2>2, <2>w, PutLemma
  <2> QED BY <2>2, <2>3, <2>4, <2>d DEF TheDir, TheFat, part, new
<1>3. TheDir' = TheDir /\ TheFat' = TheFat
  BY <1>1, <1>2 DEF TheDir, TheFat
<1>4. DisksHeld'
  BY <1>2 DEF Tables, DisksHeld, ViewHeld
<1>5. Tables'
  BY <1>2, <1>3, <1>4, FreshLemma
<1> QED BY <1>2, <1>3, <1>5

\* A step that has nothing to do with the tables and the open file.
LEMMA BackingKept ==
    ASSUME Types, Backing, Kept, disk' = disk,
           pc' \notin Writing \/ (pc' = pc /\ fil' = fil /\ name' = name)
    PROVE  Backing'
<1>1. Tables'
  BY TablesKept DEF Backing
<1>2. from \in Cards => TheDir' = TheDir /\ TheFat' = TheFat
  BY DEF Kept, TheDir, TheFat
<1>3. CASE pc' \notin Writing
  BY <1>1, <1>3 DEF Backing, FileOK
<1>4. CASE pc' \in Writing /\ pc' = pc /\ fil' = fil /\ name' = name
  <2>1. from \in Cards /\ from' = from
    BY <1>4 DEF Types, CallOK, Writing, Kept
  <2>2. FileOK'
    BY <1>2, <1>4, <2>1, FileStays DEF Backing
  <2> QED BY <1>1, <2>2 DEF Backing
<1> QED BY <1>3, <1>4

\* An access of the window that fails.
LEMMA BackingAborted ==
    ASSUME Types, Backing, from' = from, disk' = disk, Tables', Abort, pc # "flush",
           pc \in Writing => TheDir' = TheDir /\ TheFat' = TheFat
    PROVE  Backing'
<1>1. CASE pc = "create"
  <2>1. pc' = "line" /\ fil' = [fil EXCEPT !.err = TRUE] /\ name' = name
    BY <1>1 DEF Abort, NextLine
  <2>2. FileOK'
    BY <1>1, <2>1, FileStays DEF Backing
  <2> QED BY <2>2 DEF Backing
<1>2. CASE pc # "create"
  BY <1>2 DEF Abort, Return, Backing, FileOK, Writing
<1> QED BY <1>1, <1>2

\* All clusters of the file but the p-th are on the card.
HeldBut(f, p, nm, fat, data) ==
    \A k \in Nat : k * PerSector < f.size /\ k # p =>
        /\ Nth(fat, f.first, k) # 0 /\ data[Nth(fat, f.first, k)].of = nm
        /\ Enough(data[Nth(fat, f.first, k)].n, f.size, k)

\* g is f with one more line, in the buffer, in its p-th cluster.
OneMore(f, g, p, fat) ==
    /\ g.size = f.size + 1 /\ g.first = f.first /\ g.dirty = TRUE
    /\ Last(g.size, p)
    /\ Nth(fat, f.first, p) # 0 /\ Nth(fat, f.first, p) = g.sect /\ Enough(g.buf, g.size, p)

\* The buffer has the last lines of it, and the card the others.
LEMMA MoreLines ==
    ASSUME NEW f \in Fils, NEW g, NEW nm, NEW fat \in Fats, NEW data \in [Clusters -> Sectors],
           NEW p \in Nat, OneMore(f, g, p, fat), HeldBut(f, p, nm, fat, data)
    PROVE  FileHeld(g, nm, fat, data) /\ Loaded(g, fat)
<1> USE DEF OneMore, HeldBut
<1> DEFINE P == PerSector
           n == f.size
<1>1. n \in Nat /\ f.first \in Links /\ g.size = n + 1 /\ P \in Nat /\ P > 0
  BY ClustersLemma DEF Fils
<1> HIDE DEF P, n
<1>2. p * P < n + 1 /\ n + 1 <= p * P + P
  BY <1>1 DEF Last, P
<1>3. ASSUME NEW k \in Nat, k * P < n + 1, k # p
      PROVE  /\ Nth(fat, f.first, k) # 0 /\ data[Nth(fat, f.first, k)].of = nm
             /\ Enough(data[Nth(fat, f.first, k)].n, n + 1, k)
             /\ ~Last(n + 1, k)
  <2>1. k < p
    <3>1. k > p => p * P + P <= k * P
      BY <1>1
    <3>2. k * P \in Int /\ p * P \in Int
      BY <1>1
    <3> QED BY <1>1, <1>2, <1>3, <3>1, <3>2
  <2>2. k * P + P <= p * P
    BY <1>1, <2>1
  <2>3. k * P \in Int /\ p * P \in Int
    BY <1>1
  <2>4. k * P < n
    BY <1>1, <1>2, <2>2, <2>3
  <2> DEFINE x == Nth(fat, f.first, k)
             m == data[x].n
  <2>5. x # 0 /\ data[x].of = nm /\ Enough(m, n, k)
    BY <1>3, <2>4 DEF P, n
  <2>6. x \in Clusters
    <3>1. x \in Links
      BY <1>1, StepLemma
    <3> QED BY <2>5, <3>1 DEF Links
  <2>7. m \in Nat
    BY <2>6 DEF Sectors
  <2> HIDE DEF m
  <2>8. Enough(m, n + 1, k)
    <3>1. m >= P \/ m >= n - k * P
      BY <2>5 DEF Enough, P
    <3>2. m >= P
      BY <1>1, <1>2, <2>2, <2>3, <2>7, <3>1
    <3> QED BY <3>2 DEF Enough, P
  <2>9. ~Last(n + 1, k)
    <3>1. ~(n + 1 <= k * P + P)
      BY <1>1, <1>2, <2>2, <2>3
    <3> QED BY <3>1 DEF Last, P
  <2> QED BY <2>5, <2>8, <2>9 DEF m
<1>4. FileHeld(g, nm, fat, data)
  BY <1>1, <1>3 DEF FileHeld, P
<1>5. Loaded(g, fat)
  <2>1. \A k \in Nat : Last(g.size, k) => k = p
    BY <1>1, <1>3 DEF Last, P
  <2> QED BY <2>1 DEF Loaded
<1> QED BY <1>4, <1>5

\* A file is opened to append.
LEMMA AppendOpened ==
    ASSUME Types, Sound, Backing, OpenAppend
    PROVE  FileOK'
<1> DEFINE e == TheDir[name]
           n == e.size
           P == PerSector
<1>1. /\ fs.win = "dir" /\ name \in Files /\ from \in Cards /\ name' = name /\ fs' = fs
      /\ TheDir = fs.img /\ e # Absent /\ disk' = disk /\ from' = from
      /\ \/ pc' = "seek" /\ n > P
         \/ ~(n > P) /\ pc' = IF n % P # 0 THEN "fill" ELSE "line"
      /\ fil' = Opened(e, FALSE)
  BY DEF OpenAppend, At, Wanted, Types, CallOK, AfterSeek, Goto, Writing, TheDir, Opened, NoFile
<1>2. TheDir' = TheDir /\ TheFat' = TheFat
  BY <1>1 DEF TheDir, TheFat
<1>3. /\ fil'.size = n /\ fil'.first = e.first /\ fil'.clust = e.first
      /\ fil'.dirty = FALSE /\ fil'.err = FALSE
  BY <1>1 DEF Opened, NoFile
<1>4. TheDir \in Dirs /\ TheFat \in Fats
  BY <1>1, ViewTypes
<1>5. n \in Nat /\ e.first \in Links /\ P \in Nat /\ P > 0
  BY <1>1, <1>4, ClustersLemma DEF Dirs, Entries
<1>6. Held(TheFat, disk[from].data, e.first, n, name) /\ (n = 0 => e.first = 0)
  BY <1>1 DEF Backing, Tables, ViewHeld, AllHeld
<1>7. Before(disk[from].dir, e.first, n, name)
  BY <1>1 DEF Backing, Tables, Mixed
<1>8. Before(TheDir, e.first, n, name)
  BY <1>1, <1>5 DEF Sound, MountedOK, VolOK, DirOK, Before
<1> HIDE DEF e, n
<1>9. FileHeld(fil', name, TheFat, disk[from].data)
  BY <1>3, <1>6 DEF FileHeld, Held
<1>10. ASSUME ~(n > P) PROVE Sited(fil', TheFat)
  <2> SUFFICES ASSUME NEW k \in Nat, Last(n, k) PROVE e.first = Nth(TheFat, e.first, k)
    BY <1>3 DEF Sited
  <2>1. k = 0
    <3>1. k # 0 => k * P >= P
      BY <1>5
    <3>2. k * P < n
      BY DEF Last
    <3>3. k * P \in Int
      BY <1>5
    <3> QED BY <1>5, <1>10, <3>1, <3>2, <3>3
  <2> QED BY <1>4, <1>5, <2>1, StepLemma
<1>11. ASSUME n % P = 0 PROVE Loaded(fil', TheFat)
  <2>1. \A k \in Nat : Last(n, k) => ~(n < k * P + P)
    <3> SUFFICES ASSUME NEW k \in Nat, Last(n, k) PROVE ~(n < k * P + P)
      OBVIOUS
    <3>1. n = k * P + P
      BY <1>5, <1>11, LastLemma
    <3>2. k * P \in Int
      BY <1>5
    <3> QED BY <1>5, <3>1, <3>2
  <2> QED BY <1>3, <2>1 DEF Loaded
<1>12. n % P # 0 \/ n > P => n > 0
  BY <1>5
<1>13. Position'
  BY <1>1, <1>2, <1>3, <1>10, <1>11 DEF Position, Ready
<1>14. Flags'
  BY <1>1, <1>3, <1>6, <1>12 DEF Flags
<1>15. pc' # "entry"
  BY <1>1
<1> QED BY <1>1, <1>2, <1>3, <1>7, <1>8, <1>9, <1>13, <1>14, <1>15 DEF FileOK

\* It is followed to its last cluster.
LEMMA SeekFile ==
    ASSUME Types, Sound, Backing, Seek
    PROVE  FileOK'
<1> DEFINE c == Nth(fs.img, fil.first, Needed(fil.size) - 1)
           P == PerSector
<1>1. CASE pc' \notin Writing
  BY <1>1 DEF FileOK
<1>2. CASE pc' \in Writing
  <2>1. /\ fs.win = "fat" /\ TheFat = fs.img /\ pc = "seek" /\ pc \in Writing
        /\ fs' = fs /\ disk' = disk /\ from' = from
    BY DEF Seek, At, Wanted, TheFat, Writing
  <2>2. fil' = [fil EXCEPT !.clust = c] /\ name' = name /\ c # 0
        /\ pc' = IF [fil EXCEPT !.clust = c].size % P # 0 THEN "fill" ELSE "line"
    BY <1>2 DEF Seek, AfterSeek, Goto, Return, Writing
  <2> HIDE DEF c
  <2>3. /\ fil'.size = fil.size /\ fil'.first = fil.first /\ fil'.clust = c
        /\ fil'.sect = fil.sect /\ fil'.buf = fil.buf /\ fil'.dirty = fil.dirty
        /\ fil'.err = fil.err
        /\ pc' = IF fil.size % P # 0 THEN "fill" ELSE "line"
    BY <2>2 DEF Types, FilOK, Fils
  <2>4. TheDir' = TheDir /\ TheFat' = TheFat
    BY <2>1 DEF TheDir, TheFat
  <2>5. /\ FileHeld(fil, name, TheFat, disk[from].data) /\ Flags
        /\ Before(disk[from].dir, fil.first, fil.size, name)
        /\ Before(TheDir, fil.first, fil.size, name)
    BY <2>1 DEF Backing, FileOK
  <2>6. FileHeld(fil', name, TheFat, disk[from].data)
    BY <2>3, <2>5 DEF FileHeld
  <2>7. fil.size \in Nat /\ fil.size > 0
    BY <2>1, <2>5 DEF Types, FilOK, Fils, Flags
  <2>8. Sited(fil', TheFat)
    <3>1. \A k \in Nat : Last(fil.size, k) => k = Needed(fil.size) - 1
      BY <2>7, LastLemma
    <3> QED BY <2>1, <2>3, <3>1 DEF Sited, c
  <2>9. fil.size % P = 0 => Loaded(fil', TheFat)
    <3> SUFFICES ASSUME fil.size % P = 0, NEW k \in Nat, Last(fil.size, k) PROVE ~(fil.size < k * P + P)
      BY <2>3 DEF Loaded
    <3>1. fil.size = k * P + P
      BY <2>7, LastLemma
    <3>2. k * P \in Int /\ P \in Int
      BY ClustersLemma
    <3> QED BY <2>7, <3>1, <3>2
  <2>10. Position'
    BY <2>3, <2>4, <2>8, <2>9 DEF Position, Ready
  <2>11. Flags'
    BY <2>1, <2>3, <2>5 DEF Flags
  <2>12. pc' # "entry"
    BY <2>3
  <2> QED BY <2>1, <2>2, <2>3, <2>4, <2>5, <2>6, <2>10, <2>11, <2>12 DEF FileOK
<1> QED BY <1>1, <1>2

\* Its last sector is read.
LEMMA FillFile ==
    ASSUME Types, Sound, Backing, Fill, Touched => card = from
    PROVE  FileOK'
<1>1. CASE pc' \notin Writing
  BY <1>1 DEF FileOK
<1>2. CASE pc' \in Writing
  <2> DEFINE b == disk[card].data[fil.clust].n
  <2>1. /\ pc = "fill" /\ pc \in Writing /\ fs' = fs /\ disk' = disk /\ from' = from /\ from \in Cards
        /\ fil' = [fil EXCEPT !.sect = fil.clust, !.buf = b] /\ name' = name /\ pc' = "line"
        /\ card = from
    BY <1>2 DEF Fill, Goto, Return, Writing, Types, CallOK
  <2> HIDE DEF b
  <2>2. /\ fil'.size = fil.size /\ fil'.first = fil.first /\ fil'.clust = fil.clust
        /\ fil'.sect = fil.clust /\ fil'.buf = b /\ fil'.dirty = fil.dirty
        /\ fil'.err = fil.err
    BY <2>1 DEF Types, FilOK, Fils
  <2>3. TheDir' = TheDir /\ TheFat' = TheFat
    BY <2>1 DEF TheDir, TheFat
  <2>4. /\ FileHeld(fil, name, TheFat, disk[from].data) /\ Flags /\ Position
        /\ Before(disk[from].dir, fil.first, fil.size, name)
        /\ Before(TheDir, fil.first, fil.size, name)
    BY <2>1 DEF Backing, FileOK
  <2>5. fil.dirty = FALSE /\ Sited(fil, TheFat)
    BY <2>1, <2>4 DEF Flags, Position, Ready
  <2>6. FileHeld(fil', name, TheFat, disk[from].data)
    BY <2>2, <2>4, <2>5 DEF FileHeld
  <2>7. Sited(fil', TheFat)
    BY <2>2, <2>5 DEF Sited
  <2>8. Loaded(fil', TheFat)
    BY <2>1, <2>2, <2>4, <2>5 DEF Loaded, Sited, FileHeld, Last, b
  <2>9. Position' /\ Flags'
    BY <2>1, <2>2, <2>3, <2>4, <2>7, <2>8 DEF Position, Ready, Flags
  <2> QED BY <2>1, <2>2, <2>3, <2>4, <2>6, <2>9 DEF FileOK
<1> QED BY <1>1, <1>2

\* A line goes into the buffer, or waits for a cluster.
LEMMA LineTyped ==
    ASSUME Types, Sound, Backing, TypeLine
    PROVE  FileOK'
<1> DEFINE n == fil.size
           P == PerSector
           b == fil.buf + 1
<1>1. /\ pc = "line" /\ pc \in Writing /\ fs' = fs /\ disk' = disk /\ from' = from /\ name' = name
      /\ \/ pc' = pc /\ fil' = fil
         \/ ~fil.err /\ n % P = 0 /\ pc' = "create" /\ fil' = fil
         \/ ~fil.err /\ n % P # 0 /\ pc' = "line" /\ fil' = Buffered(fil, b)
  BY DEF TypeLine, Writing
<1>2. /\ TheDir' = TheDir /\ TheFat' = TheFat /\ from \in Cards
      /\ TheDir \in Dirs /\ TheFat \in Fats /\ disk[from].data \in [Clusters -> Sectors]
      /\ disk[from].dir \in Dirs
  BY <1>1, ViewTypes DEF TheDir, TheFat, Types, CallOK, Writing
<1>3. fil \in Fils /\ n \in Nat /\ fil.buf \in Nat /\ fil.err \in BOOLEAN /\ P \in Nat /\ P > 0
  BY ClustersLemma DEF Types, FilOK, Fils
<1>4. /\ FileHeld(fil, name, TheFat, disk[from].data) /\ Flags /\ Position
      /\ Before(disk[from].dir, fil.first, fil.size, name)
      /\ Before(TheDir, fil.first, fil.size, name)
  BY <1>1 DEF Backing, FileOK
<1>5. CASE pc' = pc /\ fil' = fil
  BY <1>1, <1>2, <1>5, FileStays DEF Backing
<1>6. CASE ~fil.err /\ n % P = 0 /\ pc' = "create" /\ fil' = fil
  <2>1. fil.err = FALSE
    BY <1>3, <1>6
  <2>2. Position' /\ Flags'
    BY <1>1, <1>2, <1>4, <1>6, <2>1 DEF Position, Ready, Flags
  <2> QED BY <1>1, <1>2, <1>4, <1>6, <2>2 DEF FileOK
<1>7. CASE ~fil.err /\ n % P # 0 /\ pc' = "line" /\ fil' = Buffered(fil, b)
  <2>1. fil.err = FALSE /\ n > 0 /\ b \in Nat
    BY <1>3, <1>7
  <2>2. fil' \in Fils
    BY <1>3, <1>7, <2>1, BufferedLemma
  <2>3. /\ fil'.size = n + 1 /\ fil'.first = fil.first /\ fil'.clust = fil.clust /\ fil'.sect = fil.sect
        /\ fil'.buf = b /\ fil'.dirty = TRUE /\ fil'.err = fil.err
    BY <1>3, <1>7, <2>1, BufferedFields
  <2>4. Sited(fil, TheFat) /\ Loaded(fil, TheFat)
    BY <1>1, <1>4, <2>1 DEF Position, Ready
  <2>5. PICK p \in Nat : Last(n, p) /\ n < p * P + P
    <3>1. PICK p \in Nat : Last(n, p)
      BY <1>3, <2>1, LastLemma
    <3>2. n < p * P + P
      BY <1>3, <1>7, <3>1, LastLemma
    <3> QED BY <3>1, <3>2
  <2>6. /\ fil.clust = Nth(TheFat, fil.first, p) /\ fil.sect = Nth(TheFat, fil.first, p)
        /\ Enough(fil.buf, n, p) /\ Nth(TheFat, fil.first, p) # 0
    BY <1>4, <2>4, <2>5 DEF Sited, Loaded, FileHeld, Last
  <2>7. p * P \in Int
    BY <1>3
  <2>8. Last(n + 1, p) /\ Enough(b, n + 1, p)
    BY <1>3, <2>5, <2>6, <2>7 DEF Last, Enough
  <2>9. ASSUME NEW k \in Nat, k * P < n, k # p
        PROVE  /\ Nth(TheFat, fil.first, k) # 0 /\ disk[from].data[Nth(TheFat, fil.first, k)].of = name
               /\ Enough(disk[from].data[Nth(TheFat, fil.first, k)].n, n, k)
    <3>1. ~Last(n, k)
      BY <1>3, <2>5, <2>9, LastLemma
    <3> QED BY <1>4, <2>9, <3>1 DEF FileHeld
  <2>10. FileHeld(fil', name, TheFat, disk[from].data) /\ Loaded(fil', TheFat)
    <3> DEFINE D == disk[from].data
    <3>1. PICK g : g = fil'
      OBVIOUS
    <3>2. OneMore(fil, g, p, TheFat)
      BY <2>3, <2>6, <2>8, <3>1 DEF OneMore
    <3>3. HeldBut(fil, p, name, TheFat, D)
      BY <2>9 DEF HeldBut
    <3>4. fil \in Fils /\ TheFat \in Fats /\ D \in [Clusters -> Sectors]
      BY <1>2, <1>3
    <3> HIDE DEF D
    <3>5. FileHeld(g, name, TheFat, D) /\ Loaded(g, TheFat)
      BY <3>2, <3>3, <3>4, MoreLines
    <3> QED BY <3>1, <3>5 DEF D
  <2>11. Sited(fil', TheFat)
    <3>1. \A k \in Nat : Last(n + 1, k) => k = p
      BY <1>3, <2>8, LastLemma
    <3> QED BY <2>3, <2>6, <3>1 DEF Sited
  <2>12. Position' /\ Flags'
    BY <1>2, <1>3, <1>7, <2>3, <2>10, <2>11 DEF Position, Ready, Flags
  <2>13. Before(disk[from].dir, fil'.first, fil'.size, name) /\ Before(TheDir, fil'.first, fil'.size, name)
    <3>1. \A g \in Files : disk[from].dir[g].size \in Int /\ TheDir[g].size \in Int
      BY <1>2, EntryTypes
    <3> QED BY <1>3, <1>4, <2>3, <3>1 DEF Before
  <2> QED BY <1>1, <1>2, <1>7, <2>10, <2>12, <2>13 DEF FileOK
<1> QED BY <1>1, <1>5, <1>6, <1>7

\* The buffer is on the card, and the next line is in it.
LEMMA BufferFlushed ==
    ASSUME Types, Sound, Backing, Flush, Touched => card = from
    PROVE  Backing'
<1> DEFINE n == fil.size
           P == PerSector
           h == [fil EXCEPT !.sect = fil.clust]
           g == Buffered(h, 1)
<1>1. /\ pc = "flush" /\ pc \in Writing /\ fs' = fs /\ from' = from /\ from \in Cards
      /\ fil \in Fils /\ n \in Nat /\ P \in Nat /\ P > 0 /\ fil.dirty \in BOOLEAN
  BY ClustersLemma DEF Flush, Types, CallOK, FilOK, Fils, Writing
<1>2. \/ fil.dirty = FALSE /\ pc' = "line" /\ fil' = g /\ name' = name /\ disk' = disk
      \/ fil.dirty = TRUE /\ WriteBuffer /\ pc' = "line" /\ fil' = g /\ name' = name
      \/ fil.dirty = TRUE /\ Abort /\ disk' = disk
  BY <1>1 DEF Flush, NextLine
<1>3. /\ TheFat \in Fats /\ TheDir \in Dirs /\ disk[from].dir \in Dirs
      /\ disk[from].data \in [Clusters -> Sectors]
  BY <1>1, ViewTypes
<1>4. /\ FileHeld(fil, name, TheFat, disk[from].data) /\ Flags /\ Position
      /\ Before(disk[from].dir, fil.first, fil.size, name)
      /\ Before(TheDir, fil.first, fil.size, name)
  BY <1>1 DEF Backing, FileOK
<1>5. n % P = 0 /\ Grows(fil, TheFat)
  BY <1>1, <1>4 DEF Position
<1>6. /\ h \in Fils /\ h.size = fil.size /\ h.first = fil.first /\ h.clust = fil.clust
      /\ h.sect = fil.clust /\ h.err = fil.err
  BY <1>1 DEF Fils
<1> HIDE DEF h
<1>7. /\ g.size = n + 1 /\ g.first = fil.first /\ g.clust = fil.clust /\ g.sect = fil.clust
      /\ g.buf = 1 /\ g.dirty = TRUE /\ g.err = fil.err
  <2> DEFINE one == 1
  <2>1. one \in Nat /\ g = Buffered(h, one)
    OBVIOUS
  <2> HIDE DEF one, g
  <2>2. /\ g.size = h.size + 1 /\ g.first = h.first /\ g.clust = h.clust /\ g.sect = h.sect
        /\ g.buf = one /\ g.dirty = TRUE /\ g.err = h.err
    BY <1>6, <2>1, BufferedFields
  <2> QED BY <1>6, <2>2 DEF one
<1> HIDE DEF g
<1>8. CASE /\ pc' = "line" /\ fil' = g /\ name' = name
           /\ \/ fil.dirty = FALSE /\ disk' = disk
              \/ fil.dirty = TRUE /\ WriteBuffer
  <2> DEFINE D == disk'[from].data
  <2>1. /\ Tables' /\ TheDir' = TheDir /\ TheFat' = TheFat
        /\ disk'[from].dir = disk[from].dir
        /\ Held(TheFat, D, fil.first, fil.size, name)
    <3>1. CASE fil.dirty = FALSE /\ disk' = disk
      <4>1. Kept
        BY <1>1, <3>1 DEF Kept
      <4>2. Tables'
        BY <3>1, <4>1, TablesKept DEF Backing
      <4>3. Held(TheFat, disk[from].data, fil.first, fil.size, name)
        BY <1>4, <3>1 DEF FileHeld, Held
      <4> QED BY <1>1, <3>1, <4>2, <4>3 DEF TheDir, TheFat
    <3>2. CASE fil.dirty = TRUE /\ WriteBuffer
      <4>1. card = from
        BY <3>2 DEF WriteBuffer, Put
      <4> QED BY <1>1, <3>2, <4>1, BufferWritten
    <3> QED BY <1>8, <3>1, <3>2
  <2>2. D \in [Clusters -> Sectors]
    <3>1. CASE disk' = disk
      BY <1>3, <3>1
    <3>2. CASE WriteBuffer
      <4>1. card = from /\ disk' = [disk EXCEPT ![card]["data"] =
               [disk[card].data EXCEPT ![fil.sect] = [of |-> name, n |-> fil.buf]]]
            /\ card # NoCard
        BY <3>2 DEF WriteBuffer, Put, Works
      <4>2. [disk[card].data EXCEPT ![fil.sect] = [of |-> name, n |-> fil.buf]]
               \in [Clusters -> Sectors]
        BY <1>1, <4>1, DataLemma DEF Types
      <4> DEFINE all == [disk[card].data EXCEPT ![fil.sect] = [of |-> name, n |-> fil.buf]]
      <4>3. disk' = [disk EXCEPT ![card]["data"] = all] /\ all \in [Clusters -> Sectors]
        BY <4>1, <4>2
      <4> HIDE DEF all
      <4>4. disk'[card].data = all
        BY <4>1, <4>3, PutLemma DEF Types
      <4> QED BY <4>1, <4>3, <4>4
    <3> QED BY <1>8, <3>1, <3>2
  <2> HIDE DEF D
  <2>3. PICK q \in Nat : n = q * P
    BY <1>1, <1>5, LastLemma
  <2>4. fil.clust = Nth(TheFat, fil.first, q) /\ fil.clust # 0
    BY <1>5, <2>3 DEF Grows
  <2>5. q * P \in Int
    BY <1>1
  <2>6. Last(n + 1, q) /\ Enough(1, n + 1, q)
    BY <1>1, <2>3, <2>5 DEF Last, Enough
  <2>7. OneMore(fil, g, q, TheFat)
    BY <1>7, <2>4, <2>6 DEF OneMore
  <2>8. HeldBut(fil, q, name, TheFat, D)
    BY <2>1 DEF Held, HeldBut
  <2>9. FileHeld(g, name, TheFat, D) /\ Loaded(g, TheFat)
    BY <1>1, <1>3, <2>2, <2>7, <2>8, MoreLines
  <2>10. Sited(g, TheFat)
    <3>1. n + 1 \in Nat
      BY <1>1
    <3>2. \A k \in Nat : Last(n + 1, k) => k = q
      BY <2>6, <3>1, LastLemma
    <3> QED BY <1>7, <2>4, <3>2 DEF Sited
  <2>11. Position' /\ Flags'
    BY <1>1, <1>7, <1>8, <2>1, <2>9, <2>10 DEF Position, Ready, Flags
  <2>12. Before(disk[from].dir, g.first, g.size, name) /\ Before(TheDir, g.first, g.size, name)
    <3>1. \A k \in Files : disk[from].dir[k].size \in Int /\ TheDir[k].size \in Int
      BY <1>3, EntryTypes
    <3> QED BY <1>1, <1>4, <1>7, <3>1 DEF Before
  <2>13. FileOK'
    BY <1>1, <1>8, <2>1, <2>9, <2>11, <2>12 DEF FileOK, D
  <2> QED BY <2>1, <2>13 DEF Backing
<1>9. CASE fil.dirty = TRUE /\ Abort /\ disk' = disk
  <2>1. pc' = "line" /\ fil' = [fil EXCEPT !.err = TRUE] /\ name' = name
    BY <1>1, <1>9 DEF Abort, NextLine
  <2>2. Kept
    BY <1>1, <1>9 DEF Kept
  <2>3. Tables'
    BY <1>9, <2>2, TablesKept DEF Backing
  <2>4. TheDir' = TheDir /\ TheFat' = TheFat
    BY <1>1, <1>9 DEF TheDir, TheFat
  <2>5. FileOK'
    BY <1>1, <1>9, <2>1, <2>4, FileStays DEF Backing
  <2> QED BY <2>3, <2>5 DEF Backing
<1> QED BY <1>2, <1>8, <1>9

\* The file is closed.
LEMMA FileClosed ==
    ASSUME Types, Sound, Backing, Close, Touched => card = from
    PROVE  Backing'
<1>1. /\ pc = "close" /\ pc \in Writing /\ fs' = fs /\ from' = from /\ from \in Cards
      /\ fil.dirty \in BOOLEAN
  BY DEF Close, Types, CallOK, FilOK, Fils, Writing
<1>2. /\ FileHeld(fil, name, TheFat, disk[from].data) /\ Flags
      /\ Before(disk[from].dir, fil.first, fil.size, name)
      /\ Before(TheDir, fil.first, fil.size, name)
  BY <1>1 DEF Backing, FileOK
<1>3. \/ pc' = "prompt" /\ disk' = disk
      \/ fil.dirty = FALSE /\ pc' = "entry" /\ fil' = fil /\ name' = name /\ disk' = disk
      \/ fil.dirty = TRUE /\ WriteBuffer /\ pc' = "entry" /\ fil' = fil /\ name' = name
  BY <1>1 DEF Close, Goto, Return
<1>4. CASE pc' = "prompt" /\ disk' = disk
  <2>1. Kept
    BY <1>1, <1>4 DEF Kept
  <2> QED BY <1>4, <2>1, BackingKept DEF Writing
<1>5. CASE /\ pc' = "entry" /\ fil' = fil /\ name' = name
           /\ \/ fil.dirty = FALSE /\ disk' = disk
              \/ fil.dirty = TRUE /\ WriteBuffer
  <2> DEFINE D == disk'[from].data
  <2>1. /\ Tables' /\ TheDir' = TheDir /\ TheFat' = TheFat
        /\ disk'[from].dir = disk[from].dir
        /\ Held(TheFat, D, fil.first, fil.size, name)
    <3>1. CASE fil.dirty = FALSE /\ disk' = disk
      <4>1. Kept
        BY <1>1, <3>1 DEF Kept
      <4>2. Tables'
        BY <3>1, <4>1, TablesKept DEF Backing
      <4>3. Held(TheFat, disk[from].data, fil.first, fil.size, name)
        BY <1>2, <3>1 DEF FileHeld, Held
      <4> QED BY <1>1, <3>1, <4>2, <4>3 DEF TheDir, TheFat
    <3>2. CASE fil.dirty = TRUE /\ WriteBuffer
      <4>1. card = from
        BY <3>2 DEF WriteBuffer, Put
      <4> QED BY <1>1, <3>2, <4>1, BufferWritten
    <3> QED BY <1>5, <3>1, <3>2
  <2> HIDE DEF D
  <2>2. FileHeld(fil, name, TheFat, D)
    BY <1>2, <2>1 DEF FileHeld, Held
  <2>3. Position' /\ Flags'
    BY <1>1, <1>2, <1>5 DEF Position, Ready, Flags
  <2>4. FileOK'
    BY <1>1, <1>2, <1>5, <2>1, <2>2, <2>3 DEF FileOK, D
  <2> QED BY <2>1, <2>4 DEF Backing
<1> QED BY <1>3, <1>4, <1>5

\* The file gets the cluster for its next line.
LEMMA ClusterTaken ==
    ASSUME Types, Sound, Backing, CreateChain
    PROVE  Backing'
<1> DEFINE n == fil.size
           P == PerSector
           tail == IF fil.size = 0 THEN 0 ELSE fil.clust
           c == Grown(fs.img, tail)
           new == Linked(fs.img, tail, c)
<1>1. /\ fs.win = "fat" /\ fs.img \in Fats /\ from \in Cards /\ pc = "create" /\ pc \in Writing
      /\ disk' = disk /\ from' = from /\ FilOK /\ FsOK /\ CallOK
  BY DEF CreateChain, At, Wanted, Types, CallOK, FsOK, Writing
<1>2. /\ TheFat = fs.img /\ VolOK(TheDir, TheFat) /\ Own(TheDir, TheFat, fil.first, {name})
      /\ FatOK(fs.img) /\ DirOK(TheDir, TheFat) /\ DirOK(disk[from].dir, TheFat)
  BY <1>1, CardDirLemma DEF Sound, MountedOK, VolOK, TaskOK, TheFat
<1>3. /\ TheDir \in Dirs /\ disk[from].dir \in Dirs /\ disk[from].data \in [Clusters -> Sectors]
      /\ fil \in Fils /\ n \in Nat /\ fil.first \in Links /\ P \in Nat /\ P > 0
      /\ tail \in Links
  BY <1>1, ViewTypes, ClustersLemma DEF FilOK, Fils, Links
<1>4. /\ FileHeld(fil, name, TheFat, disk[from].data)
      /\ Before(disk[from].dir, fil.first, fil.size, name)
      /\ Before(TheDir, fil.first, fil.size, name)
      /\ Sited(fil, TheFat) /\ n % P = 0
      /\ (n = 0 => fil.first = 0) /\ (fil.dirty = TRUE => n > 0)
  BY <1>1 DEF Backing, FileOK, Position, Ready, Flags
<1>5. /\ c \in {0, 1} \union Clusters
      /\ c \in Clusters => \/ tail # 0 /\ fs.img[tail] = c
                           \/ fs.img[c] = 0 /\ (tail = 0 \/ fs.img[tail] = EOC)
  <2> HIDE DEF tail
  <2> QED BY <1>1, <1>3, GrownLemma
<1>6. \/ /\ UNCHANGED fs /\ pc' = "line" /\ name' = name
         /\ \/ fil' = [fil EXCEPT !.err = TRUE]
            \/ fil' = [fil EXCEPT !.modified = TRUE]
      \/ /\ c \in Clusters /\ pc' = "flush" /\ name' = name
         /\ fil' = [fil EXCEPT !.clust = c, !.first = IF @ = 0 THEN c ELSE @]
         /\ \/ c \in ChainOf(fs.img, tail) /\ UNCHANGED fs
            \/ /\ c \notin ChainOf(fs.img, tail)
               /\ fs' = [fs EXCEPT !.img = new, !.wflag = TRUE, !.last = c]
  <2>1. c > 1 => c \in Clusters
    BY <1>5
  <2> HIDE DEF new
  <2> QED BY <1>1, <2>1 DEF CreateChain, Abort, NextLine, Goto, new
<1> HIDE DEF c, new
<1>7. CASE /\ UNCHANGED fs /\ pc' = "line" /\ name' = name
           /\ \/ fil' = [fil EXCEPT !.err = TRUE]
              \/ fil' = [fil EXCEPT !.modified = TRUE]
  <2>1. Kept
    BY <1>1, <1>7 DEF Kept
  <2>2. Tables'
    BY <1>1, <2>1, TablesKept DEF Backing
  <2>3. TheDir' = TheDir /\ TheFat' = TheFat
    BY <1>1, <1>7 DEF TheDir, TheFat
  <2>4. CASE fil' = [fil EXCEPT !.err = TRUE]
    <3>1. FileOK'
      BY <1>1, <1>7, <2>3, <2>4, FileStays DEF Backing
    <3> QED BY <2>2, <3>1 DEF Backing
  <2>5. CASE fil' = [fil EXCEPT !.modified = TRUE]
    <3>1. /\ fil'.size = fil.size /\ fil'.first = fil.first /\ fil'.clust = fil.clust
          /\ fil'.sect = fil.sect /\ fil'.buf = fil.buf /\ fil'.dirty = fil.dirty
          /\ fil'.err = fil.err
      BY <1>3, <2>5 DEF Fils
    <3>2. FileHeld(fil', name, TheFat, disk[from].data) /\ Sited(fil', TheFat)
      BY <1>4, <3>1 DEF FileHeld, Sited
    <3>3. Loaded(fil', TheFat)
      <4> SUFFICES ASSUME NEW k \in Nat, Last(n, k) PROVE ~(n < k * P + P)
        BY <3>1 DEF Loaded
      <4>1. n = k * P + P
        BY <1>3, <1>4, LastLemma
      <4>2. k * P \in Int
        BY <1>3
      <4> QED BY <1>3, <4>1, <4>2
    <3>4. Position' /\ Flags'
      BY <1>4, <1>7, <2>3, <3>1, <3>2, <3>3 DEF Position, Ready, Flags
    <3>5. FileOK'
      BY <1>1, <1>4, <1>7, <2>3, <3>1, <3>2, <3>4 DEF FileOK
    <3> QED BY <2>2, <3>5 DEF Backing
  <2> QED BY <1>7, <2>4, <2>5
<1>8. CASE /\ c \in Clusters /\ pc' = "flush" /\ name' = name
           /\ fil' = [fil EXCEPT !.clust = c, !.first = IF @ = 0 THEN c ELSE @]
           /\ \/ c \in ChainOf(fs.img, tail) /\ UNCHANGED fs
              \/ /\ c \notin ChainOf(fs.img, tail)
                 /\ fs' = [fs EXCEPT !.img = new, !.wflag = TRUE, !.last = c]
  <2>1. /\ fil'.size = fil.size /\ fil'.first = IF fil.first = 0 THEN c ELSE fil.first
        /\ fil'.clust = c /\ fil'.sect = fil.sect /\ fil'.buf = fil.buf /\ fil'.dirty = fil.dirty
        /\ fil'.err = fil.err
    BY <1>3, <1>8 DEF Fils
  <2>2. n > 0 => /\ tail = fil.clust /\ fil.first # 0
                 /\ \E p \in Nat : Last(n, p) /\ n = p * P + P /\ tail = Nth(TheFat, fil.first, p)
                                   /\ tail # 0
    <3> SUFFICES ASSUME n > 0
                 PROVE  /\ tail = fil.clust /\ fil.first # 0
                        /\ \E p \in Nat : Last(n, p) /\ n = p * P + P /\ tail = Nth(TheFat, fil.first, p)
                                          /\ tail # 0
      OBVIOUS
    <3>1. PICK p \in Nat : Last(n, p)
      BY <1>3, LastLemma
    <3>2. n = p * P + P
      BY <1>3, <1>4, <3>1, LastLemma
    <3>3. tail = Nth(TheFat, fil.first, p) /\ tail # 0
      BY <1>4, <3>1 DEF Sited, FileHeld, Last
    <3> QED BY <1>1, <3>1, <3>2, <3>3 DEF CallOK
  <2>3. n = 0 => tail = 0 /\ fil.first = 0
    BY <1>4
  <2>4. \A k \in Nat, p \in Nat : k * P = p * P + P => k = p + 1
    <3> SUFFICES ASSUME NEW k \in Nat, NEW p \in Nat, k * P = p * P + P PROVE k = p + 1
      OBVIOUS
    <3>1. (p + 1) * P = p * P + P
      BY <1>3
    <3>2. k < p + 1 => k * P + P <= (p + 1) * P
      BY <1>3
    <3>3. p + 1 < k => (p + 1) * P + P <= k * P
      BY <1>3
    <3>4. k * P \in Int /\ (p + 1) * P \in Int /\ p + 1 \in Int
      BY <1>3
    <3> QED BY <1>3, <3>1, <3>2, <3>3, <3>4
  <2> HIDE DEF tail
  <2>5. /\ TheDir' = TheDir /\ TheFat' \in Fats /\ Tables'
        /\ \A x \in Links : Longer(TheFat, TheFat', x)
        /\ tail # 0 => tail \in Clusters /\ TheFat'[tail] = c
        /\ TheFat[c] = 0 \/ n > 0
    <3>1. CASE c \in ChainOf(fs.img, tail) /\ UNCHANGED fs
      <4>1. tail # 0 /\ tail \in Clusters
        BY <1>1, <1>3, <3>1, EmptyLemma DEF Links
      <4>2. TheDir' = TheDir /\ TheFat' = TheFat
        BY <1>1, <3>1 DEF TheDir, TheFat
      <4>3. fs.img[tail] = c
        <5> SUFFICES ASSUME fs.img[c] = 0, fs.img[tail] = EOC PROVE FALSE
          BY <1>5, <1>8, <4>1
        <5>1. c # tail
          BY ClustersLemma
        <5>2. PICK y \in Clusters : fs.img[y] = c
          BY <1>1, <3>1, <4>1, <5>1, ChainLemma
        <5> QED BY <1>2, <1>8, <5>2 DEF FatOK
      <4>4. Kept
        BY <1>1, <3>1 DEF Kept
      <4>5. Tables'
        BY <1>1, <4>4, TablesKept DEF Backing
      <4>6. n > 0
        BY <1>3, <2>3, <4>1
      <4> QED BY <1>1, <1>2, <4>1, <4>2, <4>3, <4>5, <4>6 DEF Longer
    <3>2. CASE /\ c \notin ChainOf(fs.img, tail)
               /\ fs' = [fs EXCEPT !.img = new, !.wflag = TRUE, !.last = c]
      <4>1. tail # 0 => tail \in Clusters
        BY <1>3 DEF Links
      <4>2. fs.img[c] = 0 /\ (tail = 0 \/ fs.img[tail] = EOC)
        BY <1>1, <1>5, <1>8, <3>2, <4>1, ChainLemma
      <4>3. tail = 0 \/ (tail \in Clusters /\ fs.img[tail] = EOC)
        BY <4>1, <4>2
      <4>4. new \in Fats
        BY <1>1, <1>2, <1>8, <4>2, <4>3, LinkLemma DEF new
      <4>5. TheFat' = new /\ TheDir' = TheDir
        BY <1>1, <3>2 DEF FsOK, TheDir, TheFat
      <4>6. \A x \in Links : Longer(fs.img, new, x)
        BY <1>1, <1>8, <4>2, <4>3, <4>4, LinkKeeps DEF new
      <4>7. \A f \in Files : TheDir[f].first \in Links /\ disk[from].dir[f].first \in Links
        BY <1>3, EntryTypes
      <4>8. Tables'
        BY <1>1, <1>2, <4>5, <4>6, <4>7, TablesLinked DEF Backing
      <4>9. tail # 0 => new[tail] = c
        BY <4>1, <4>2, <1>8, ClustersLemma DEF new, Linked
      <4> QED BY <1>2, <4>1, <4>2, <4>4, <4>5, <4>6, <4>8, <4>9
    <3> QED BY <1>8, <3>1, <3>2
  <2>6. Longer(TheFat, TheFat', fil.first)
    BY <1>3, <2>5
  <2>7. FileHeld(fil', name, TheFat', disk[from].data)
    <3>1. CASE n = 0
      <4>1. \A k \in Nat : ~(k * P < 0)
        <5> SUFFICES ASSUME NEW k \in Nat PROVE k * P >= 0 /\ k * P \in Int
          OBVIOUS
        <5> QED BY <1>3
      <4> QED BY <2>1, <3>1, <4>1 DEF FileHeld
    <3>2. CASE n > 0
      <4>1. fil'.first = fil.first
        BY <2>1, <2>2, <3>2
      <4> QED BY <1>4, <2>1, <2>6, <4>1 DEF FileHeld, Longer
    <3> QED BY <1>3, <3>1, <3>2
  <2>8. Grows(fil', TheFat')
    <3>1. CASE n = 0
      <4>1. fil'.first = c /\ c \in Links /\ c # 0
        BY <1>8, <2>1, <2>3, <3>1, ClustersLemma DEF Links
      <4>2. \A k \in Nat : k * P = 0 => k = 0
        BY <1>3
      <4>3. Nth(TheFat', c, 0) = c
        BY <2>5, <4>1, StepLemma
      <4> QED BY <2>1, <3>1, <4>1, <4>2, <4>3 DEF Grows
    <3>2. CASE n > 0
      <4>1. PICK p \in Nat : /\ Last(n, p) /\ n = p * P + P /\ tail = Nth(TheFat, fil.first, p)
                             /\ tail # 0
        BY <2>2, <3>2
      <4>2. fil'.first = fil.first /\ c # 0
        BY <1>8, <2>1, <2>2, <3>2, ClustersLemma
      <4>3. Nth(TheFat', fil.first, p) = tail /\ TheFat'[tail] = c /\ tail \in Clusters
        BY <2>5, <2>6, <4>1 DEF Longer
      <4>4. Nth(TheFat', fil.first, p + 1) = c
        BY <1>3, <1>8, <2>5, <4>3, StepLemma
      <4>5. \A k \in Nat : k * P = n => k = p + 1
        BY <2>4, <4>1
      <4> QED BY <2>1, <4>2, <4>4, <4>5 DEF Grows
    <3> QED BY <1>3, <3>1, <3>2
  <2>9. Before(disk[from].dir, fil'.first, fil'.size, name) /\ Before(TheDir, fil'.first, fil'.size, name)
    <3>1. CASE fil.first # 0
      BY <1>4, <2>1, <3>1
    <3>2. CASE fil.first = 0
      <4>1. fil'.first = c /\ TheFat[c] = 0 /\ c # 0
        BY <1>3, <1>8, <2>1, <2>2, <2>5, <3>2, ClustersLemma
      <4>2. \A g \in Files : disk[from].dir[g].first # c /\ TheDir[g].first # c
        BY <1>2, <4>1 DEF DirOK, Begins
      <4> QED BY <4>1, <4>2 DEF Before
    <3> QED BY <3>1, <3>2
  <2>10. Position' /\ Flags'
    BY <1>4, <1>8, <2>1, <2>8 DEF Position, Ready, Flags
  <2>11. FileOK'
    BY <1>1, <1>8, <2>5, <2>7, <2>9, <2>10 DEF FileOK
  <2> QED BY <2>5, <2>11 DEF Backing
<1> QED BY <1>6, <1>7, <1>8

\* A sector is read into the window, which was clean.
LEMMA WindowLoaded ==
    ASSUME Types, Sound, Types', Sound', Backing, LoadWindow, Touched => card = from
    PROVE  Backing'
<1>1. /\ Wanted \in {"dir", "fat"} /\ fs.wflag = FALSE /\ pc # "flush"
      /\ disk' = disk /\ from' = from /\ FsOK
  BY DEF LoadWindow, Wanted, Types, FsOK
<1>2. from \in Cards => TheDir = disk[from].dir /\ TheFat = disk[from].fat
  BY <1>1 DEF Sound, CleanOK, TheDir, TheFat
<1>3. \/ /\ fs' = [fs EXCEPT !.win = Wanted, !.img = disk[from][Wanted]]
         /\ pc' = pc /\ fil' = fil /\ name' = name
      \/ fs' = [fs EXCEPT !.win = "none", !.img = 0] /\ Abort
  BY DEF LoadWindow, call
<1>4. \/ fs'.win = "dir" /\ fs'.img = disk[from].dir
      \/ fs'.win = "fat" /\ fs'.img = disk[from].fat
      \/ fs'.win = "none"
  BY <1>1, <1>3 DEF FsOK
<1>5. from \in Cards => TheDir' = disk'[from'].dir /\ TheFat' = disk'[from'].fat
  BY <1>1, <1>4 DEF TheDir, TheFat
<1>6. DisksHeld'
  BY <1>1 DEF Backing, Tables, DisksHeld
<1>7. Tables'
  BY <1>1, <1>5, <1>6, FreshLemma
<1>8. pc \in Writing => TheDir' = TheDir /\ TheFat' = TheFat
  BY <1>1, <1>2, <1>5 DEF Types, CallOK, Writing
<1>9. CASE pc' = pc /\ fil' = fil /\ name' = name
  <2>1. FileOK'
    BY <1>1, <1>8, <1>9, FileStays DEF Backing
  <2> QED BY <1>7, <2>1 DEF Backing
<1>10. CASE Abort
  BY <1>1, <1>7, <1>8, <1>10, BackingAborted
<1> QED BY <1>3, <1>9, <1>10

\* The window is written back, or the card does not answer.
LEMMA WindowSynced ==
    ASSUME Types, Sound, Types', Sound', Backing, SyncWindow \/ SyncFs, Touched => card = from
    PROVE  Backing'
<1>1. fs.wflag => fs.win # "none"
  BY DEF Types, FsOK
<1>2. /\ from' = from
      /\ \/ /\ Put(fs.win, fs.img) /\ fs.wflag /\ fs' = [fs EXCEPT !.wflag = FALSE]
            /\ pc' = "prompt" \/ (pc' = pc /\ fil' = fil /\ name' = name)
         \/ /\ UNCHANGED <<disk, fs>>
            /\ pc' = "prompt" \/ (Abort /\ pc # "flush")
  BY DEF SyncWindow, SyncFs, Return, Wanted, call
<1>3. CASE /\ Put(fs.win, fs.img) /\ fs.wflag /\ fs' = [fs EXCEPT !.wflag = FALSE]
           /\ pc' = "prompt" \/ (pc' = pc /\ fil' = fil /\ name' = name)
  <2>1. card = from /\ fs.win # "none"
    BY <1>1, <1>3 DEF Put
  <2>2. /\ Tables' /\ TheDir' = TheDir /\ TheFat' = TheFat
        /\ disk'[from].data = disk[from].data /\ disk'[from].dir = TheDir
    BY <1>2, <1>3, <2>1, SyncTables DEF Backing
  <2>3. CASE pc' = "prompt"
    BY <2>2, <2>3 DEF Backing, FileOK, Writing
  <2>4. CASE pc' = pc /\ fil' = fil /\ name' = name
    <3>1. FileOK'
      BY <1>2, <2>2, <2>4, FileStays DEF Backing
    <3> QED BY <2>2, <3>1 DEF Backing
  <2> QED BY <1>3, <2>3, <2>4
<1>4. CASE /\ UNCHANGED <<disk, fs>>
           /\ pc' = "prompt" \/ (Abort /\ pc # "flush")
  <2>1. Kept
    BY <1>2, <1>4 DEF Kept
  <2>2. Tables'
    BY <1>4, <2>1, TablesKept DEF Backing
  <2>3. TheDir' = TheDir /\ TheFat' = TheFat
    BY <1>2, <1>4 DEF TheDir, TheFat
  <2>4. CASE pc' = "prompt"
    BY <2>2, <2>4 DEF Backing, FileOK, Writing
  <2>5. CASE Abort /\ pc # "flush"
    BY <1>2, <1>4, <2>2, <2>3, <2>5, BackingAborted
  <2> QED BY <1>4, <2>4, <2>5
<1> QED BY <1>2, <1>3, <1>4

\* A new file has no lines, and no cluster.
LEMMA NewOpened ==
    ASSUME Types, Sound, Backing, OpenNew
    PROVE  Backing'
<1>1. /\ fs.win = "dir" /\ name \in Files /\ fs.img \in Dirs /\ from \in Cards
      /\ fs'.win = "dir" /\ fs'.img = [fs.img EXCEPT ![name] = New]
      /\ disk' = disk /\ from' = from /\ name' = name
      /\ pc' = "line" /\ fil' = Opened(New, TRUE)
  BY DEF OpenNew, At, Wanted, Types, CallOK, FsOK, Dirtied, Goto
<1>2. TheDir = fs.img /\ TheDir' = [fs.img EXCEPT ![name] = New] /\ TheFat' = TheFat
  BY <1>1 DEF TheDir, TheFat
<1>3. \A f \in Files : TheDir'[f] = IF f = name THEN New ELSE TheDir[f]
  BY <1>1, <1>2 DEF Dirs
<1>4. /\ fil'.size = 0 /\ fil'.first = 0 /\ fil'.dirty = FALSE /\ fil'.err = FALSE
      /\ New.size = 0 /\ New.first = 0
  BY <1>1 DEF New, Opened, NoFile
<1>5. \A k \in Nat : ~(k * PerSector < 0)
  <2> SUFFICES ASSUME NEW k \in Nat PROVE k * PerSector \in Int /\ k * PerSector >= 0
    OBVIOUS
  <2>1. PerSector \in Nat
    BY ClustersLemma
  <2> QED BY <2>1
<1>6. Held(TheFat, disk[from].data, New.first, New.size, name)
  BY <1>4, <1>5 DEF Held
<1>7. Before(disk[from].dir, New.first, New.size, name)
  BY <1>4 DEF Before
<1>8. Tables'
  BY <1>1, <1>2, <1>3, <1>4, <1>6, <1>7, TablesEntered DEF Backing
<1>9. FileHeld(fil', name', TheFat', disk'[from'].data)
  BY <1>4, <1>5 DEF FileHeld
<1>10. Position' /\ Flags'
  BY <1>1, <1>4, <1>5 DEF Position, Ready, Sited, Loaded, Last, Flags
<1>11. Before(disk'[from'].dir, fil'.first, fil'.size, name') /\ Before(TheDir', fil'.first, fil'.size, name')
  BY <1>4 DEF Before
<1>12. FileOK'
  BY <1>1, <1>9, <1>10, <1>11 DEF FileOK
<1> QED BY <1>8, <1>12 DEF Backing

\* The last line is typed.
LEMMA DotTyped ==
    ASSUME Types, Backing, TypeDot
    PROVE  Backing'
<1>1. /\ Kept /\ disk' = disk /\ from' = from /\ fil' = fil /\ name' = name
      /\ pc = "line" /\ pc' = "close" /\ TheDir' = TheDir /\ TheFat' = TheFat
  BY DEF TypeDot, Goto, Kept, TheDir, TheFat
<1>2. Tables'
  BY <1>1, TablesKept DEF Backing
<1>3. FileOK'
  BY <1>1 DEF Backing, FileOK, Position, Ready, Flags, Writing
<1> QED BY <1>2, <1>3 DEF Backing

\* rm takes the entry, then frees a chain that is in no entry.
LEMMA FileRemoved ==
    ASSUME Types, Sound, Types', Backing, RemoveEntry \/ RemoveChain
    PROVE  Backing'
<1>1. pc' \in {"chain", "sync"} /\ disk' = disk /\ from' = from
  BY DEF RemoveEntry, RemoveChain, Goto
<1>2. FileOK'
  BY <1>1 DEF FileOK, Writing
<1>3. CASE RemoveEntry
  <2>1. /\ fs.win = "dir" /\ name \in Files /\ fs.img \in Dirs /\ from \in Cards
        /\ fs'.win = "dir" /\ fs'.img = [fs.img EXCEPT ![name] = Absent]
    BY <1>3 DEF RemoveEntry, At, Wanted, Types, CallOK, FsOK, Dirtied
  <2>2. TheDir = fs.img /\ TheDir' = [fs.img EXCEPT ![name] = Absent] /\ TheFat' = TheFat
    BY <1>1, <2>1 DEF TheDir, TheFat
  <2>3. \A f \in Files : TheDir'[f] = IF f = name THEN Absent ELSE TheDir[f]
    BY <2>1, <2>2 DEF Dirs
  <2>4. Absent.size = -1 /\ Absent.first = 0
    BY DEF Absent
  <2>5. Held(TheFat, disk[from].data, Absent.first, Absent.size, name)
    BY <2>4, NoneHeld
  <2>6. Before(disk[from].dir, Absent.first, Absent.size, name)
    BY <2>4 DEF Before
  <2>7. Tables'
    BY <1>1, <2>1, <2>2, <2>3, <2>4, <2>5, <2>6, TablesEntered DEF Backing
  <2> QED BY <1>2, <2>7 DEF Backing
<1>4. CASE RemoveChain
  <2> DEFINE a == fil.first
             new == [k \in Clusters |-> IF k \in ChainOf(fs.img, a) THEN 0 ELSE fs.img[k]]
  <2>1. /\ fs.win = "fat" /\ fs.img \in Fats /\ from \in Cards /\ a # 0
        /\ fs'.win = "fat" /\ fs'.img = new /\ pc = "chain"
    BY <1>4 DEF RemoveChain, At, Wanted, Types, CallOK, FsOK, Dirtied
  <2>2. TheFat = fs.img /\ TheFat' = new /\ TheDir = disk[from].dir /\ TheDir' = TheDir
    BY <1>1, <2>1 DEF TheDir, TheFat
  <2>3. new \in Fats
    BY <2>1, <2>2 DEF Types, FsOK
  <2>4. /\ FatOK(TheFat) /\ Begins(TheFat, a) /\ DirOK(TheDir, TheFat)
        /\ \A g \in Files : TheDir[g].first # a
    BY <2>1, <2>2 DEF Sound, MountedOK, VolOK, TaskOK, Own
  <2>5. TheFat \in Fats /\ new = [k \in Clusters |-> IF k \in ChainOf(TheFat, a) THEN 0 ELSE TheFat[k]]
    BY <2>1, <2>2
  <2> HIDE DEF new, a
  <2>6. ASSUME NEW f \in Files
        PROVE  Longer(TheFat, new, TheDir[f].first)
    <3> DEFINE x == TheDir[f].first
    <3>1. x \in Links /\ (x # 0 => Begins(TheFat, x)) /\ x # a
      BY <2>1, <2>4, ViewTypes, EntryTypes DEF DirOK
    <3> HIDE DEF x
    <3>2. Longer(TheFat, new, x)
      BY <2>3, <2>4, <2>5, <3>1, FreeKeeps
    <3> QED BY <3>2 DEF x
  <2>7. Tables'
    BY <1>1, <2>1, <2>2, <2>6, TablesLinked DEF Backing
  <2> QED BY <1>2, <2>7 DEF Backing
<1> QED BY <1>3, <1>4

\* The entry gets the lines that the card holds by now.
LEMMA EntryWritten ==
    ASSUME Types, Sound, Backing, WriteEntry
    PROVE  Backing'
<1> DEFINE e == [size |-> fil.size, first |-> fil.first]
<1>1. /\ fs.win = "dir" /\ name \in Files /\ fs.img \in Dirs /\ from \in Cards
      /\ fs'.win = "dir" /\ fs'.img = [fs.img EXCEPT ![name] = e]
      /\ disk' = disk /\ from' = from
      /\ pc = "entry" /\ pc \in Writing /\ pc' = "sync"
  BY DEF WriteEntry, At, Wanted, Types, CallOK, FsOK, Dirtied, Goto, Writing
<1>2. TheDir = fs.img /\ TheDir' = [fs.img EXCEPT ![name] = e] /\ TheFat' = TheFat
  BY <1>1 DEF TheDir, TheFat
<1>3. \A f \in Files : TheDir'[f] = IF f = name THEN e ELSE TheDir[f]
  BY <1>1, <1>2 DEF Dirs
<1>4. e.first = fil.first /\ e.size = fil.size
  OBVIOUS
<1> HIDE DEF e
<1>5. Held(TheFat, disk[from].data, e.first, e.size, name)
  BY <1>1, <1>4 DEF Backing, FileOK
<1>6. e.size = 0 => e.first = 0
  BY <1>1, <1>4 DEF Backing, FileOK, Flags
<1>7. Before(disk[from].dir, e.first, e.size, name)
  BY <1>1, <1>4 DEF Backing, FileOK
<1>8. Tables'
  BY <1>1, <1>2, <1>3, <1>5, <1>6, <1>7, TablesEntered DEF Backing
<1> QED BY <1>1, <1>8 DEF Backing, FileOK, Writing

\* Every step that touches no other card keeps the lines of all files.
LEMMA BackingLemma ==
    ASSUME Types, Sound, Types', Sound', Touched => card = from, Backing, [Next]_vars
    PROVE  Backing'
<1>t. WorldOK /\ FsOK /\ FilOK /\ CallOK
  BY DEF Types
<1>1. CASE \/ Remove \/ (\E c \in Cards : Insert(c)) \/ mount \/ unmount
           \/ (\E o, f : Command(o, f)) \/ StillMounted \/ LookUp_Nothing \/ UNCHANGED vars
  <2>1. Kept /\ disk' = disk
    BY <1>t, <1>1 DEF Remove, Insert, mount, unmount, Command, StillMounted, LookUp_Nothing, vars,
                      Kept, FsOK
  <2>2. pc' \notin Writing \/ (pc' = pc /\ fil' = fil /\ name' = name)
    BY <1>1 DEF Remove, Insert, mount, unmount, Command, StillMounted, AfterVolume, Return, Goto,
                LookUp_Nothing, vars, call, Writing
  <2> QED BY <2>1, <2>2, BackingKept
<1>2. CASE Reset \/ MountVolume
  <2>1. pc' \in {"prompt", "lookup"} /\ disk' = disk
    BY <1>2 DEF Reset, MountVolume, AfterVolume, Return, Goto
  <2>2. pc' \notin Writing
    BY <2>1 DEF Writing
  <2>3. fs'.win = "none" \/ (fs' = [fs EXCEPT !.type = FALSE] /\ from' = from)
    <3>1. \/ fs' = Unmounted
          \/ fs' = [Unmounted EXCEPT !.type = TRUE, !.id = TRUE]
          \/ fs' = [fs EXCEPT !.type = FALSE] /\ from' = from
      BY <1>2 DEF Reset, MountVolume
    <3>2. Unmounted.win = "none" /\ [Unmounted EXCEPT !.type = TRUE, !.id = TRUE].win = "none"
      BY DEF Unmounted
    <3> QED BY <3>1, <3>2
  <2>4. CASE fs'.win = "none"
    <3>1. DisksHeld'
      BY <2>1 DEF Backing, Tables, DisksHeld
    <3>2. TheDir' = disk'[from'].dir /\ TheFat' = disk'[from'].fat
      BY <2>4 DEF TheDir, TheFat
    <3>3. Tables'
      BY <3>1, <3>2, FreshLemma
    <3> QED BY <2>2, <3>3 DEF Backing, FileOK
  <2>5. CASE fs' = [fs EXCEPT !.type = FALSE] /\ from' = from
    <3>1. Kept
      BY <1>t, <2>1, <2>5 DEF Kept, FsOK
    <3> QED BY <2>1, <2>2, <3>1, BackingKept
  <2> QED BY <2>3, <2>4, <2>5
<1>3. CASE SyncWindow \/ SyncFs
  BY <1>3, WindowSynced
<1>4. CASE LoadWindow
  BY <1>4, WindowLoaded
<1>5. CASE OpenNew
  BY <1>5, NewOpened
<1>6. CASE OpenAppend \/ Seek \/ Fill \/ TypeLine
  <2>1. Kept /\ disk' = disk
    BY <1>6 DEF OpenAppend, Seek, Fill, TypeLine, Kept
  <2>2. Tables'
    BY <2>1, TablesKept DEF Backing
  <2>3. FileOK'
    BY <1>6, AppendOpened, SeekFile, FillFile, LineTyped
  <2> QED BY <2>2, <2>3 DEF Backing
<1>7. CASE TypeDot
  BY <1>7, DotTyped
<1>8. CASE RemoveEntry \/ RemoveChain
  BY <1>8, FileRemoved
<1>9. CASE CreateChain
  BY <1>9, ClusterTaken
<1>10. CASE Flush
  BY <1>10, BufferFlushed
<1>11. CASE Close
  BY <1>11, FileClosed
<1>12. CASE WriteEntry
  BY <1>12, EntryWritten
<1> QED BY <1>1, <1>2, <1>3, <1>4, <1>5, <1>6, <1>7, <1>8, <1>9, <1>10, <1>11, <1>12 DEF Next

\* Before anything happens there is no file.
LEMMA InitBacking == Init => Backing
<1> SUFFICES ASSUME Init PROVE Backing
  OBVIOUS
<1>1. \A c \in Cards : disk[c] = Blank
  BY DEF Init
<1>2. \A f \in Files : Blank.dir[f].size = -1 /\ Blank.dir[f].first = 0
  BY DEF Blank, Absent
<1>3. AllHeld(Blank.dir, Blank.fat, Blank.data)
  BY <1>2, NoneHeld DEF AllHeld
<1>4. DisksHeld
  BY <1>1, <1>3 DEF DisksHeld
<1>5. ViewHeld /\ Prefix /\ Mixed
  BY ConstantsLemma DEF Init, ViewHeld, Prefix, Mixed
<1>6. FileOK
  BY DEF Init, FileOK, Writing
<1> QED BY <1>4, <1>5, <1>6 DEF Tables, Backing

\* The inductive invariant of EntryIsBacked.
BInv == IInv /\ (crossed = FALSE => Backing)

\* The invariant is inductive.
LEMMA NextBacking == BInv /\ [Next]_vars => BInv'
<1> SUFFICES ASSUME BInv, [Next]_vars PROVE BInv'
  OBVIOUS
<1>1. IInv /\ IInv'
  BY NextSound DEF BInv
<1>2. ASSUME crossed' = FALSE PROVE Backing'
  <2>1. crossed = FALSE /\ (Touched => card = from)
    BY <1>1, <1>2, CrossedLemma, TouchedLemma DEF IInv
  <2>2. Types /\ Sound /\ Types' /\ Sound' /\ Backing
    BY <1>1, <1>2, <2>1 DEF IInv, BInv
  <2> QED BY <2>1, <2>2, BackingLemma
<1> QED BY <1>1, <1>2 DEF BInv

\* For any files, cards and sizes of sectors, and wherever the program is
\* interrupted or an access fails: the lines of a file of which the directory of
\* a card tells are in the file's clusters (ff.c:4008, 4120, 5007).
THEOREM BackedTheorem == Spec => []EntryIsBacked
<1>1. Init => BInv
  BY InitSound, InitBacking DEF BInv
<1>2. BInv => EntryIsBacked
  <2> SUFFICES ASSUME BInv, ~crossed, NEW c \in Cards, NEW f \in Files, disk[c].dir[f] # Absent
               PROVE  Backed(c, f)
    BY DEF EntryIsBacked
  <2>1. crossed = FALSE
    BY DEF BInv, IInv
  <2>2. disk \in [Cards -> Volumes]
    BY DEF BInv, IInv, Types, WorldOK
  <2>3. Held(disk[c].fat, disk[c].data, disk[c].dir[f].first, disk[c].dir[f].size, f)
    BY <2>1 DEF BInv, Backing, Tables, DisksHeld, AllHeld
  <2> QED BY <2>2, <2>3, BackedLemma
<1> QED BY <1>1, <1>2, NextBacking, PTL DEF Spec

-----------------------------------------------------------------------------
(* What a command has promised.                                              *)

Commands == {"append", "input", "rm"}

\* Between commands there is none; a command on a file has its name, and only
\* append and input write.
Calls ==
    /\ trouble \in BOOLEAN /\ want \in Nat
    /\ pc = "prompt" => op = "none"
    /\ pc \in {"prompt", "volume", "lookup"} => want = 0
    /\ op \in Commands => name \in Files
    /\ pc \in Writing => op \in {"append", "input"}
    /\ pc \in {"seek", "fill"} => op = "append" /\ want = 0
    /\ pc = "chain" => op = "rm"

\* As long as nothing has failed the file counts every line typed, and it is
\* marked as modified if there is anything to write.
Counted ==
    pc \in Writing /\ trouble = FALSE =>
        /\ op = "input" => fil.modified = TRUE
        /\ pc \in {"create", "flush"} => want = fil.size + 1
        /\ pc \in {"line", "close", "entry"} =>
             /\ want = 0 \/ want = fil.size
             /\ op = "input" /\ want = 0 => fil.size = 0
             /\ want > 0 => fil.modified = TRUE

\* Of the three commands only an append of no lines promises nothing.
Due == op \in Commands /\ (op = "append" => want > 0)

Final == IF op = "rm" THEN Absent.size ELSE want

\* The entry is as promised before the last write of the window.
Entered ==
    /\ pc = "chain" => TheDir[name].size = Absent.size
    /\ pc = "sync" /\ trouble = FALSE /\ Due => TheDir[name].size = Final

Promise == Calls /\ Counted /\ (crossed = FALSE => Entered)

\* What becomes of trouble when a command ends or a line fails.
LEMMA TroubleLemma ==
    ASSUME trouble \in BOOLEAN, NEW bad \in BOOLEAN, trouble' = (trouble \/ bad)
    PROVE  trouble' \in BOOLEAN /\ (trouble' = FALSE => trouble = FALSE /\ bad = FALSE)
<1>1. CASE trouble = TRUE
  BY <1>1, Zenon
<1>2. CASE trouble = FALSE
  <2>1. CASE bad = TRUE
    BY <1>2, <2>1, Zenon
  <2>2. CASE bad = FALSE
    BY <1>2, <2>2, Zenon
  <2> QED BY <2>1, <2>2
<1> QED BY <1>1, <1>2

\* The command is over.
LEMMA ReturnLemma ==
    ASSUME trouble \in BOOLEAN, NEW bad \in BOOLEAN, Return(bad)
    PROVE  /\ pc' = "prompt" /\ op' = "none" /\ want' = 0
           /\ trouble' \in BOOLEAN /\ (trouble' = FALSE => trouble = FALSE /\ bad = FALSE)
<1>1. trouble' = (trouble \/ bad) /\ pc' = "prompt" /\ op' = "none" /\ want' = 0
  BY DEF Return
<1> QED BY <1>1, TroubleLemma

\* The loop of input and append goes on.
LEMMA NextLineLemma ==
    ASSUME trouble \in BOOLEAN, NEW bad \in BOOLEAN, NEW f, NextLine(bad, f)
    PROVE  /\ pc' = "line" /\ fil' = f /\ UNCHANGED <<op, name, want>>
           /\ trouble' \in BOOLEAN /\ (trouble' = FALSE => trouble = FALSE /\ bad = FALSE)
<1>1. trouble' = (trouble \/ bad) /\ pc' = "line" /\ fil' = f /\ UNCHANGED <<op, name, want>>
  BY DEF NextLine
<1> QED BY <1>1, TroubleLemma

\* An access that fails leaves its trace.
LEMMA AbortLemma ==
    ASSUME trouble \in BOOLEAN, Abort
    PROVE  /\ trouble' = TRUE
           /\ \/ pc \in {"create", "flush"} /\ pc' = "line" /\ UNCHANGED <<op, name, want>>
              \/ pc' = "prompt" /\ op' = "none" /\ want' = 0
<1>1. CASE pc \in {"create", "flush"}
  <2>1. NextLine(TRUE, [fil EXCEPT !.err = TRUE])
    BY <1>1 DEF Abort
  <2> DEFINE f == [fil EXCEPT !.err = TRUE]
  <2> HIDE DEF f
  <2>2. NextLine(TRUE, f)
    BY <2>1 DEF f
  <2> QED BY <1>1, <2>2, NextLineLemma
<1>2. CASE pc \notin {"create", "flush"}
  <2>1. Return(TRUE)
    BY <1>2 DEF Abort
  <2> QED BY <2>1, ReturnLemma
<1> QED BY <1>1, <1>2

\* A line is typed: it counts, if nothing failed, and goes into the buffer or
\* waits for a cluster.
LEMMA LineCounted ==
    ASSUME Types, Calls, TypeLine
    PROVE  /\ pc = "line" /\ want' = (IF want = 0 THEN fil.size ELSE want) + 1
           /\ UNCHANGED <<op, name>> /\ trouble' \in BOOLEAN
           /\ trouble' = FALSE =>
                /\ trouble = FALSE
                /\ \/ pc' = "create" /\ fil' = fil
                   \/ /\ pc' = "line" /\ fil'.size = fil.size + 1 /\ fil'.modified = TRUE
<1>1. /\ pc = "line" /\ want' = (IF want = 0 THEN fil.size ELSE want) + 1
      /\ UNCHANGED <<op, name>> /\ trouble' = (trouble \/ Fails \/ fil.err)
      /\ \/ Fails \/ fil.err
         \/ pc' = "create" /\ fil' = fil
         \/ pc' = "line" /\ fil' = Buffered(fil, fil.buf + 1)
  BY DEF TypeLine
<1>2. fil \in Fils /\ fil.err \in BOOLEAN /\ trouble \in BOOLEAN
  BY DEF Types, FilOK, Fils, Calls
<1>3. PICK bad \in BOOLEAN : bad = (Fails \/ fil.err)
  BY Zenon
<1>4. trouble' = (trouble \/ bad)
  BY <1>1, <1>3, Zenon
<1>5. trouble' \in BOOLEAN /\ (trouble' = FALSE => trouble = FALSE /\ bad = FALSE)
  BY <1>2, <1>4, TroubleLemma
<1>6. bad = FALSE => ~(Fails \/ fil.err)
  BY <1>3, Zenon
<1>7. fil' = Buffered(fil, fil.buf + 1) => fil'.size = fil.size + 1 /\ fil'.modified = TRUE
  BY <1>2 DEF Buffered, Fils
<1> QED BY <1>1, <1>5, <1>6, <1>7

\* A command goes on, has ended, or marks its file and types the next line.
Continues ==
    /\ UNCHANGED <<op, name, want, trouble>>
    /\ \/ pc' = pc
       \/ pc = "volume" /\ pc' = "lookup"
       \/ pc = "lookup" /\ op = "append" /\ pc' \in {"seek", "fill", "line"}
       \/ pc = "lookup" /\ op = "input" /\ pc' = "line"
       \/ pc = "lookup" /\ op = "rm" /\ pc' \in {"chain", "sync"}
       \/ pc \in Writing /\ pc' \in {"fill", "line"} /\ op = "append" /\ want = 0
       \/ pc \in Writing /\ pc' \in {"flush", "close", "entry", "sync"}
       \/ pc = "chain" /\ pc' = "sync"

\* A new command begins.
Fresh ==
    /\ pc' = "volume" /\ trouble' = FALSE /\ want' = 0
    /\ op' \in Commands => name' \in Files

\* Every step is of one of these kinds.
LEMMA StepsLemma ==
    ASSUME Types, Calls, [Next]_vars
    PROVE  \/ Continues \/ Fresh \/ (\E bad \in BOOLEAN : Return(bad)) \/ Abort
           \/ (\E bad \in BOOLEAN : \E f : NextLine(bad, f)) /\ pc \in {"create", "flush"}
           \/ TypeLine
<1>1. CASE Remove \/ (\E c \in Cards : Insert(c)) \/ unmount \/ UNCHANGED vars
  BY <1>1 DEF Remove, Insert, unmount, vars, call, Continues
<1>2. CASE Reset \/ LookUp_Nothing
  BY <1>2 DEF Reset, LookUp_Nothing
<1>3. CASE mount
  BY <1>3 DEF mount, Fresh, Calls, Commands
<1>4. CASE Command("ls", "none") \/ \E f \in Files : Command("append", f) \/ Command("input", f) \/ Command("rm", f)
  BY <1>4 DEF Command, Fresh, Commands
<1>5. CASE StillMounted \/ MountVolume
  <2>1. pc = "volume" /\ (AfterVolume \/ Return(TRUE))
    BY <1>5 DEF StillMounted, MountVolume
  <2> QED BY <2>1 DEF AfterVolume, Goto, Continues
<1>6. CASE SyncWindow \/ LoadWindow
  BY <1>6 DEF SyncWindow, LoadWindow, call, Continues
<1>7. CASE SyncFs
  BY <1>7 DEF SyncFs
<1>8. CASE OpenNew \/ OpenAppend \/ RemoveEntry \/ RemoveChain
  BY <1>8 DEF OpenNew, OpenAppend, RemoveEntry, RemoveChain, At, AfterSeek, Goto, Continues
<1>9. CASE Seek \/ Fill
  <2>1. Return(TRUE) \/ (pc \in {"seek", "fill"} /\ pc' \in {"fill", "line"} /\ UNCHANGED <<op, name, want, trouble>>)
    BY <1>9 DEF Seek, Fill, At, AfterSeek, Goto
  <2> QED BY <2>1 DEF Calls, Continues, Writing
<1>10. CASE TypeLine
  BY <1>10
<1>11. CASE TypeDot \/ WriteEntry
  BY <1>11 DEF TypeDot, WriteEntry, At, Goto, Continues, Writing
<1>12. CASE CreateChain
  <2>1. pc = "create" /\ (Abort \/ (\E f : NextLine(TRUE, f)) \/ (\E f : Goto("flush", f)))
    BY <1>12, Zenon DEF CreateChain, At
  <2> QED BY <2>1 DEF Goto, Continues, Writing
<1>13. CASE Flush
  <2>1. pc = "flush" /\ (Abort \/ (\E f : NextLine(FALSE, f)))
    BY <1>13, Zenon DEF Flush
  <2> QED BY <2>1
<1>14. CASE Close
  <2>1. pc = "close" /\ (Return(TRUE) \/ Return(FALSE) \/ Goto("entry", fil))
    BY <1>14 DEF Close
  <2> QED BY <2>1 DEF Goto, Continues, Writing
<1> QED BY <1>1, <1>2, <1>3, <1>4, <1>5, <1>6, <1>7, <1>8, <1>9, <1>10, <1>11, <1>12, <1>13, <1>14 DEF Next

\* What a command is stays true of it.
LEMMA CallsLemma ==
    ASSUME Types, Calls, [Next]_vars
    PROVE  Calls'
<1>1. CASE Continues
  BY <1>1 DEF Continues, Calls, Commands, Writing
<1>2. CASE Fresh
  BY <1>2 DEF Fresh, Calls, Writing
<1>3. CASE \E bad \in BOOLEAN : Return(bad)
  <2>1. pc' = "prompt" /\ op' = "none" /\ want' = 0 /\ trouble' \in BOOLEAN
    BY <1>3, ReturnLemma DEF Calls
  <2> QED BY <2>1 DEF Calls, Commands, Writing
<1>4. CASE Abort
  <2>1. /\ trouble' = TRUE
        /\ \/ pc \in {"create", "flush"} /\ pc' = "line" /\ UNCHANGED <<op, name, want>>
           \/ pc' = "prompt" /\ op' = "none" /\ want' = 0
    BY <1>4, AbortLemma DEF Calls
  <2> QED BY <2>1 DEF Calls, Commands, Writing
<1>5. CASE (\E bad \in BOOLEAN : \E f : NextLine(bad, f)) /\ pc \in {"create", "flush"}
  <2>1. pc' = "line" /\ UNCHANGED <<op, name, want>> /\ trouble' \in BOOLEAN
    BY <1>5, NextLineLemma DEF Calls
  <2> QED BY <1>5, <2>1 DEF Calls, Writing
<1>6. CASE TypeLine
  <2>1. /\ pc = "line" /\ want' = (IF want = 0 THEN fil.size ELSE want) + 1
        /\ UNCHANGED <<op, name>> /\ trouble' \in BOOLEAN
    BY <1>6, LineCounted
  <2>2. pc' \in {"line", "create"}
    BY <1>6, <2>1 DEF TypeLine
  <2>3. want' \in Nat
    BY <2>1 DEF Types, FilOK, Fils, Calls
  <2> QED BY <2>1, <2>2, <2>3 DEF Calls, Writing
<1> QED BY <1>1, <1>2, <1>3, <1>4, <1>5, <1>6, StepsLemma

\* A step that leaves the open file as it is.
LEMMA CountedStays ==
    ASSUME Counted, UNCHANGED <<op, want, trouble>>, fil' = fil,
           pc' = pc \/ (pc = "line" /\ pc' = "close") \/ (pc = "close" /\ pc' = "entry")
             \/ pc' \notin Writing
    PROVE  Counted'
BY DEF Counted, Writing

\* After a step into trouble, or out of the file, nothing is claimed.
LEMMA CountedNot ==
    ASSUME trouble' = TRUE \/ pc' \notin Writing
    PROVE  Counted'
BY DEF Counted

\* The file goes on counting.
LEMMA CountedLemma ==
    ASSUME Types, Calls, Counted, [Next]_vars
    PROVE  Counted'
<1>t. fil \in Fils /\ trouble \in BOOLEAN
  BY DEF Types, FilOK, Calls
<1>1. CASE Remove \/ (\E c \in Cards : Insert(c)) \/ unmount \/ UNCHANGED vars
  <2>1. UNCHANGED <<op, want, trouble, fil, pc>>
    BY <1>1 DEF Remove, Insert, unmount, vars, call
  <2> QED BY <2>1, CountedStays
<1>2. CASE Reset \/ LookUp_Nothing \/ SyncFs \/ StillMounted \/ MountVolume \/ mount
           \/ (\E o, f : Command(o, f)) \/ RemoveEntry \/ RemoveChain \/ WriteEntry
  <2>1. pc' \in {"prompt", "volume", "lookup", "chain", "sync"}
    BY <1>2 DEF Reset, LookUp_Nothing, SyncFs, StillMounted, MountVolume, mount, Command,
                RemoveEntry, RemoveChain, WriteEntry, AfterVolume, Return, Goto
  <2>2. pc' \notin Writing
    BY <2>1 DEF Writing
  <2> QED BY <2>2, CountedNot
<1>3. CASE SyncWindow \/ LoadWindow
  <2>1. UNCHANGED <<op, want, trouble, fil, pc>> \/ Abort
    BY <1>3 DEF SyncWindow, LoadWindow, call
  <2> QED BY <1>t, <2>1, CountedStays, CountedNot, AbortLemma
<1>4. CASE OpenNew
  <2>1. /\ pc' = "line" /\ UNCHANGED <<op, want, trouble>> /\ want = 0
        /\ fil' = Opened(New, TRUE)
    BY <1>4 DEF OpenNew, At, Goto, Calls
  <2>2. fil'.size = 0 /\ fil'.modified = TRUE
    BY <2>1 DEF Opened, New, NoFile
  <2> QED BY <2>1, <2>2 DEF Counted
<1>5. CASE OpenAppend \/ Seek \/ Fill
  <2>1. pc' = "prompt" \/ (pc' \in {"seek", "fill", "line"} /\ UNCHANGED <<op, want, trouble>>)
    BY <1>5 DEF OpenAppend, Seek, Fill, AfterSeek, Goto, Return
  <2>2. op = "append" /\ want = 0
    BY <1>5 DEF OpenAppend, Seek, Fill, At, Calls
  <2> QED BY <2>1, <2>2 DEF Counted, Writing
<1>6. CASE TypeLine
  <2>1. /\ pc = "line" /\ want' = (IF want = 0 THEN fil.size ELSE want) + 1
        /\ UNCHANGED <<op, name>> /\ trouble' \in BOOLEAN
        /\ trouble' = FALSE =>
             /\ trouble = FALSE
             /\ \/ pc' = "create" /\ fil' = fil
                \/ /\ pc' = "line" /\ fil'.size = fil.size + 1 /\ fil'.modified = TRUE
    BY <1>6, LineCounted
  <2>2. fil.size \in Nat /\ want \in Nat
    BY <1>t DEF Fils, Calls
  <2>3. ASSUME trouble' = FALSE PROVE Counted'
    <3>1. /\ trouble = FALSE
          /\ want = 0 \/ want = fil.size
          /\ op = "input" => fil.modified = TRUE
      BY <2>1, <2>3 DEF Counted, Writing
    <3>2. want' = fil.size + 1 /\ want' > 0
      BY <2>1, <2>2, <3>1
    <3> QED BY <2>1, <2>2, <2>3, <3>1, <3>2 DEF Counted
  <2> QED BY <2>1, <2>3, CountedNot
<1>7. CASE TypeDot \/ Close
  <2>1. \/ pc' = "prompt"
        \/ /\ UNCHANGED <<op, want, trouble, fil>>
           /\ \/ pc = "line" /\ pc' = "close"
              \/ pc = "close" /\ pc' = "entry"
    BY <1>7 DEF TypeDot, Close, Goto, Return
  <2>2. "prompt" \notin Writing
    BY DEF Writing
  <2> QED BY <2>1, <2>2, CountedStays, CountedNot
<1>8. CASE CreateChain
  <2>1. \/ Abort
        \/ \E f : NextLine(TRUE, f)
        \/ \E c : Goto("flush", [fil EXCEPT !.clust = c, !.first = IF @ = 0 THEN c ELSE @])
    BY <1>8, Zenon DEF CreateChain
  <2>2. pc = "create"
    BY <1>8 DEF CreateChain, At
  <2>3. CASE Abort
    BY <1>t, <2>3, AbortLemma, CountedNot
  <2>4. CASE \E f : NextLine(TRUE, f)
    <3>1. trouble' = TRUE
      BY <1>t, <2>4, NextLineLemma
    <3> QED BY <3>1, CountedNot
  <2>5. CASE \E c : Goto("flush", [fil EXCEPT !.clust = c, !.first = IF @ = 0 THEN c ELSE @])
    <3>1. /\ pc' = "flush" /\ UNCHANGED <<op, want, trouble>>
          /\ fil'.size = fil.size /\ fil'.modified = fil.modified
      BY <1>t, <2>5 DEF Goto, Fils
    <3> QED BY <2>2, <3>1 DEF Counted, Writing
  <2> QED BY <2>1, <2>3, <2>4, <2>5
<1>9. CASE Flush
  <2> DEFINE h == [fil EXCEPT !.sect = fil.clust]
             g == Buffered(h, 1)
  <2>1. pc = "flush" /\ (Abort \/ NextLine(FALSE, g))
    BY <1>9 DEF Flush
  <2>2. CASE Abort
    BY <1>t, <2>2, AbortLemma, CountedNot
  <2>3. CASE NextLine(FALSE, g)
    <3>1. h \in Fils /\ h.size = fil.size
      BY <1>t DEF Fils
    <3> HIDE DEF h
    <3>2. g.size = fil.size + 1 /\ g.modified = TRUE
      BY <3>1 DEF Buffered, Fils
    <3> HIDE DEF g
    <3>3. /\ pc' = "line" /\ fil' = g /\ UNCHANGED <<op, want>>
          /\ trouble' \in BOOLEAN /\ (trouble' = FALSE => trouble = FALSE)
      BY <1>t, <2>3, NextLineLemma
    <3>4. fil.size \in Nat
      BY <1>t DEF Fils
    <3> QED BY <2>1, <3>2, <3>3, <3>4 DEF Counted, Writing
  <2> QED BY <2>1, <2>2, <2>3
<1> QED BY <1>1, <1>2, <1>3, <1>4, <1>5, <1>6, <1>7, <1>8, <1>9 DEF Next

\* The window is written back or replaced: FatFs sees the same directory.
LEMMA ViewStays ==
    ASSUME Types, Sound, Types', Sound', Backing, Touched => card = from, from \in Cards,
           \/ SyncWindow /\ UNCHANGED call
           \/ LoadWindow /\ UNCHANGED call
           \/ Remove \/ (\E c \in Cards : Insert(c)) \/ UNCHANGED vars
    PROVE  TheDir' = TheDir
<1>1. CASE SyncWindow /\ UNCHANGED call
  <2>1. \/ UNCHANGED <<disk, fs>>
        \/ fs.wflag /\ Put(fs.win, fs.img) /\ fs' = [fs EXCEPT !.wflag = FALSE]
    BY <1>1 DEF SyncWindow
  <2>2. from' = from /\ (fs.wflag => fs.win # "none")
    BY <1>1 DEF SyncWindow, Types, FsOK
  <2>3. CASE UNCHANGED <<disk, fs>>
    BY <2>2, <2>3 DEF TheDir
  <2>4. CASE fs.wflag /\ Put(fs.win, fs.img) /\ fs' = [fs EXCEPT !.wflag = FALSE]
    <3>1. card = from
      BY <2>4 DEF Put
    <3> QED BY <2>2, <2>4, <3>1, SyncTables DEF Backing
  <2> QED BY <2>1, <2>3, <2>4
<1>2. CASE LoadWindow /\ UNCHANGED call
  <2>1. fs.wflag = FALSE /\ disk' = disk /\ from' = from
    BY <1>2 DEF LoadWindow, Types, FsOK
  <2>2. TheDir = disk[from].dir
    BY <2>1 DEF Sound, CleanOK, TheDir
  <2>3. \/ fs' = [fs EXCEPT !.win = Wanted, !.img = disk[from][Wanted]]
        \/ fs' = [fs EXCEPT !.win = "none", !.img = 0]
    BY <1>2 DEF LoadWindow
  <2>4. fs'.win = "dir" => fs'.img = disk[from].dir
    BY <2>3 DEF Types, FsOK
  <2> QED BY <2>1, <2>2, <2>4 DEF TheDir
<1>3. CASE Remove \/ (\E c \in Cards : Insert(c)) \/ UNCHANGED vars
  BY <1>3 DEF Remove, Insert, vars, TheDir
<1> QED BY <1>1, <1>2, <1>3

\* The entry stays as promised, or becomes so.
LEMMA EnteredLemma ==
    ASSUME Types, Sound, Types', Sound', Backing, Touched => card = from,
           Calls, Counted, Entered, [Next]_vars
    PROVE  Entered'
<1>1. CASE pc' \notin {"chain", "sync"}
  BY <1>1 DEF Entered
<1>2. CASE pc' \in {"chain", "sync"}
  <2>1. \/ /\ \/ SyncWindow /\ UNCHANGED call
              \/ LoadWindow /\ UNCHANGED call
              \/ Remove \/ (\E c \in Cards : Insert(c)) \/ UNCHANGED vars
           /\ UNCHANGED call
        \/ RemoveEntry \/ RemoveChain \/ WriteEntry
    <3>1. CASE \/ Reset \/ mount \/ unmount \/ (\E o, f : Command(o, f)) \/ StillMounted \/ MountVolume
               \/ SyncFs \/ LookUp_Nothing \/ OpenNew \/ OpenAppend \/ Seek \/ Fill
      BY <1>2, <3>1 DEF Reset, mount, unmount, Command, StillMounted, MountVolume, SyncFs,
            LookUp_Nothing, OpenNew, OpenAppend, Seek, Fill, AfterVolume, AfterSeek, Return, Goto, call
    <3>2. CASE TypeLine \/ TypeDot \/ CreateChain \/ Flush \/ Close
      <4>1. pc' \in {"prompt", "line", "create", "flush", "close", "entry"}
        <5>1. TypeLine => pc' \in {"line", "create"}
          BY DEF TypeLine
        <5>2. TypeDot \/ Close => pc' \in {"prompt", "close", "entry"}
          BY DEF TypeDot, Close, Goto, Return
        <5>3. CreateChain => pc' \in {"prompt", "line", "flush"}
          BY DEF CreateChain, Abort, NextLine, Return, Goto
        <5>4. Flush => pc' \in {"prompt", "line"}
          BY DEF Flush, Abort, NextLine, Return
        <5> QED BY <3>2, <5>1, <5>2, <5>3, <5>4
      <4> QED BY <1>2, <4>1
    <3>3. CASE SyncWindow \/ LoadWindow
      <4>1. UNCHANGED call \/ Abort
        BY <3>3 DEF SyncWindow, LoadWindow
      <4>2. ~Abort
        BY <1>2 DEF Abort, NextLine, Return
      <4> QED BY <3>3, <4>1, <4>2
    <3>4. CASE Remove \/ (\E c \in Cards : Insert(c)) \/ UNCHANGED vars
      BY <3>4 DEF Remove, Insert, vars
    <3> QED BY <3>1, <3>2, <3>3, <3>4 DEF Next
  <2>2. CASE /\ \/ SyncWindow /\ UNCHANGED call
                \/ LoadWindow /\ UNCHANGED call
                \/ Remove \/ (\E c \in Cards : Insert(c)) \/ UNCHANGED vars
             /\ UNCHANGED call
    <3>1. pc' = pc /\ UNCHANGED <<op, name, want, trouble>>
      BY <2>2 DEF call
    <3>2. from \in Cards
      BY <1>2, <3>1 DEF Types, CallOK
    <3>3. TheDir' = TheDir
      BY <2>2, <3>2, ViewStays
    <3> QED BY <3>1, <3>3 DEF Entered, Due, Final
  <2>3. CASE RemoveEntry
    <3>1. /\ fs.win = "dir" /\ name \in Files /\ fs.img \in Dirs
          /\ fs'.win = "dir" /\ fs'.img = [fs.img EXCEPT ![name] = Absent]
          /\ op = "rm" /\ UNCHANGED <<op, name>>
      BY <2>3 DEF RemoveEntry, At, Wanted, Types, CallOK, FsOK, Dirtied, Goto
    <3>2. TheDir'[name] = Absent
      BY <3>1 DEF TheDir, Dirs
    <3> QED BY <3>1, <3>2 DEF Entered, Final
  <2>4. CASE RemoveChain
    <3>1. /\ fs.win = "fat" /\ fs'.win = "fat" /\ pc = "chain" /\ pc' = "sync"
          /\ UNCHANGED <<op, name, disk, from>>
      BY <2>4 DEF RemoveChain, At, Wanted, Types, FsOK, Dirtied, Goto
    <3>2. op = "rm" /\ TheDir' = TheDir /\ TheDir[name].size = Absent.size
      BY <3>1 DEF Calls, Entered, TheDir
    <3> QED BY <3>1, <3>2 DEF Entered, Final
  <2>5. CASE WriteEntry
    <3> DEFINE e == [size |-> fil.size, first |-> fil.first]
    <3>1. /\ fs.win = "dir" /\ name \in Files /\ fs.img \in Dirs
          /\ fs'.win = "dir" /\ fs'.img = [fs.img EXCEPT ![name] = e]
          /\ pc = "entry" /\ pc \in Writing /\ pc' = "sync" /\ UNCHANGED <<op, name, want, trouble>>
      BY <2>5 DEF WriteEntry, At, Wanted, Types, CallOK, FsOK, Dirtied, Goto, Writing
    <3>2. TheDir'[name].size = fil.size
      BY <3>1 DEF TheDir, Dirs
    <3>3. op \in {"append", "input"}
      BY <3>1 DEF Calls
    <3>4. trouble = FALSE /\ Due => fil.size = want
      BY <3>1, <3>3 DEF Counted, Due, Calls
    <3> QED BY <3>1, <3>2, <3>3, <3>4 DEF Entered, Final, Due
  <2> QED BY <2>1, <2>2, <2>3, <2>4, <2>5
<1> QED BY <1>1, <1>2

\* The inductive invariant of SuccessIsOnCard.
PInv == BInv /\ Promise

\* The invariant holds.
LEMMA PromiseInvariant == Spec => []PInv
<1>1. Init => PInv
  <2>1. Init => BInv
    BY InitSound, InitBacking DEF BInv
  <2>2. Init => Promise
    <3> SUFFICES ASSUME Init PROVE Promise
      OBVIOUS
    <3>1. pc = "prompt" /\ op = "none" /\ want = 0 /\ trouble = FALSE
      BY DEF Init
    <3>2. Calls
      BY <3>1 DEF Calls, Commands, Writing
    <3>3. Counted /\ Entered
      BY <3>1 DEF Counted, Entered, Writing
    <3> QED BY <3>2, <3>3 DEF Promise
  <2> QED BY <2>1, <2>2 DEF PInv
<1>2. PInv /\ [Next]_vars => PInv'
  <2> SUFFICES ASSUME PInv, [Next]_vars PROVE PInv'
    OBVIOUS
  <2>1. BInv /\ BInv' /\ Types /\ Types'
    BY NextBacking DEF PInv, BInv, IInv
  <2>2. Calls' /\ Counted'
    BY <2>1, CallsLemma, CountedLemma DEF PInv, Promise
  <2>3. ASSUME crossed' = FALSE PROVE Entered'
    <3>1. crossed = FALSE /\ (Touched => card = from)
      BY <2>1, <2>3, CrossedLemma, TouchedLemma DEF BInv, IInv
    <3>2. Sound /\ Sound' /\ Backing /\ Calls /\ Counted /\ Entered
      BY <2>1, <2>3, <3>1 DEF BInv, IInv, PInv, Promise
    <3> QED BY <2>1, <3>1, <3>2, EnteredLemma
  <2> QED BY <2>1, <2>2, <2>3 DEF PInv, Promise
<1> QED BY <1>1, <1>2, PTL DEF Spec

\* Where a command ends without trouble.
LEMMA SuccessLemma ==
    ASSUME Types, Calls, Counted, Next, op \in Commands, pc' = "prompt", trouble' = FALSE
    PROVE  /\ trouble = FALSE
           /\ \/ pc = "sync" /\ fs.wflag /\ Put(fs.win, fs.img)
                 /\ fs' = [fs EXCEPT !.wflag = FALSE] /\ from' = from
              \/ ~Due
<1>t. trouble \in BOOLEAN /\ pc # "prompt"
  BY DEF Calls, Commands
<1>r. ~Return(TRUE) /\ ~Abort
  BY <1>t, ReturnLemma, AbortLemma
<1>1. CASE SyncFs
  <2>1. /\ pc = "sync" /\ fs.wflag /\ Put(fs.win, fs.img) /\ (\E bad \in BOOLEAN : Return(bad))
        /\ fs' = [fs EXCEPT !.wflag = FALSE] /\ from' = from
    BY <1>1, <1>r DEF SyncFs
  <2>2. trouble = FALSE
    BY <1>t, <2>1, ReturnLemma
  <2> QED BY <2>1, <2>2
<1>2. CASE Close
  <2>1. pc = "close" /\ fil.modified # TRUE /\ Return(FALSE)
    BY <1>2, <1>r DEF Close, Goto
  <2>2. trouble = FALSE
    BY <1>t, <2>1, ReturnLemma
  <2>3. op = "append" /\ ~(want > 0)
    BY <2>1, <2>2 DEF Counted, Calls, Writing
  <2> QED BY <2>2, <2>3 DEF Due
<1>3. CASE Remove \/ (\E c \in Cards : Insert(c)) \/ mount \/ unmount \/ (\E o, f : Command(o, f))
           \/ OpenNew \/ OpenAppend \/ RemoveEntry \/ RemoveChain \/ TypeDot \/ WriteEntry
  BY <1>3, <1>t DEF Remove, Insert, mount, unmount, Command, OpenNew, OpenAppend, RemoveEntry,
        RemoveChain, TypeDot, WriteEntry, AfterSeek, Goto, call
<1>4. CASE Reset \/ LookUp_Nothing
  BY <1>4, <1>r DEF Reset, LookUp_Nothing, Commands
<1>5. CASE StillMounted \/ MountVolume
  BY <1>5, <1>r DEF StillMounted, MountVolume, AfterVolume, Goto, Commands
<1>6. CASE SyncWindow \/ LoadWindow
  BY <1>6, <1>r, <1>t DEF SyncWindow, LoadWindow, call
<1>7. CASE Seek \/ Fill
  BY <1>7, <1>r DEF Seek, Fill, AfterSeek, Goto
<1>8. CASE TypeLine \/ Flush \/ CreateChain
  <2>1. TypeLine => pc' \in {"line", "create"}
    BY DEF TypeLine
  <2>2. Flush => pc' = "line"
    BY <1>r DEF Flush, NextLine
  <2>3. CreateChain => pc' \in {"line", "flush"}
    BY <1>r DEF CreateChain, NextLine, Goto
  <2> QED BY <1>8, <2>1, <2>2, <2>3
<1> QED BY <1>1, <1>2, <1>3, <1>4, <1>5, <1>6, <1>7, <1>8 DEF Next

\* For any files, cards and sizes of sectors: a command that FatFs reports no
\* error of has done on the card what it was asked (sdcard.c:190-248, 350).
THEOREM SuccessTheorem == Spec => SuccessIsOnCard
<1>1. PInv /\ [Next]_vars =>
        [(op \in {"append", "input", "rm"} /\ pc' = "prompt" /\ ~trouble' /\ ~crossed'
             /\ (op = "append" => want > 0))
         => disk'[from].dir[name].size = IF op = "rm" THEN Absent.size ELSE want]_vars
  <2> SUFFICES ASSUME PInv, Next, op \in Commands, pc' = "prompt", ~trouble', ~crossed',
                      op = "append" => want > 0
               PROVE  disk'[from].dir[name].size = Final
    BY DEF Commands, Final
  <2>1. BInv' /\ IInv /\ Types /\ Calls /\ Counted /\ Promise
    BY NextBacking DEF PInv, BInv, IInv, Promise
  <2>2. trouble' = FALSE /\ crossed' = FALSE
    BY <2>1, CallsLemma DEF Calls, BInv, IInv
  <2>3. crossed = FALSE /\ (Touched => card = from)
    BY <2>1, <2>2, CrossedLemma, TouchedLemma DEF IInv
  <2>4. /\ trouble = FALSE /\ pc = "sync" /\ fs.wflag /\ Put(fs.win, fs.img)
        /\ fs' = [fs EXCEPT !.wflag = FALSE] /\ from' = from
    BY <2>1, <2>2, SuccessLemma DEF Due
  <2>5. card = from /\ fs.win # "none"
    BY <2>1, <2>3, <2>4 DEF Put, Types, FsOK
  <2>6. Tables /\ Types' /\ Sound'
    BY <2>1, <2>2, <2>3 DEF PInv, BInv, IInv, Backing
  <2>7. disk'[from].dir = TheDir
    BY <2>1, <2>4, <2>5, <2>6, SyncTables
  <2>8. TheDir[name].size = Final
    BY <2>1, <2>3, <2>4 DEF Promise, Entered, Due
  <2> QED BY <2>7, <2>8
<1> QED BY <1>1, PromiseInvariant, PTL DEF Spec, SuccessIsOnCard
=============================================================================
