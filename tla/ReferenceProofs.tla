--------------------------- MODULE ReferenceProofs ---------------------------
(***************************************************************************)
(* Theorems about path counts, for every multigraph, and about latency     *)
(* statistics, for every list of samples.                                  *)
(***************************************************************************)
EXTENDS MCReference, FunctionTheorems, FiniteSetTheorems, SequenceTheorems, TLAPS

-----------------------------------------------------------------------------
(* Counting.                                                               *)

\* Two sets are as large as each other when their elements correspond.
LEMMA SameSize ==
    ASSUME NEW S, NEW T, IsFiniteSet(T), NEW g \in [S -> T],
           \A x, y \in S : g[x] = g[y] => x = y,
           \A z \in T : \E x \in S : g[x] = z
    PROVE  IsFiniteSet(S) /\ Cardinality(S) = Cardinality(T)
<1>1. g \in Bijection(S, T)
  BY DEF Bijection, Injection, Surjection, IsInjective
<1>2. ExistsBijection(T, S)
  BY <1>1, Fun_ExistsBijSymmetric DEF ExistsBijection
<1> QED BY <1>2, FS_Bijection

\* A loop over keys that counts the elements of each key counts the elements.
LEMMA TotalByKey ==
    ASSUME NEW U, IsFiniteSet(U), NEW D, NEW key \in [U -> D], NEW f, DOMAIN f = D,
           \A x \in D : f[x] = Cardinality({u \in U : key[u] = x})
    PROVE  Total(f) = Cardinality(U)
<1> DEFINE Fiber(x) == {u \in U : key[u] = x}
           P == UNION {{x} \X (1..f[x]) : x \in D}
           b == [x \in D |-> CHOOSE h : h \in Bijection(1..f[x], Fiber(x))]
           g == [p \in P |-> b[p[1]][p[2]]]
<1>1. ASSUME NEW x \in D
      PROVE  /\ \A i \in 1..f[x] : b[x][i] \in U /\ key[b[x][i]] = x
             /\ \A i, j \in 1..f[x] : b[x][i] = b[x][j] => i = j
             /\ \A u \in U : key[u] = x => \E i \in 1..f[x] : b[x][i] = u
  <2>1. IsFiniteSet(Fiber(x))
    BY FS_Subset
  <2>2. ExistsBijection(1..f[x], Fiber(x))
    <3> HIDE DEF Fiber
    <3>1. f[x] = Cardinality(Fiber(x))
      BY DEF Fiber
    <3> QED BY <2>1, <3>1, FS_CardinalityType
  <2>3. b[x] \in Bijection(1..f[x], Fiber(x))
    BY <2>2 DEF ExistsBijection
  <2> HIDE DEF b
  <2> QED BY <2>3 DEF Bijection, Injection, Surjection, IsInjective
<1>2. ASSUME NEW p \in P PROVE p[1] \in D /\ p[2] \in 1..f[p[1]] /\ p = <<p[1], p[2]>>
  OBVIOUS
<1>3. ASSUME NEW x \in D, NEW i \in 1..f[x] PROVE <<x, i>> \in P
  OBVIOUS
<1> HIDE DEF b, P
<1>4. ASSUME NEW p \in P PROVE g[p] \in U /\ key[g[p]] = p[1]
  BY <1>1, <1>2
<1>5. ASSUME NEW p \in P, NEW q \in P, g[p] = g[q] PROVE p = q
  <2>1. p[1] = q[1]
    BY <1>4, <1>5
  <2>2. p[2] = q[2]
    BY <1>1, <1>2, <1>5, <2>1
  <2> QED BY <1>2, <2>1, <2>2
<1>6. ASSUME NEW u \in U PROVE \E p \in P : g[p] = u
  <2>1. PICK i \in 1..f[key[u]] : b[key[u]][i] = u
    BY <1>1
  <2>2. <<key[u], i>> \in P
    BY <1>3
  <2> QED BY <2>1, <2>2
<1>7. g \in [P -> U]
  BY <1>4
<1>8. Cardinality(P) = Cardinality(U)
  <2> HIDE DEF g
  <2> QED BY <1>5, <1>6, <1>7, SameSize
<1> QED BY <1>8 DEF Total, P

-----------------------------------------------------------------------------
(* Walks and paths.                                                        *)

Loaded == edges \in Seq(Edge)

From(n)  == {r \in Relationship : edges[r].source = n}
To(n, m) == {r \in Relationship : edges[r] = [source |-> n, target |-> m]}
Head1(r) == edges[r].target

Walks2(n) == {w \in Relationship \X Relationship : w[1] \in From(n) /\ w[2] \in From(Head1(w[1]))}
Walks3(n) == {w \in Relationship \X (Relationship \X Relationship) :
                 w[1] \in From(n) /\ w[2] \in Walks2(Head1(w[1]))}
Paths2(n) == {w \in Walks2(n) : w[1] # w[2]}
Paths3(n) == {w \in Walks3(n) : w[1] # w[2][1] /\ w[2][1] # w[2][2] /\ w[1] # w[2][2]}

LEMMA Finite ==
    ASSUME Loaded, NEW n
    PROVE  /\ Relationship \subseteq Nat /\ IsFiniteSet(Relationship) /\ IsFiniteSet(From(n))
           /\ IsFiniteSet(Walks2(n)) /\ IsFiniteSet(Walks3(n))
           /\ IsFiniteSet(Paths2(n)) /\ IsFiniteSet(Paths3(n))
           /\ \A m : IsFiniteSet(To(n, m))
<1>1. Len(edges) \in Nat
  BY DEF Loaded
<1>2. IsFiniteSet(Relationship) /\ Relationship \subseteq Nat
  BY <1>1, FS_Interval DEF Relationship
<1>3. IsFiniteSet(Relationship \X Relationship)
  BY <1>2, FS_Product
<1>4. IsFiniteSet(Relationship \X (Relationship \X Relationship))
  BY <1>2, <1>3, FS_Product
<1>5. Walks2(n) \in SUBSET (Relationship \X Relationship)
  BY DEF Walks2
<1>6. Walks3(n) \in SUBSET (Relationship \X (Relationship \X Relationship))
  BY DEF Walks3
<1>7. IsFiniteSet(Walks2(n)) /\ IsFiniteSet(Walks3(n))
  BY <1>3, <1>4, <1>5, <1>6, FS_Subset
<1>8. Paths2(n) \in SUBSET Walks2(n) /\ Paths3(n) \in SUBSET Walks3(n)
  BY DEF Paths2, Paths3
<1>9. From(n) \in SUBSET Relationship /\ \A m : To(n, m) \in SUBSET Relationship
  BY DEF From, To
<1> QED BY <1>2, <1>7, <1>8, <1>9, FS_Subset

LEMMA Ends ==
    ASSUME Loaded
    PROVE  /\ \A r \in Relationship : edges[r] \in Edge /\ Head1(r) \in Nodes
           /\ \A n, r : r \in From(n) <=> r \in Relationship /\ edges[r].source = n
           /\ \A n, m, r : r \in To(n, m) <=> r \in From(n) /\ Head1(r) = m
<1>1. \A r \in Relationship : edges[r] \in Edge
  BY DEF Loaded, Relationship
<1> QED BY <1>1 DEF Edge, From, To, Head1
-----------------------------------------------------------------------------
(* The reference: walks, and walks that use a relationship twice.          *)

LEMMA Degrees ==
    ASSUME Loaded
    PROVE  /\ \A n : Out(n) = Cardinality(From(n)) /\ Out(n) \in Nat
           /\ \A n, m : Between(n, m) = Cardinality(To(n, m)) /\ Between(n, m) \in Nat
BY Finite, FS_CardinalityType DEF Out, Between, From, To

\* The walks that start with a step to m, whatever may follow it.
LEMMA ByTarget ==
    ASSUME Loaded, NEW n \in Nodes, NEW W, IsFiniteSet(W), NEW rest,
           \A m \in Nodes : IsFiniteSet(rest[m]),
           \A w : w \in W <=> /\ w = <<w[1], w[2]>>
                              /\ w[1] \in From(n) /\ w[2] \in rest[Head1(w[1])]
    PROVE  Total([m \in Nodes |-> Between(n, m) * Cardinality(rest[m])]) = Cardinality(W)
<1> DEFINE key == [w \in W |-> Head1(w[1])]
           f == [m \in Nodes |-> Between(n, m) * Cardinality(rest[m])]
<1>1. key \in [W -> Nodes]
  BY Ends
<1>2. ASSUME NEW m \in Nodes PROVE f[m] = Cardinality({w \in W : key[w] = m})
  <2>1. {w \in W : key[w] = m} = To(n, m) \X rest[m]
    <3>1. ASSUME NEW w \in W, key[w] = m PROVE w \in To(n, m) \X rest[m]
      BY <3>1, Ends
    <3>2. ASSUME NEW w \in To(n, m) \X rest[m] PROVE w \in W /\ key[w] = m
      <4>1. w = <<w[1], w[2]>> /\ w[1] \in From(n) /\ Head1(w[1]) = m /\ w[2] \in rest[m]
        BY <3>2, Ends
      <4>2. w \in W
        BY <4>1
      <4> QED BY <4>1, <4>2
    <3> QED BY <3>1, <3>2
  <2>2. IsFiniteSet(To(n, m)) /\ IsFiniteSet(rest[m])
    BY Finite
  <2>3. Cardinality(To(n, m) \X rest[m]) = Cardinality(To(n, m)) * Cardinality(rest[m])
    BY <2>2, FS_Product
  <2> QED BY <2>1, <2>3, Degrees
<1> QED
  <2> HIDE DEF key
  <2>1. DOMAIN f = Nodes
    OBVIOUS
  <2> HIDE DEF f
  <2>2. Total(f) = Cardinality(W)
    BY <1>1, <1>2, <2>1, TotalByKey
  <2> QED BY <2>2 DEF f

LEMMA WalksCounted ==
    ASSUME Loaded, NEW n \in Nodes
    PROVE  /\ Walks(n, 1) = Cardinality(From(n))
           /\ Walks(n, 2) = Cardinality(Walks2(n))
           /\ Walks(n, 3) = Cardinality(Walks3(n))
<1>1. ASSUME NEW m \in Nodes
      PROVE  Total([k \in Nodes |-> Between(m, k) * Out(k)]) = Cardinality(Walks2(m))
  <2> DEFINE rest == [k \in Nodes |-> From(k)]
  <2>1. \A w : w \in Walks2(m) <=> /\ w = <<w[1], w[2]>>
                                   /\ w[1] \in From(m) /\ w[2] \in rest[Head1(w[1])]
    <3>1. \A w : w \in Walks2(m) <=> /\ w = <<w[1], w[2]>>
                                     /\ w[1] \in From(m) /\ w[2] \in From(Head1(w[1]))
      BY DEF Walks2, From
    <3> QED BY <3>1, Ends
  <2>2. IsFiniteSet(Walks2(m)) /\ \A k \in Nodes : IsFiniteSet(rest[k])
    BY Finite
  <2>3. [k \in Nodes |-> Between(m, k) * Out(k)]
          = [k \in Nodes |-> Between(m, k) * Cardinality(rest[k])]
    BY Degrees
  <2> HIDE DEF rest
  <2>4. Total([k \in Nodes |-> Between(m, k) * Cardinality(rest[k])]) = Cardinality(Walks2(m))
    BY <2>1, <2>2, ByTarget
  <2> QED BY <2>3, <2>4
<1>2. Total([m \in Nodes |-> Between(n, m) * Total([k \in Nodes |-> Between(m, k) * Out(k)])])
        = Cardinality(Walks3(n))
  <2> DEFINE rest == [m \in Nodes |-> Walks2(m)]
  <2>1. \A w : w \in Walks3(n) <=> /\ w = <<w[1], w[2]>>
                                   /\ w[1] \in From(n) /\ w[2] \in rest[Head1(w[1])]
    <3>1. \A w : w \in Walks3(n) <=> /\ w = <<w[1], w[2]>>
                                     /\ w[1] \in From(n) /\ w[2] \in Walks2(Head1(w[1]))
      BY DEF Walks3, Walks2, From
    <3> QED BY <3>1, Ends
  <2>2. IsFiniteSet(Walks3(n)) /\ \A m \in Nodes : IsFiniteSet(rest[m])
    BY Finite
  <2>3. [m \in Nodes |-> Between(n, m) * Total([k \in Nodes |-> Between(m, k) * Out(k)])]
          = [m \in Nodes |-> Between(n, m) * Cardinality(rest[m])]
    BY <1>1
  <2> HIDE DEF rest
  <2>4. Total([m \in Nodes |-> Between(n, m) * Cardinality(rest[m])]) = Cardinality(Walks3(n))
    BY <2>1, <2>2, ByTarget
  <2> QED BY <2>3, <2>4
<1> QED BY <1>1, <1>2, Degrees DEF Walks
\* The walks of three steps that use a relationship twice, by where they do.
Same12(n)  == {w \in Walks3(n) : w[1] = w[2][1]}
Same23(n)  == {w \in Walks3(n) : w[2][1] = w[2][2]}
Same13(n)  == {w \in Walks3(n) : w[1] = w[2][2]}
Same123(n) == {w \in Walks3(n) : w[1] = w[2][1] /\ w[2][1] = w[2][2]}

LEMMA Steps ==
    ASSUME Loaded, NEW n
    PROVE  /\ \A w : w \in Walks2(n) <=> /\ w = <<w[1], w[2]>>
                                         /\ w[1] \in From(n) /\ w[2] \in From(Head1(w[1]))
           /\ \A w : w \in Walks3(n) <=> /\ w = <<w[1], <<w[2][1], w[2][2]>>>>
                                         /\ w[1] \in From(n) /\ w[2][1] \in From(Head1(w[1]))
                                         /\ w[2][2] \in From(Head1(w[2][1]))
BY DEF Walks2, Walks3, From

LEMMA Same12Counted ==
    ASSUME Loaded, NEW n \in Nodes
    PROVE  Cardinality(Same12(n)) = Between(n, n) * Out(n)
<1> DEFINE g == [w \in Same12(n) |-> <<w[1], w[2][2]>>]
           T == To(n, n) \X From(n)
<1>1. ASSUME NEW w \in Same12(n) PROVE g[w] \in T /\ w = <<g[w][1], <<g[w][1], g[w][2]>>>>
  BY Steps, Ends DEF Same12
<1>2. ASSUME NEW z \in T PROVE \E w \in Same12(n) : g[w] = z
  <2> DEFINE w == <<z[1], <<z[1], z[2]>>>>
  <2>1. z = <<z[1], z[2]>> /\ z[1] \in From(n) /\ Head1(z[1]) = n /\ z[2] \in From(n)
    BY Ends
  <2>2. w \in Same12(n)
    BY <2>1, Steps DEF Same12
  <2> QED BY <2>1, <2>2
<1>3. IsFiniteSet(T) /\ Cardinality(T) = Cardinality(To(n, n)) * Cardinality(From(n))
  BY Finite, FS_Product
<1>4. Cardinality(Same12(n)) = Cardinality(T)
  <2>1. g \in [Same12(n) -> T] /\ \A x, y \in Same12(n) : g[x] = g[y] => x = y
    BY <1>1
  <2> HIDE DEF g, T
  <2> QED BY <1>2, <1>3, <2>1, SameSize
<1> QED BY <1>3, <1>4, Degrees

\* What a loop over the targets of n counts, that counts what leads from there
\* to Goal: the steps of n, each with a step from its target to Goal.
LEMMA StepsToGoal ==
    ASSUME Loaded, NEW n \in Nodes, NEW goal \in [Nodes -> Nodes]
    PROVE  LET T == {w \in Relationship \X Relationship :
                        w[1] \in From(n) /\ w[2] \in To(Head1(w[1]), goal[Head1(w[1])])}
           IN  /\ IsFiniteSet(T)
               /\ Total([m \in Nodes |-> Between(n, m) * Between(m, goal[m])]) = Cardinality(T)
<1> DEFINE rest == [m \in Nodes |-> To(m, goal[m])]
           T == {w \in Relationship \X Relationship :
                    w[1] \in From(n) /\ w[2] \in To(Head1(w[1]), goal[Head1(w[1])])}
<1>1. \A w : w \in T <=> /\ w = <<w[1], w[2]>>
                         /\ w[1] \in From(n) /\ w[2] \in rest[Head1(w[1])]
  <2>1. \A w : w \in T <=> /\ w = <<w[1], w[2]>> /\ w[1] \in From(n)
                           /\ w[2] \in To(Head1(w[1]), goal[Head1(w[1])])
    BY Ends
  <2> HIDE DEF T
  <2> QED BY <2>1, Ends
<1>2. IsFiniteSet(T)
  <2>1. IsFiniteSet(Relationship \X Relationship)
    BY Finite, FS_Product
  <2> QED BY <2>1, FS_Subset
<1>3. \A m \in Nodes : IsFiniteSet(rest[m])
  BY Finite
<1>4. [m \in Nodes |-> Between(n, m) * Between(m, goal[m])]
        = [m \in Nodes |-> Between(n, m) * Cardinality(rest[m])]
  BY Degrees
<1> HIDE DEF rest, T
<1>5. Total([m \in Nodes |-> Between(n, m) * Cardinality(rest[m])]) = Cardinality(T)
  BY <1>1, <1>2, <1>3, ByTarget
<1> QED BY <1>2, <1>4, <1>5 DEF T

LEMMA Same23Counted ==
    ASSUME Loaded, NEW n \in Nodes
    PROVE  Cardinality(Same23(n)) = Total([m \in Nodes |-> Between(n, m) * Between(m, m)])
<1> DEFINE g == [w \in Same23(n) |-> <<w[1], w[2][1]>>]
           goal == [m \in Nodes |-> m]
           T == {w \in Relationship \X Relationship :
                    w[1] \in From(n) /\ w[2] \in To(Head1(w[1]), goal[Head1(w[1])])}
<1>0. \A r \in From(n) : Head1(r) \in Nodes /\ goal[Head1(r)] = Head1(r)
  BY Ends
<1>1. ASSUME NEW w \in Same23(n) PROVE g[w] \in T /\ w = <<g[w][1], <<g[w][2], g[w][2]>>>>
  BY <1>0, Steps, Ends DEF Same23
<1>2. ASSUME NEW z \in T PROVE \E w \in Same23(n) : g[w] = z
  <2> DEFINE w == <<z[1], <<z[2], z[2]>>>>
  <2>1. /\ z = <<z[1], z[2]>> /\ z[1] \in From(n) /\ z[2] \in From(Head1(z[1]))
        /\ z[2] \in From(Head1(z[2]))
    BY <1>0, Ends
  <2>2. w \in Same23(n)
    BY <2>1, Steps DEF Same23
  <2> QED BY <2>1, <2>2
<1>3. /\ IsFiniteSet(T)
      /\ Total([m \in Nodes |-> Between(n, m) * Between(m, goal[m])]) = Cardinality(T)
  <2>1. goal \in [Nodes -> Nodes]
    OBVIOUS
  <2> HIDE DEF goal
  <2> QED BY <2>1, StepsToGoal
<1>4. Cardinality(Same23(n)) = Cardinality(T)
  <2>1. g \in [Same23(n) -> T] /\ \A x, y \in Same23(n) : g[x] = g[y] => x = y
    BY <1>1
  <2> HIDE DEF g, T
  <2> QED BY <1>2, <1>3, <2>1, SameSize
<1>5. [m \in Nodes |-> Between(n, m) * Between(m, goal[m])]
        = [m \in Nodes |-> Between(n, m) * Between(m, m)]
  OBVIOUS
<1> QED BY <1>3, <1>4, <1>5

LEMMA Same13Counted ==
    ASSUME Loaded, NEW n \in Nodes
    PROVE  Cardinality(Same13(n)) = Total([m \in Nodes |-> Between(n, m) * Between(m, n)])
<1> DEFINE g == [w \in Same13(n) |-> <<w[1], w[2][1]>>]
           goal == [m \in Nodes |-> n]
           T == {w \in Relationship \X Relationship :
                    w[1] \in From(n) /\ w[2] \in To(Head1(w[1]), goal[Head1(w[1])])}
<1>0. \A r \in From(n) : Head1(r) \in Nodes /\ goal[Head1(r)] = n
  BY Ends
<1>1. ASSUME NEW w \in Same13(n) PROVE g[w] \in T /\ w = <<g[w][1], <<g[w][2], g[w][1]>>>>
  BY <1>0, Steps, Ends DEF Same13
<1>2. ASSUME NEW z \in T PROVE \E w \in Same13(n) : g[w] = z
  <2> DEFINE w == <<z[1], <<z[2], z[1]>>>>
  <2>1. /\ z = <<z[1], z[2]>> /\ z[1] \in From(n) /\ z[2] \in From(Head1(z[1]))
        /\ z[1] \in From(Head1(z[2]))
    BY <1>0, Ends
  <2>2. w \in Same13(n)
    BY <2>1, Steps DEF Same13
  <2> QED BY <2>1, <2>2
<1>3. /\ IsFiniteSet(T)
      /\ Total([m \in Nodes |-> Between(n, m) * Between(m, goal[m])]) = Cardinality(T)
  <2>1. goal \in [Nodes -> Nodes]
    OBVIOUS
  <2> HIDE DEF goal
  <2> QED BY <2>1, StepsToGoal
<1>4. Cardinality(Same13(n)) = Cardinality(T)
  <2>1. g \in [Same13(n) -> T] /\ \A x, y \in Same13(n) : g[x] = g[y] => x = y
    BY <1>1
  <2> HIDE DEF g, T
  <2> QED BY <1>2, <1>3, <2>1, SameSize
<1>5. [m \in Nodes |-> Between(n, m) * Between(m, goal[m])]
        = [m \in Nodes |-> Between(n, m) * Between(m, n)]
  OBVIOUS
<1> QED BY <1>3, <1>4, <1>5

LEMMA Same123Counted ==
    ASSUME Loaded, NEW n \in Nodes
    PROVE  Cardinality(Same123(n)) = Between(n, n)
<1> DEFINE g == [w \in Same123(n) |-> w[1]]
<1>1. ASSUME NEW w \in Same123(n) PROVE g[w] \in To(n, n) /\ w = <<g[w], <<g[w], g[w]>>>>
  BY Steps, Ends DEF Same123
<1>2. ASSUME NEW z \in To(n, n) PROVE \E w \in Same123(n) : g[w] = z
  <2> DEFINE w == <<z, <<z, z>>>>
  <2>1. w \in Same123(n)
    BY Steps, Ends DEF Same123
  <2> QED BY <2>1
<1>3. IsFiniteSet(To(n, n))
  BY Finite
<1>4. g \in [Same123(n) -> To(n, n)] /\ \A x, y \in Same123(n) : g[x] = g[y] => x = y
  BY <1>1
<1> HIDE DEF g
<1> QED BY <1>2, <1>3, <1>4, SameSize, Degrees

\* Paths are the walks without a repetition: in three steps, two of the three
\* places where it may be imply the third.
LEMMA PathsCounted ==
    ASSUME Loaded, NEW n \in Nodes
    PROVE  /\ Cardinality(From(n)) = Walks(n, 1) - Repeating(n, 1)
           /\ Cardinality(Paths2(n)) = Walks(n, 2) - Repeating(n, 2)
           /\ Cardinality(Paths3(n)) = Walks(n, 3) - Repeating(n, 3)
<1>1. Cardinality(From(n)) = Walks(n, 1) - Repeating(n, 1)
  BY WalksCounted, Degrees DEF Repeating
<1>2. Cardinality(Paths2(n)) = Walks(n, 2) - Repeating(n, 2)
  <2> DEFINE L == {w \in Walks2(n) : w[1] = w[2]}
             g == [w \in L |-> w[1]]
  <2>1. Cardinality(L) = Between(n, n) /\ IsFiniteSet(L)
    <3>1. ASSUME NEW w \in L PROVE g[w] \in To(n, n) /\ w = <<g[w], g[w]>>
      BY Steps, Ends
    <3>2. ASSUME NEW z \in To(n, n) PROVE \E w \in L : g[w] = z
      <4>1. <<z, z>> \in L
        BY Steps, Ends
      <4> QED BY <4>1
    <3>3. IsFiniteSet(To(n, n))
      BY Finite
    <3>4. g \in [L -> To(n, n)] /\ \A x, y \in L : g[x] = g[y] => x = y
      BY <3>1
    <3> HIDE DEF g, L
    <3> QED BY <3>2, <3>3, <3>4, SameSize, Degrees
  <2>2. Paths2(n) = Walks2(n) \ L /\ Walks2(n) \cap L = L
    BY DEF Paths2
  <2> HIDE DEF L
  <2>3. Cardinality(Paths2(n)) = Cardinality(Walks2(n)) - Cardinality(L)
    BY <2>1, <2>2, Finite, FS_Difference
  <2> QED BY <2>1, <2>3, WalksCounted DEF Repeating
<1>3. Cardinality(Paths3(n)) = Walks(n, 3) - Repeating(n, 3)
  <2> DEFINE A == Same12(n)
             B == Same23(n)
             C == Same13(n)
             T == Same123(n)
             W == Walks3(n)
  <2>1. A \in SUBSET W /\ B \in SUBSET W /\ C \in SUBSET W /\ T \in SUBSET W
    BY DEF Same12, Same23, Same13, Same123
  <2>2. A \cap B = T /\ (A \cup B) \cap C = T
    BY DEF Same12, Same23, Same13, Same123
  <2>3. Paths3(n) = W \ ((A \cup B) \cup C)
    BY DEF Same12, Same23, Same13, Paths3
  <2>4. W \cap ((A \cup B) \cup C) = (A \cup B) \cup C
    BY <2>1
  <2> HIDE DEF A, B, C, T, W
  <2>5. IsFiniteSet(W)
    BY Finite DEF W
  <2>6. IsFiniteSet(A) /\ IsFiniteSet(B) /\ IsFiniteSet(C) /\ IsFiniteSet(T)
    BY <2>1, <2>5, FS_Subset
  <2>7. IsFiniteSet(A \cup B) /\ Cardinality(A \cup B) = Cardinality(A) + Cardinality(B) - Cardinality(T)
    BY <2>2, <2>6, FS_Union
  <2>8. Cardinality((A \cup B) \cup C) = Cardinality(A \cup B) + Cardinality(C) - Cardinality(T)
    BY <2>2, <2>6, <2>7, FS_Union
  <2>9. Cardinality(Paths3(n)) = Cardinality(W) - Cardinality((A \cup B) \cup C)
    BY <2>3, <2>4, <2>5, FS_Difference
  <2>10. /\ Cardinality(A) \in Nat /\ Cardinality(B) \in Nat /\ Cardinality(C) \in Nat
         /\ Cardinality(T) \in Nat /\ Cardinality(W) \in Nat
    BY <2>5, <2>6, FS_CardinalityType
  <2>11. Cardinality(Paths3(n))
           = Cardinality(W) - (Cardinality(A) + Cardinality(B) + Cardinality(C) - 2 * Cardinality(T))
    BY <2>7, <2>8, <2>9, <2>10
  <2>12. Repeating(n, 3) = Cardinality(A) + Cardinality(B) + Cardinality(C) - 2 * Cardinality(T)
    BY Same12Counted, Same23Counted, Same13Counted, Same123Counted DEF A, B, C, T, Repeating
  <2>13. Walks(n, 3) = Cardinality(W)
    BY WalksCounted DEF W
  <2> QED BY <2>11, <2>12, <2>13
<1> QED BY <1>1, <1>2, <1>3
-----------------------------------------------------------------------------
(* The oracle counts paths.                                                *)

\* An entry of the adjacency lists for every relationship.
Leg(r) == <<r, Head1(r)>>

LEMMA Legs ==
    ASSUME Loaded, NEW n
    PROVE  \A e : e \in Adjacency(n) <=> e[1] \in From(n) /\ e = Leg(e[1])
BY DEF Adjacency, From, Leg, Head1

Seconds(first)        == {e \in Adjacency(first[2]) : e[1] # first[1]}
Thirds(first, second) == {e \in Adjacency(second[2]) : e[1] \notin {first[1], second[1]}}

LEMMA FiniteLegs ==
    ASSUME Loaded, NEW n
    PROVE  IsFiniteSet(Adjacency(n)) /\ Cardinality(Adjacency(n)) = Cardinality(From(n))
<1> DEFINE g == [e \in Adjacency(n) |-> e[1]]
<1>1. g \in [Adjacency(n) -> From(n)] /\ \A x, y \in Adjacency(n) : g[x] = g[y] => x = y
  BY Legs
<1>2. \A r \in From(n) : \E e \in Adjacency(n) : g[e] = r
  <2> SUFFICES ASSUME NEW r \in From(n) PROVE \E e \in Adjacency(n) : g[e] = r
    OBVIOUS
  <2>1. Leg(r)[1] = r
    BY DEF Leg
  <2>2. Leg(r) \in Adjacency(n)
    BY <2>1, Legs
  <2> QED BY <2>1, <2>2
<1>3. IsFiniteSet(From(n))
  BY Finite
<1> HIDE DEF g
<1> QED BY <1>1, <1>2, <1>3, SameSize

LEMMA FirstLegs ==
    ASSUME Loaded, NEW n, NEW first \in Adjacency(n)
    PROVE  Cardinality(Seconds(first)) = Cardinality({w \in Paths2(n) : Leg(w[1]) = first})
<1> DEFINE U == {w \in Paths2(n) : Leg(w[1]) = first}
           g == [w \in U |-> Leg(w[2])]
<1>1. first[1] \in From(n) /\ first[2] = Head1(first[1]) /\ first = Leg(first[1])
  BY Legs DEF Leg
<1>2. ASSUME NEW w \in U
      PROVE  /\ Leg(w[2]) \in Seconds(first) /\ Leg(w[2])[1] = w[2]
             /\ w = <<first[1], w[2]>>
  BY <1>1, Steps, Legs DEF Leg, Seconds, Paths2
<1>3. ASSUME NEW e \in Seconds(first) PROVE \E w \in U : g[w] = e
  <2>1. e[1] \in From(Head1(first[1])) /\ e = Leg(e[1]) /\ e[1] # first[1]
    BY <1>1, Legs DEF Seconds
  <2>2. <<first[1], e[1]>> \in U
    BY <1>1, <2>1, Steps DEF Paths2
  <2> QED BY <2>1, <2>2
<1>4. g \in [U -> Seconds(first)] /\ \A x, y \in U : g[x] = g[y] => x = y
  BY <1>2
<1>5. IsFiniteSet(Seconds(first))
  BY FiniteLegs, FS_Subset DEF Seconds
<1> HIDE DEF g, U
<1>6. Cardinality(U) = Cardinality(Seconds(first))
  BY <1>3, <1>4, <1>5, SameSize
<1> QED BY <1>6 DEF U

LEMMA SecondLegs ==
    ASSUME Loaded, NEW n, NEW first \in Adjacency(n), NEW second \in Seconds(first)
    PROVE  Cardinality(Thirds(first, second))
             = Cardinality({w \in Paths3(n) : Leg(w[1]) = first /\ Leg(w[2][1]) = second})
<1> DEFINE U == {w \in Paths3(n) : Leg(w[1]) = first /\ Leg(w[2][1]) = second}
           g == [w \in U |-> Leg(w[2][2])]
<1>1. /\ first[1] \in From(n) /\ first[2] = Head1(first[1]) /\ first = Leg(first[1])
      /\ second[1] \in From(first[2]) /\ second[2] = Head1(second[1]) /\ second = Leg(second[1])
      /\ second[1] # first[1]
  BY Legs DEF Leg, Seconds
<1>2. ASSUME NEW w \in U
      PROVE  /\ Leg(w[2][2]) \in Thirds(first, second) /\ Leg(w[2][2])[1] = w[2][2]
             /\ w = <<first[1], <<second[1], w[2][2]>>>>
  BY <1>1, Steps, Legs DEF Leg, Thirds, Paths3
<1>3. ASSUME NEW e \in Thirds(first, second) PROVE \E w \in U : g[w] = e
  <2>1. e[1] \in From(Head1(second[1])) /\ e = Leg(e[1]) /\ e[1] # first[1] /\ e[1] # second[1]
    BY <1>1, Legs DEF Thirds
  <2>2. <<first[1], <<second[1], e[1]>>>> \in U
    BY <1>1, <2>1, Steps DEF Paths3
  <2> QED BY <2>1, <2>2
<1>4. g \in [U -> Thirds(first, second)] /\ \A x, y \in U : g[x] = g[y] => x = y
  BY <1>2
<1>5. IsFiniteSet(Thirds(first, second))
  BY FiniteLegs, FS_Subset DEF Thirds
<1> HIDE DEF g, U
<1>6. Cardinality(U) = Cardinality(Thirds(first, second))
  BY <1>3, <1>4, <1>5, SameSize
<1> QED BY <1>6 DEF U

\* The loops of path_count go once through every path.
LEMMA OracleCounts ==
    ASSUME Loaded, NEW n
    PROVE  /\ PathCount(n, 1) = Cardinality(From(n))
           /\ PathCount(n, 2) = Cardinality(Paths2(n))
           /\ PathCount(n, 3) = Cardinality(Paths3(n))
<1>1. PathCount(n, 1) = Cardinality(From(n))
  BY FiniteLegs DEF PathCount
<1>2. PathCount(n, 2) = Cardinality(Paths2(n))
  <2> DEFINE f == [first \in Adjacency(n) |-> Cardinality(Seconds(first))]
             key == [w \in Paths2(n) |-> Leg(w[1])]
  <2>1. PathCount(n, 2) = Total(f)
    BY DEF PathCount, Seconds
  <2>2. key \in [Paths2(n) -> Adjacency(n)]
    BY Steps, Legs DEF Paths2, Leg
  <2>3. \A first \in Adjacency(n) : f[first] = Cardinality({w \in Paths2(n) : key[w] = first})
    <3> SUFFICES ASSUME NEW first \in Adjacency(n)
                 PROVE  Cardinality(Seconds(first)) = Cardinality({w \in Paths2(n) : key[w] = first})
      OBVIOUS
    <3>1. {w \in Paths2(n) : key[w] = first} = {w \in Paths2(n) : Leg(w[1]) = first}
      OBVIOUS
    <3> QED BY <3>1, FirstLegs
  <2>4. IsFiniteSet(Paths2(n)) /\ DOMAIN f = Adjacency(n)
    BY Finite
  <2> HIDE DEF f, key
  <2> QED BY <2>1, <2>2, <2>3, <2>4, TotalByKey
<1>3. PathCount(n, 3) = Cardinality(Paths3(n))
  <2> DEFINE inner(first) == [second \in Seconds(first) |-> Cardinality(Thirds(first, second))]
             f == [first \in Adjacency(n) |-> Total(inner(first))]
             key == [w \in Paths3(n) |-> Leg(w[1])]
  <2>1. PathCount(n, 3) = Total(f)
    BY DEF PathCount, Seconds, Thirds
  <2>2. key \in [Paths3(n) -> Adjacency(n)]
    BY Steps, Legs DEF Paths3, Leg
  <2>3. ASSUME NEW first \in Adjacency(n)
        PROVE  Total(inner(first)) = Cardinality({w \in Paths3(n) : Leg(w[1]) = first})
    <3> DEFINE U == {w \in Paths3(n) : Leg(w[1]) = first}
               second == [w \in U |-> Leg(w[2][1])]
               h == inner(first)
    <3>1. second \in [U -> Seconds(first)]
      <4> SUFFICES ASSUME NEW w \in U PROVE Leg(w[2][1]) \in Seconds(first)
        OBVIOUS
      <4>1. first[1] = w[1] /\ first[2] = Head1(w[1])
        BY DEF Leg
      <4>2. w[2][1] \in From(Head1(w[1])) /\ w[2][1] # w[1]
        BY Steps DEF Paths3
      <4>3. Leg(w[2][1])[1] = w[2][1]
        BY DEF Leg
      <4> QED BY <4>1, <4>2, <4>3, Legs DEF Seconds
    <3>2. ASSUME NEW q \in Seconds(first) PROVE h[q] = Cardinality({w \in U : second[w] = q})
      <4>1. {w \in U : second[w] = q} = {w \in Paths3(n) : Leg(w[1]) = first /\ Leg(w[2][1]) = q}
        OBVIOUS
      <4>2. h[q] = Cardinality(Thirds(first, q))
        OBVIOUS
      <4> HIDE DEF h, second, U, inner, f, key
      <4>3. Cardinality(Thirds(first, q))
              = Cardinality({w \in Paths3(n) : Leg(w[1]) = first /\ Leg(w[2][1]) = q})
        BY SecondLegs
      <4> QED BY <4>1, <4>2, <4>3
    <3>3. IsFiniteSet(U) /\ DOMAIN h = Seconds(first)
      BY Finite, FS_Subset
    <3> HIDE DEF U, second, h, inner
    <3>4. Total(h) = Cardinality(U)
      BY <3>1, <3>2, <3>3, TotalByKey
    <3> QED BY <3>4 DEF U, h
  <2>4. \A first \in Adjacency(n) : f[first] = Cardinality({w \in Paths3(n) : key[w] = first})
    <3> SUFFICES ASSUME NEW first \in Adjacency(n)
                 PROVE  f[first] = Cardinality({w \in Paths3(n) : key[w] = first})
      OBVIOUS
    <3>1. {w \in Paths3(n) : key[w] = first} = {w \in Paths3(n) : Leg(w[1]) = first}
      OBVIOUS
    <3> HIDE DEF inner
    <3> QED BY <3>1, <2>3
  <2>5. IsFiniteSet(Paths3(n)) /\ DOMAIN f = Adjacency(n)
    BY Finite
  <2> HIDE DEF f, key
  <2> QED BY <2>1, <2>2, <2>4, <2>5, TotalByKey
<1> QED BY <1>1, <1>2, <1>3
-----------------------------------------------------------------------------
(* The queries find paths.                                                 *)

Rows1(n) == {<<r>> : r \in From(n)}
Rows3(n) == {<<w[1], w[2][1], w[2][2]>> : w \in Paths3(n)}

LEMMA AppendToOne == \A a, b : Append(<<a>>, b) = <<a, b>>
<1> SUFFICES ASSUME NEW a, NEW b PROVE Append(<<a>>, b) = <<a, b>>
  OBVIOUS
<1> DEFINE R == {a, b}
<1>1. <<a>> \in Seq(R) /\ Len(<<a>>) = 1 /\ b \in R
  OBVIOUS
<1>2. Append(<<a>>, b) \in Seq(R) /\ Len(Append(<<a>>, b)) = 2
      /\ Append(<<a>>, b)[1] = a /\ Append(<<a>>, b)[2] = b
  BY <1>1
<1>3. <<a, b>> \in Seq(R) /\ Len(<<a, b>>) = 2 /\ <<a, b>>[1] = a /\ <<a, b>>[2] = b
  OBVIOUS
<1> HIDE DEF R
<1>4. \A i \in 1..2 : Append(<<a>>, b)[i] = <<a, b>>[i]
  BY <1>2, <1>3
<1> QED BY <1>2, <1>3, <1>4, SeqEqual

LEMMA AppendToTwo == \A a, b, c : Append(<<a, b>>, c) = <<a, b, c>>
<1> SUFFICES ASSUME NEW a, NEW b, NEW c PROVE Append(<<a, b>>, c) = <<a, b, c>>
  OBVIOUS
<1> DEFINE R == {a, b, c}
<1>1. <<a, b>> \in Seq(R) /\ Len(<<a, b>>) = 2 /\ c \in R
  OBVIOUS
<1>2. Append(<<a, b>>, c) \in Seq(R) /\ Len(Append(<<a, b>>, c)) = 3
      /\ Append(<<a, b>>, c)[1] = a /\ Append(<<a, b>>, c)[2] = b /\ Append(<<a, b>>, c)[3] = c
  BY <1>1
<1>3. /\ <<a, b, c>> \in Seq(R) /\ Len(<<a, b, c>>) = 3
      /\ <<a, b, c>>[1] = a /\ <<a, b, c>>[2] = b /\ <<a, b, c>>[3] = c
  OBVIOUS
<1> HIDE DEF R
<1>4. \A i \in 1..3 : Append(<<a, b>>, c)[i] = <<a, b, c>>[i]
  BY <1>2, <1>3
<1> QED BY <1>2, <1>3, <1>4, SeqEqual

LEMMA RowsCounted ==
    ASSUME Loaded, NEW n
    PROVE  /\ Cardinality(Rows1(n)) = Cardinality(From(n))
           /\ Cardinality(Rows3(n)) = Cardinality(Paths3(n))
<1>1. Cardinality(Rows1(n)) = Cardinality(From(n))
  <2> DEFINE g == [row \in Rows1(n) |-> row[1]]
  <2>1. g \in [Rows1(n) -> From(n)] /\ \A x, y \in Rows1(n) : g[x] = g[y] => x = y
    BY DEF Rows1
  <2>2. ASSUME NEW r \in From(n) PROVE \E row \in Rows1(n) : g[row] = r
    <3>1. <<r>> \in Rows1(n) /\ <<r>>[1] = r
      BY DEF Rows1
    <3> QED BY <3>1
  <2>3. IsFiniteSet(From(n))
    BY Finite
  <2> HIDE DEF g
  <2> QED BY <2>1, <2>2, <2>3, SameSize
<1>2. Cardinality(Rows3(n)) = Cardinality(Paths3(n))
  <2> DEFINE g == [row \in Rows3(n) |-> <<row[1], <<row[2], row[3]>>>>]
  <2>1. \A w \in Paths3(n) : w = <<w[1], <<w[2][1], w[2][2]>>>>
    BY Steps DEF Paths3
  <2>2. ASSUME NEW row \in Rows3(n)
        PROVE  <<row[1], <<row[2], row[3]>>>> \in Paths3(n) /\ row = <<row[1], row[2], row[3]>>
    <3>1. PICK w \in Paths3(n) : row = <<w[1], w[2][1], w[2][2]>>
      BY DEF Rows3
    <3>2. row[1] = w[1] /\ row[2] = w[2][1] /\ row[3] = w[2][2]
      BY <3>1
    <3> QED BY <2>1, <3>1, <3>2
  <2>3. ASSUME NEW w \in Paths3(n) PROVE \E row \in Rows3(n) : g[row] = w
    <3> DEFINE row == <<w[1], w[2][1], w[2][2]>>
    <3>1. row \in Rows3(n) /\ row[1] = w[1] /\ row[2] = w[2][1] /\ row[3] = w[2][2]
      BY DEF Rows3
    <3>2. g[row] = w
      BY <2>1, <3>1
    <3> QED BY <3>1, <3>2
  <2>4. g \in [Rows3(n) -> Paths3(n)] /\ \A x, y \in Rows3(n) : g[x] = g[y] => x = y
    BY <2>2
  <2>5. IsFiniteSet(Paths3(n))
    BY Finite
  <2> HIDE DEF g
  <2> QED BY <2>3, <2>4, <2>5, SameSize
<1> QED BY <1>1, <1>2

LEMMA FalkorFinds ==
    ASSUME Loaded, NEW n
    PROVE  FalkorRows1(n) = Rows1(n) /\ FalkorRows2(n) = Paths2(n) /\ FalkorRows3(n) = Rows3(n)
<1>1. FalkorRows1(n) = Rows1(n)
  BY DEF FalkorRows1, Rows1, From
<1>2. FalkorRows2(n) = Paths2(n)
  <2> DEFINE P == {p \in FalkorRows1(n) \X Relationship :
                     /\ edges[p[2]].source = edges[p[1][1]].target
                     /\ p[2] # p[1][1]}
  <2>1. ASSUME NEW p \in P PROVE Append(p[1], p[2]) \in Paths2(n)
    <3>1. PICK r \in From(n) : p[1] = <<r>>
      BY <1>1 DEF Rows1
    <3>2. p[2] \in From(Head1(r)) /\ p[2] # r
      BY <3>1 DEF From, Head1
    <3>3. <<r, p[2]>> \in Paths2(n)
      BY <3>2, Steps DEF Paths2
    <3> QED BY <3>1, <3>3, AppendToOne
  <2>2. ASSUME NEW w \in Paths2(n) PROVE \E p \in P : w = Append(p[1], p[2])
    <3>1. /\ w = <<w[1], w[2]>> /\ w[1] \in From(n) /\ w[2] \in From(Head1(w[1])) /\ w[1] # w[2]
      BY Steps DEF Paths2
    <3>2. <<w[1]>> \in FalkorRows1(n)
      BY <1>1, <3>1 DEF Rows1
    <3>3. <<<<w[1]>>, w[2]>> \in P
      BY <3>1, <3>2 DEF From, Head1
    <3> QED BY <3>1, <3>3, AppendToOne
  <2>3. FalkorRows2(n) = {Append(p[1], p[2]) : p \in P}
    BY DEF FalkorRows2
  <2> HIDE DEF P
  <2> QED BY <2>1, <2>2, <2>3
<1>3. FalkorRows3(n) = Rows3(n)
  <2> DEFINE P == {p \in FalkorRows2(n) \X Relationship :
                     /\ edges[p[2]].source = edges[p[1][2]].target
                     /\ p[2] # p[1][1] /\ p[2] # p[1][2]}
  <2>1. ASSUME NEW p \in P PROVE Append(p[1], p[2]) \in Rows3(n)
    <3>1. p[1] \in Paths2(n)
      BY <1>2
    <3>2. PICK a, b : p[1] = <<a, b>> /\ a \in From(n) /\ b \in From(Head1(a)) /\ a # b
      BY <3>1, Steps DEF Paths2
    <3>3. p[2] \in From(Head1(b)) /\ p[2] # a /\ p[2] # b
      BY <3>2 DEF From, Head1
    <3>4. <<a, <<b, p[2]>>>> \in Paths3(n)
      BY <3>2, <3>3, Steps DEF Paths3
    <3>5. <<a, b, p[2]>> \in Rows3(n)
      BY <3>4 DEF Rows3
    <3> QED BY <3>2, <3>5, AppendToTwo
  <2>2. ASSUME NEW row \in Rows3(n) PROVE \E p \in P : row = Append(p[1], p[2])
    <3>1. PICK w \in Paths3(n) : row = <<w[1], w[2][1], w[2][2]>>
      BY DEF Rows3
    <3>2. /\ w[1] \in From(n) /\ w[2][1] \in From(Head1(w[1])) /\ w[2][2] \in From(Head1(w[2][1]))
          /\ w[1] # w[2][1] /\ w[2][1] # w[2][2] /\ w[1] # w[2][2]
      BY Steps DEF Paths3
    <3>3. <<w[1], w[2][1]>> \in FalkorRows2(n)
      BY <1>2, <3>2, Steps DEF Paths2
    <3>4. <<<<w[1], w[2][1]>>, w[2][2]>> \in P
      BY <3>2, <3>3 DEF From, Head1
    <3> QED BY <3>1, <3>4, AppendToTwo
  <2>3. FalkorRows3(n) = {Append(p[1], p[2]) : p \in P}
    BY DEF FalkorRows3
  <2> HIDE DEF P
  <2> QED BY <2>1, <2>2, <2>3
<1> QED BY <1>1, <1>2, <1>3

\* The traversal takes the steps the clauses take.
LEMMA ArangoFinds ==
    ASSUME Loaded, NEW n
    PROVE  Extend(Rows1(n)) = Paths2(n) /\ Extend(Paths2(n)) = Rows3(n)
<1>1. Extend(Rows1(n)) = Paths2(n)
  <2>1. ASSUME NEW row \in Extend(Rows1(n)) PROVE row \in Paths2(n)
    <3>1. PICK a \in From(n), b \in Relationship :
            /\ row = Append(<<a>>, b) /\ edges[b].source = edges[<<a>>[Len(<<a>>)]].target
            /\ \A k \in 1..Len(<<a>>) : <<a>>[k] # b
      <4>1. PICK path \in Rows1(n), b \in Relationship :
              /\ row = Append(path, b) /\ edges[b].source = edges[path[Len(path)]].target
              /\ \A k \in 1..Len(path) : path[k] # b
        BY DEF Extend
      <4>2. PICK a \in From(n) : path = <<a>>
        BY DEF Rows1
      <4> QED BY <4>1, <4>2
    <3>2. Len(<<a>>) = 1 /\ <<a>>[1] = a
      OBVIOUS
    <3>3. b \in From(Head1(a)) /\ a # b
      BY <3>1, <3>2 DEF From, Head1
    <3>4. <<a, b>> \in Paths2(n)
      BY <3>3, Steps DEF Paths2
    <3> QED BY <3>1, <3>4, AppendToOne
  <2>2. ASSUME NEW w \in Paths2(n) PROVE w \in Extend(Rows1(n))
    <3>1. /\ w = <<w[1], w[2]>> /\ w[1] \in From(n) /\ w[2] \in From(Head1(w[1])) /\ w[1] # w[2]
      BY Steps DEF Paths2
    <3>2. Len(<<w[1]>>) = 1 /\ <<w[1]>>[1] = w[1] /\ <<w[1]>> \in Rows1(n)
      BY <3>1 DEF Rows1
    <3>3. /\ w[2] \in Relationship /\ edges[w[2]].source = edges[<<w[1]>>[Len(<<w[1]>>)]].target
          /\ \A k \in 1..Len(<<w[1]>>) : <<w[1]>>[k] # w[2]
      BY <3>1, <3>2 DEF From, Head1
    <3>4. w = Append(<<w[1]>>, w[2])
      BY <3>1, AppendToOne
    <3> QED BY <3>2, <3>3, <3>4 DEF Extend
  <2> QED BY <2>1, <2>2
<1>2. Extend(Paths2(n)) = Rows3(n)
  <2>1. ASSUME NEW row \in Extend(Paths2(n)) PROVE row \in Rows3(n)
    <3>1. PICK w \in Paths2(n), c \in Relationship :
            /\ row = Append(w, c) /\ edges[c].source = edges[w[Len(w)]].target
            /\ \A k \in 1..Len(w) : w[k] # c
      BY DEF Extend
    <3>2. PICK a, b : w = <<a, b>> /\ a \in From(n) /\ b \in From(Head1(a)) /\ a # b
      BY Steps DEF Paths2
    <3>3. Len(w) = 2 /\ w[1] = a /\ w[2] = b
      BY <3>2
    <3>4. c \in From(Head1(b)) /\ a # c /\ b # c
      BY <3>1, <3>3 DEF From, Head1
    <3>5. <<a, <<b, c>>>> \in Paths3(n)
      BY <3>2, <3>4, Steps DEF Paths3
    <3>6. <<a, b, c>> \in Rows3(n)
      BY <3>5 DEF Rows3
    <3> QED BY <3>1, <3>2, <3>6, AppendToTwo
  <2>2. ASSUME NEW row \in Rows3(n) PROVE row \in Extend(Paths2(n))
    <3>1. PICK w \in Paths3(n) : row = <<w[1], w[2][1], w[2][2]>>
      BY DEF Rows3
    <3>2. /\ w[1] \in From(n) /\ w[2][1] \in From(Head1(w[1])) /\ w[2][2] \in From(Head1(w[2][1]))
          /\ w[1] # w[2][1] /\ w[2][1] # w[2][2] /\ w[1] # w[2][2]
      BY Steps DEF Paths3
    <3> DEFINE q == <<w[1], w[2][1]>>
    <3>3. q \in Paths2(n) /\ Len(q) = 2 /\ q[1] = w[1] /\ q[2] = w[2][1]
      BY <3>2, Steps DEF Paths2
    <3>4. row = Append(q, w[2][2])
      BY <3>1, AppendToTwo
    <3> HIDE DEF q
    <3> DEFINE c == w[2][2]
    <3> HIDE DEF c
    <3>5. /\ c \in Relationship /\ edges[c].source = edges[q[Len(q)]].target
          /\ \A k \in 1..Len(q) : q[k] # c
      BY <3>2, <3>3 DEF From, Head1, c
    <3>6. row = Append(q, c)
      BY <3>4 DEF c
    <3>7. row \in {Append(q, r) : r \in {e \in Relationship :
                                            /\ edges[e].source = edges[q[Len(q)]].target
                                            /\ \A k \in 1..Len(q) : q[k] # e}}
      BY <3>5, <3>6
    <3> QED BY <3>3, <3>7 DEF Extend
  <2> QED BY <2>1, <2>2
<1> QED BY <1>1, <1>2

CypherRows(n, depth) ==
    {path \in [1..depth -> Relationship] :
        /\ Connected(n, path)
        /\ \A j, k \in 1..depth : j # k => path[j] # path[k]}

\* A fixed pattern is matched by the same assignments.
LEMMA CypherFinds ==
    ASSUME Loaded, NEW n
    PROVE  /\ CypherRows(n, 1) = Rows1(n) /\ CypherRows(n, 2) = Paths2(n)
           /\ CypherRows(n, 3) = Rows3(n)
<1>1. CypherRows(n, 1) = Rows1(n)
  <2>1. ASSUME NEW path \in CypherRows(n, 1) PROVE path \in Rows1(n)
    <3>1. path = <<path[1]>> /\ path[1] \in Relationship /\ edges[path[1]].source = n
      BY DEF CypherRows, Connected
    <3> QED BY <3>1 DEF Rows1, From
  <2>2. ASSUME NEW r \in From(n) PROVE <<r>> \in CypherRows(n, 1)
    <3>1. r \in Relationship /\ edges[r].source = n
      BY DEF From
    <3> DEFINE path == <<r>>
    <3>2. path \in [1..1 -> Relationship] /\ Len(path) = 1 /\ path[1] = r
      BY <3>1
    <3> HIDE DEF path
    <3>3. path \in CypherRows(n, 1)
      BY <3>1, <3>2 DEF CypherRows, Connected
    <3> QED BY <3>3 DEF path
  <2> QED BY <2>1, <2>2 DEF Rows1
<1>2. CypherRows(n, 2) = Paths2(n)
  <2>1. ASSUME NEW path \in CypherRows(n, 2) PROVE path \in Paths2(n)
    <3>1. path \in [1..2 -> Relationship] /\ Connected(n, path) /\ path[1] # path[2]
      BY DEF CypherRows
    <3>2. path = <<path[1], path[2]>> /\ Len(path) = 2
      BY <3>1
    <3>3. path[1] \in From(n) /\ path[2] \in From(Head1(path[1]))
      BY <3>1, <3>2 DEF Connected, From, Head1
    <3> QED BY <3>1, <3>2, <3>3, Steps DEF Paths2
  <2>2. ASSUME NEW w \in Paths2(n) PROVE w \in CypherRows(n, 2)
    <3>1. PICK a, b : w = <<a, b>> /\ a \in From(n) /\ b \in From(Head1(a)) /\ a # b
      BY Steps DEF Paths2
    <3>2. a \in Relationship /\ b \in Relationship /\ edges[a].source = n /\ edges[a].target = edges[b].source
      BY <3>1 DEF From, Head1
    <3>3. w \in [1..2 -> Relationship] /\ Len(w) = 2 /\ w[1] = a /\ w[2] = b
      BY <3>1, <3>2
    <3>4. Connected(n, w)
      BY <3>2, <3>3 DEF Connected
    <3> QED BY <3>1, <3>3, <3>4 DEF CypherRows
  <2> QED BY <2>1, <2>2
<1>3. CypherRows(n, 3) = Rows3(n)
  <2>1. ASSUME NEW path \in CypherRows(n, 3) PROVE path \in Rows3(n)
    <3>1. /\ path \in [1..3 -> Relationship] /\ Connected(n, path)
          /\ path[1] # path[2] /\ path[2] # path[3] /\ path[1] # path[3]
      BY DEF CypherRows
    <3>2. path = <<path[1], path[2], path[3]>> /\ Len(path) = 3
      BY <3>1
    <3>3. /\ path[1] \in From(n) /\ path[2] \in From(Head1(path[1]))
          /\ path[3] \in From(Head1(path[2]))
      BY <3>1, <3>2 DEF Connected, From, Head1
    <3>4. <<path[1], <<path[2], path[3]>>>> \in Paths3(n)
      BY <3>1, <3>3, Steps DEF Paths3
    <3> QED BY <3>2, <3>4 DEF Rows3
  <2>2. ASSUME NEW w \in Paths3(n) PROVE <<w[1], w[2][1], w[2][2]>> \in CypherRows(n, 3)
    <3>1. PICK a, b, c : /\ w[1] = a /\ w[2][1] = b /\ w[2][2] = c
                         /\ a \in From(n) /\ b \in From(Head1(a)) /\ c \in From(Head1(b))
                         /\ a # b /\ b # c /\ a # c
      BY Steps DEF Paths3
    <3>2. /\ a \in Relationship /\ b \in Relationship /\ c \in Relationship
          /\ edges[a].source = n /\ edges[a].target = edges[b].source
          /\ edges[b].target = edges[c].source
      BY <3>1 DEF From, Head1
    <3> DEFINE path == <<a, b, c>>
    <3>3. /\ path \in [1..3 -> Relationship] /\ Len(path) = 3
          /\ path[1] = a /\ path[2] = b /\ path[3] = c
      BY <3>2
    <3> HIDE DEF path
    <3>4. Connected(n, path)
      BY <3>2, <3>3 DEF Connected
    <3>5. path \in CypherRows(n, 3)
      BY <3>1, <3>3, <3>4 DEF CypherRows
    <3> QED BY <3>1, <3>5 DEF path
  <2> QED BY <2>1, <2>2 DEF Rows3
<1> QED BY <1>1, <1>2, <1>3

LEMMA QueriesCount ==
    ASSUME Loaded, NEW n
    PROVE  \A d \in Depth : /\ CypherHop(n, d) = PathCount(n, d)
                            /\ FalkorHop(n, d) = PathCount(n, d)
                            /\ ArangoHop(n, d) = PathCount(n, d)
<1>1. /\ Cardinality(Rows1(n)) = PathCount(n, 1)
      /\ Cardinality(Paths2(n)) = PathCount(n, 2)
      /\ Cardinality(Rows3(n)) = PathCount(n, 3)
  BY RowsCounted, OracleCounts
<1>2. \A d : CypherHop(n, d) = Cardinality(CypherRows(n, d))
  BY DEF CypherHop, CypherRows
<1>3. /\ FalkorHop(n, 1) = Cardinality(Rows1(n)) /\ FalkorHop(n, 2) = Cardinality(Paths2(n))
      /\ FalkorHop(n, 3) = Cardinality(Rows3(n))
  BY FalkorFinds DEF FalkorHop
<1>4. /\ ArangoHop(n, 1) = Cardinality(Rows1(n)) /\ ArangoHop(n, 2) = Cardinality(Paths2(n))
      /\ ArangoHop(n, 3) = Cardinality(Rows3(n))
  <2>1. {<<r>> : r \in {e \in Relationship : edges[e].source = n}} = Rows1(n)
    BY DEF Rows1, From
  <2> QED BY <2>1, ArangoFinds DEF ArangoHop
<1>5. /\ CypherHop(n, 1) = Cardinality(Rows1(n)) /\ CypherHop(n, 2) = Cardinality(Paths2(n))
      /\ CypherHop(n, 3) = Cardinality(Rows3(n))
  BY <1>2, CypherFinds
<1> QED BY <1>1, <1>3, <1>4, <1>5 DEF Depth

LEMMA GraphInvariance == RefSpec => []Loaded
<1>1. RefInit => Loaded
  BY DEF RefInit, NoEdges, Loaded
<1>2. Loaded /\ [RefNext]_<<samples, edges>> => Loaded'
  BY DEF Loaded, RefNext, Load, Collect
<1> QED BY <1>1, <1>2, PTL DEF RefSpec

\* On every multigraph, path_count is the number of walks less those that use a
\* relationship twice: its inline exclusions miss none and drop none.
THEOREM OracleIsRight == RefSpec => []CountsAreOfWalks
<1>1. Loaded => CountsAreOfWalks
  BY OracleCounts, PathsCounted DEF CountsAreOfWalks, Depth
<1> QED BY <1>1, GraphInvariance, PTL

\* On every multigraph, the three families of adapters answer what the oracle
\* does: a pattern with unique relationships, clauses with stated predicates
\* and a traversal with uniqueEdges are one query.
THEOREM QueriesAreEquivalent == RefSpec => []QueriesAgree
<1>1. Loaded => QueriesAgree
  BY QueriesCount DEF QueriesAgree
<1> QED BY <1>1, GraphInvariance, PTL
-----------------------------------------------------------------------------
(* Sorting.                                                                *)

\* Latencies: a finite family of durations, by position.
Family(v) == IsFiniteSet(DOMAIN v) /\ DOMAIN v \subseteq Nat /\ v \in [DOMAIN v -> Nat]

NoLater(v, i) == {j \in DOMAIN v : v[j] < v[i] \/ (v[j] = v[i] /\ j <= i)}
Size(v) == Cardinality(DOMAIN v)

LEMMA PlaceType ==
    ASSUME NEW v, Family(v), NEW i \in DOMAIN v
    PROVE  /\ IsFiniteSet(NoLater(v, i)) /\ Place(v, i) = Cardinality(NoLater(v, i))
           /\ Size(v) \in Nat /\ Place(v, i) \in 1..Size(v) /\ i \in NoLater(v, i)
<1>1. NoLater(v, i) \in SUBSET DOMAIN v /\ i \in NoLater(v, i)
  BY DEF NoLater, Family
<1>2. /\ IsFiniteSet(NoLater(v, i)) /\ Cardinality(NoLater(v, i)) <= Cardinality(DOMAIN v)
      /\ Cardinality(NoLater(v, i)) \in Nat /\ Cardinality(DOMAIN v) \in Nat
  BY <1>1, FS_Subset, FS_CardinalityType DEF Family
<1>3. Cardinality(NoLater(v, i)) # 0
  BY <1>1, <1>2, FS_EmptySet
<1> QED BY <1>1, <1>2, <1>3 DEF Place, NoLater, Size

\* Who comes no later has no higher place, and different samples have different places.
LEMMA PlaceOrder ==
    ASSUME NEW v, Family(v), NEW i \in DOMAIN v, NEW j \in NoLater(v, i)
    PROVE  Place(v, j) <= Place(v, i) /\ (Place(v, j) = Place(v, i) => j = i)
<1>1. j \in DOMAIN v
  BY DEF NoLater
<1>2. v[i] \in Nat /\ v[j] \in Nat /\ i \in Nat /\ j \in Nat
  BY <1>1 DEF Family
<1>3. NoLater(v, j) \in SUBSET NoLater(v, i)
  <2> SUFFICES ASSUME NEW k \in NoLater(v, j) PROVE k \in NoLater(v, i)
    OBVIOUS
  <2>1. k \in DOMAIN v /\ v[k] \in Nat /\ k \in Nat
    BY DEF NoLater, Family
  <2> QED BY <1>2, <2>1 DEF NoLater
<1>4. Place(v, j) <= Place(v, i)
  BY <1>1, <1>3, PlaceType, FS_Subset
<1>5. ASSUME Place(v, j) = Place(v, i) PROVE j = i
  <2>1. NoLater(v, j) = NoLater(v, i)
    BY <1>1, <1>3, <1>5, PlaceType, FS_Subset
  <2>2. i \in NoLater(v, j)
    BY <2>1, PlaceType
  <2> QED BY <1>2, <2>2 DEF NoLater
<1> QED BY <1>4, <1>5

LEMMA PlaceOnce ==
    ASSUME NEW v, Family(v), NEW i \in DOMAIN v, NEW j \in DOMAIN v, Place(v, i) = Place(v, j)
    PROVE  i = j
<1>1. v[i] \in Nat /\ v[j] \in Nat /\ i \in Nat /\ j \in Nat
  BY DEF Family
<1>2. j \in NoLater(v, i) \/ i \in NoLater(v, j)
  BY <1>1 DEF NoLater
<1> QED BY <1>2, PlaceOrder

\* Every place is somebody's, as there are as many places as samples.
LEMMA PlaceTaken ==
    ASSUME NEW v, Family(v), NEW k \in 1..Size(v)
    PROVE  \E i \in DOMAIN v : Place(v, i) = k
<1> DEFINE D == DOMAIN v
           T == 1..Size(v)
           g == [i \in D |-> Place(v, i)]
<1>1. Size(v) \in Nat /\ IsFiniteSet(D) /\ Cardinality(D) = Size(v)
  BY FS_CardinalityType DEF Family, Size
<1>2. IsFiniteSet(T) /\ Cardinality(T) = Size(v)
  BY <1>1, FS_Interval
<1>3. g \in [D -> T]
  BY PlaceType
<1>4. \A i, j \in D : g[i] = g[j] => i = j
  BY PlaceOnce
<1>5. \A i \in D : g[i] = Place(v, i)
  OBVIOUS
<1> HIDE DEF g, D, T
<1>6. g \in Injection(D, T)
  BY <1>3, <1>4 DEF Injection, IsInjective
<1>7. g \in Surjection(D, T)
  BY <1>1, <1>2, <1>6, FS_Injection
<1>8. \E i \in D : g[i] = k
  BY <1>7 DEF Surjection, T
<1> QED BY <1>5, <1>8 DEF D

At1(v, k) == CHOOSE i \in DOMAIN v : Place(v, i) = k

LEMMA SortedAt ==
    ASSUME NEW v, Family(v), NEW k \in 1..Size(v)
    PROVE  /\ At1(v, k) \in DOMAIN v /\ Place(v, At1(v, k)) = k
           /\ Sorted(v)[k] = v[At1(v, k)] /\ Sorted(v)[k] \in Nat
<1>1. At1(v, k) \in DOMAIN v /\ Place(v, At1(v, k)) = k
  BY PlaceTaken DEF At1
<1>2. Sorted(v)[k] = v[At1(v, k)]
  BY DEF Sorted, At1, Size
<1> QED BY <1>1, <1>2 DEF Family

LEMMA SortedLen ==
    ASSUME NEW v, Family(v)
    PROVE  Len(Sorted(v)) = Size(v) /\ Size(v) \in Nat
<1>1. Size(v) \in Nat
  BY FS_CardinalityType DEF Family, Size
<1> QED BY <1>1 DEF Sorted, Size

LEMMA SortedOrder ==
    ASSUME NEW v, Family(v), NEW k \in 1..Size(v), NEW l \in 1..Size(v), k <= l
    PROVE  Sorted(v)[k] <= Sorted(v)[l]
<1> DEFINE i == At1(v, k)
           j == At1(v, l)
<1>1. /\ i \in DOMAIN v /\ Place(v, i) = k /\ Sorted(v)[k] = v[i] /\ v[i] \in Nat
      /\ j \in DOMAIN v /\ Place(v, j) = l /\ Sorted(v)[l] = v[j] /\ v[j] \in Nat
  BY SortedAt
<1> HIDE DEF i, j
<1>2. ASSUME v[j] < v[i] PROVE FALSE
  <2>1. j \in NoLater(v, i)
    BY <1>1, <1>2 DEF NoLater
  <2>2. l <= k /\ (l = k => j = i)
    BY <1>1, <2>1, PlaceOrder
  <2>3. k \in Nat /\ l \in Nat
    BY SortedLen
  <2> QED BY <1>1, <1>2, <2>2, <2>3
<1> QED BY <1>1, <1>2

Below(v, x)   == {i \in DOMAIN v : v[i] < x}
AtMost(v, x)  == {i \in DOMAIN v : v[i] <= x}
AtLeast(v, x) == {i \in DOMAIN v : v[i] >= x}

\* How many are below, at and above the k-th value.
LEMMA SortedCounts ==
    ASSUME NEW v, Family(v), NEW k \in 1..Size(v), NEW x, x = Sorted(v)[k]
    PROVE  /\ IsFiniteSet(Below(v, x)) /\ IsFiniteSet(AtMost(v, x)) /\ IsFiniteSet(AtLeast(v, x))
           /\ Cardinality(Below(v, x)) \in Nat /\ Cardinality(Below(v, x)) <= k - 1
           /\ Cardinality(AtMost(v, x)) \in Nat /\ Cardinality(AtMost(v, x)) >= k
           /\ Cardinality(AtLeast(v, x)) \in Nat
           /\ Cardinality(AtLeast(v, x)) >= Size(v) - k + 1
<1> DEFINE i == At1(v, k)
<1>1. i \in DOMAIN v /\ Place(v, i) = k /\ x = v[i] /\ x \in Nat
  BY SortedAt
<1> HIDE DEF i
<1>2. /\ IsFiniteSet(NoLater(v, i)) /\ Cardinality(NoLater(v, i)) = k /\ i \in NoLater(v, i)
      /\ k \in Nat /\ Size(v) \in Nat
  BY <1>1, PlaceType, SortedLen
<1>3. \A j \in DOMAIN v : v[j] \in Nat /\ j \in Nat
  BY DEF Family
<1>4. Below(v, x) \in SUBSET DOMAIN v /\ AtMost(v, x) \in SUBSET DOMAIN v /\ AtLeast(v, x) \in SUBSET DOMAIN v
  BY DEF Below, AtMost, AtLeast
<1>5. /\ IsFiniteSet(Below(v, x)) /\ IsFiniteSet(AtMost(v, x)) /\ IsFiniteSet(AtLeast(v, x))
      /\ Cardinality(Below(v, x)) \in Nat /\ Cardinality(AtMost(v, x)) \in Nat
      /\ Cardinality(AtLeast(v, x)) \in Nat
  BY <1>4, FS_Subset, FS_CardinalityType DEF Family
<1>6. Cardinality(Below(v, x)) <= k - 1
  <2>1. Below(v, x) \in SUBSET (NoLater(v, i) \ {i})
    BY <1>1, <1>3 DEF Below, NoLater
  <2>2. IsFiniteSet(NoLater(v, i) \ {i}) /\ Cardinality(NoLater(v, i) \ {i}) = k - 1
    BY <1>2, FS_RemoveElement
  <2> QED BY <2>1, <2>2, FS_Subset
<1>7. Cardinality(AtMost(v, x)) >= k
  <2>1. NoLater(v, i) \in SUBSET AtMost(v, x)
    BY <1>1, <1>3 DEF AtMost, NoLater
  <2>2. Cardinality(NoLater(v, i)) <= Cardinality(AtMost(v, x))
    BY <1>5, <2>1, FS_Subset
  <2> QED BY <1>2, <1>5, <2>2
<1>8. Cardinality(AtLeast(v, x)) >= Size(v) - k + 1
  <2>1. AtLeast(v, x) = DOMAIN v \ Below(v, x) /\ DOMAIN v \cap Below(v, x) = Below(v, x)
    BY <1>1, <1>3 DEF AtLeast, Below
  <2>2. Cardinality(AtLeast(v, x)) = Size(v) - Cardinality(Below(v, x))
    <3>1. IsFiniteSet(DOMAIN v) /\ Size(v) = Cardinality(DOMAIN v)
      BY DEF Family, Size
    <3>2. Cardinality(DOMAIN v \ Below(v, x))
            = Cardinality(DOMAIN v) - Cardinality(DOMAIN v \cap Below(v, x))
      BY <3>1, FS_Difference
    <3> QED BY <2>1, <3>1, <3>2
  <2> QED BY <1>2, <1>5, <1>6, <2>2
<1> QED BY <1>5, <1>6, <1>7, <1>8

\* The audit finds the same value from counts.
LEMMA RankedIsSorted ==
    ASSUME NEW v, Family(v), NEW k \in 0..(Size(v) - 1)
    PROVE  Ranked(v, k) = Sorted(v)[k + 1]
<1> DEFINE x == Sorted(v)[k + 1]
           Fits(y) == /\ Cardinality(Below(v, y)) <= k /\ Cardinality(AtMost(v, y)) > k
<1>0. Size(v) \in Nat /\ k + 1 \in 1..Size(v) /\ k \in Nat
  BY SortedLen
<1>1. x \in Range(v) /\ x \in Nat
  BY <1>0, SortedAt DEF Range
<1>2. Fits(x)
  BY <1>0, SortedCounts
<1>3. ASSUME NEW y \in Range(v), NEW z \in Range(v), Fits(y), Fits(z), y < z PROVE FALSE
  <2>0. y \in Nat /\ z \in Nat /\ \A j \in DOMAIN v : v[j] \in Nat
    BY DEF Family, Range
  <2>1. AtMost(v, y) \in SUBSET Below(v, z)
    BY <1>3, <2>0 DEF AtMost, Below
  <2>2. Below(v, z) \in SUBSET DOMAIN v
    BY DEF Below
  <2>3. IsFiniteSet(Below(v, z)) /\ Cardinality(Below(v, z)) \in Nat
    BY <2>2, FS_Subset, FS_CardinalityType DEF Family
  <2>4. Cardinality(AtMost(v, y)) <= Cardinality(Below(v, z)) /\ Cardinality(AtMost(v, y)) \in Nat
    <3> HIDE DEF Fits
    <3>1. IsFiniteSet(AtMost(v, y)) /\ Cardinality(AtMost(v, y)) <= Cardinality(Below(v, z))
      BY <2>1, <2>3, FS_Subset
    <3> QED BY <3>1, FS_CardinalityType
  <2> QED BY <1>0, <1>3, <2>3, <2>4
<1>4. \A y \in Range(v) : Fits(y) => y = x
  <2>1. \A y \in Range(v) : y \in Nat
    BY DEF Family, Range
  <2> HIDE DEF x, Fits
  <2> QED BY <1>1, <1>2, <1>3, <2>1
<1>5. Ranked(v, k) = CHOOSE y \in Range(v) : Fits(y)
  BY DEF Ranked, Below, AtMost
<1> HIDE DEF x, Fits
<1>6. Ranked(v, k) = x
  BY <1>1, <1>2, <1>4, <1>5
<1> QED BY <1>6 DEF x
-----------------------------------------------------------------------------
(* Percentiles.                                                            *)

LEMMA Share ==
    ASSUME NEW d \in Nat, NEW f \in 0..100
    PROVE  d * f \in Nat /\ d * f <= 100 * d
OBVIOUS

\* Between two values, in proportion.
LEMMA Proportion ==
    ASSUME NEW a \in Nat, NEW b \in Nat, a <= b, NEW f \in 0..100
    PROVE  /\ 100 * a + (b - a) * f \in Nat
           /\ 100 * a <= 100 * a + (b - a) * f /\ 100 * a + (b - a) * f <= 100 * b
<1> DEFINE d == b - a
<1>1. d \in Nat /\ b = a + d
  OBVIOUS
<1> HIDE DEF d
<1>2. d * f \in Nat /\ d * f <= 100 * d
  BY <1>1, Share
<1>3. 100 * a + d * f \in Nat /\ 100 * a <= 100 * a + d * f /\ 100 * a + d * f <= 100 * b
  BY <1>1, <1>2
<1> QED BY <1>3 DEF d

\* Where the percentile is: f hundredths of the way from one place to the next,
\* and on a place where f is zero.
Lower(v, p) == ((Size(v) - 1) * p) \div 100
Part(v, p)  == ((Size(v) - 1) * p) % 100
Upper(v, p) == IF Lower(v, p) < Size(v) - 1 THEN Lower(v, p) + 1 ELSE Size(v) - 1

LEMMA Hundredths ==
    ASSUME NEW x \in Nat
    PROVE  x \div 100 \in Int /\ x % 100 \in 0..99 /\ x = 100 * (x \div 100) + (x % 100)
<1>1. x \div 100 \in Int
  OBVIOUS
<1>2. x % 100 \in 0..99
  OBVIOUS
<1>3. x = 100 * (x \div 100) + (x % 100)
  OBVIOUS
<1> QED BY <1>1, <1>2, <1>3

LEMMA Distribute ==
    ASSUME NEW c \in Int, NEW r \in Int, NEW s \in Int
    PROVE  c * (r - s) = c * r - c * s /\ c * r \in Int /\ c * s \in Int
OBVIOUS

LEMMA Position ==
    ASSUME NEW v, Family(v), DOMAIN v # {}, NEW p \in 0..100
    PROVE  /\ Size(v) \in Nat \ {0}
           /\ Lower(v, p) \in 0..(Size(v) - 1) /\ Upper(v, p) \in 0..(Size(v) - 1)
           /\ Part(v, p) \in 0..99
           /\ (Size(v) - 1) * p = 100 * Lower(v, p) + Part(v, p)
           /\ Lower(v, p) <= Upper(v, p)
           /\ Part(v, p) > 0 => Upper(v, p) = Lower(v, p) + 1
<1> DEFINE gaps == Size(v) - 1
           position == gaps * p
<1>1. Size(v) \in Nat \ {0} /\ gaps \in Nat
  BY SortedLen, FS_EmptySet DEF Family, Size
<1> HIDE DEF gaps
<1>2. position \in Nat /\ position <= 100 * gaps
  BY <1>1, Share
<1> HIDE DEF position
<1>3. /\ Lower(v, p) = position \div 100 /\ Part(v, p) = position % 100
      /\ Upper(v, p) = IF Lower(v, p) < gaps THEN Lower(v, p) + 1 ELSE gaps
  BY DEF Lower, Part, Upper, gaps, position
<1>4. /\ position \div 100 \in Int /\ position % 100 \in 0..99
      /\ position = 100 * (position \div 100) + (position % 100)
  BY <1>2, Hundredths
<1>5. /\ Lower(v, p) \in 0..gaps /\ Part(v, p) \in 0..99
      /\ position = 100 * Lower(v, p) + Part(v, p)
      /\ Part(v, p) > 0 => Lower(v, p) < gaps
  BY <1>1, <1>2, <1>3, <1>4
<1>6. /\ Upper(v, p) \in 0..gaps /\ Lower(v, p) <= Upper(v, p)
      /\ Part(v, p) > 0 => Upper(v, p) = Lower(v, p) + 1
  BY <1>1, <1>3, <1>5
<1> QED BY <1>1, <1>5, <1>6 DEF gaps, position

LEMMA PercentileIs ==
    ASSUME NEW v, Family(v), DOMAIN v # {}, NEW p \in 0..100,
           NEW a, a = Sorted(v)[Lower(v, p) + 1], NEW b, b = Sorted(v)[Upper(v, p) + 1]
    PROVE  /\ PercentileOf(v, p) = 100 * a + (b - a) * Part(v, p)
           /\ AuditPercentile(v, p) = 100 * a + (b - a) * Part(v, p)
           /\ a \in Nat /\ b \in Nat /\ a <= b
<1>1. /\ Size(v) \in Nat \ {0} /\ Lower(v, p) \in 0..(Size(v) - 1)
      /\ Upper(v, p) \in 0..(Size(v) - 1) /\ Lower(v, p) <= Upper(v, p)
  BY Position
<1>2. PercentileOf(v, p) = 100 * a + (b - a) * Part(v, p)
  <2>1. PercentileOf(v, p) = Percentile(Sorted(v), p)
    BY DEF PercentileOf
  <2>2. Len(Sorted(v)) - 1 = Size(v) - 1
    BY SortedLen
  <2>3. Percentile(Sorted(v), p)
          = 100 * At(Sorted(v), Lower(v, p))
              + (At(Sorted(v), Upper(v, p)) - At(Sorted(v), Lower(v, p))) * Part(v, p)
    BY <2>2 DEF Percentile, Lower, Upper, Part
  <2> QED BY <2>1, <2>3 DEF At
<1>3. AuditPercentile(v, p) = 100 * a + (b - a) * Part(v, p)
  <2>1. Ranked(v, Lower(v, p)) = a /\ Ranked(v, Upper(v, p)) = b
    BY <1>1, RankedIsSorted
  <2>2. Upper(v, p) = IF Lower(v, p) + 1 > Size(v) - 1 THEN Size(v) - 1 ELSE Lower(v, p) + 1
    BY <1>1 DEF Upper
  <2>3. AuditPercentile(v, p)
          = 100 * Ranked(v, Lower(v, p))
              + (Ranked(v, Upper(v, p)) - Ranked(v, Lower(v, p))) * Part(v, p)
    BY <2>2 DEF AuditPercentile, Lower, Part, Size
  <2> QED BY <2>1, <2>3
<1>4. a \in Nat /\ b \in Nat /\ a <= b
  <2>1. Lower(v, p) + 1 \in 1..Size(v) /\ Upper(v, p) + 1 \in 1..Size(v)
        /\ Lower(v, p) + 1 <= Upper(v, p) + 1
    BY <1>1
  <2> QED BY <2>1, SortedAt, SortedOrder
<1> QED BY <1>2, <1>3, <1>4

LEMMA PercentileSplits ==
    ASSUME NEW v, Family(v), DOMAIN v # {}, NEW p \in 0..100, NEW x, x = PercentileOf(v, p)
    PROVE  /\ 100 * Cardinality({i \in DOMAIN v : 100 * v[i] <= x}) > (Size(v) - 1) * p
           /\ 100 * Cardinality({i \in DOMAIN v : 100 * v[i] >= x}) > (Size(v) - 1) * (100 - p)
<1> DEFINE n == Size(v)
           l == Lower(v, p)
           u == Upper(v, p)
           f == Part(v, p)
           a == Sorted(v)[l + 1]
           b == Sorted(v)[u + 1]
           A == {i \in DOMAIN v : 100 * v[i] <= x}
           B == {i \in DOMAIN v : 100 * v[i] >= x}
<1>0. n \in Nat \ {0} /\ l \in 0..(n - 1) /\ u \in 0..(n - 1)
  BY Position
<1>1. /\ n \in Nat \ {0} /\ l \in 0..(n - 1) /\ u \in 0..(n - 1) /\ f \in 0..99
      /\ (n - 1) * p = 100 * l + f /\ (f > 0 => u = l + 1)
  BY Position
<1>2. x = 100 * a + (b - a) * f /\ a \in Nat /\ b \in Nat /\ a <= b
  BY PercentileIs
<1>3. \A i \in DOMAIN v : v[i] \in Nat
  BY DEF Family
<1>4. /\ IsFiniteSet(AtMost(v, a)) /\ Cardinality(AtMost(v, a)) \in Nat
      /\ Cardinality(AtMost(v, a)) >= l + 1
      /\ Cardinality(AtLeast(v, a)) \in Nat /\ Cardinality(AtLeast(v, a)) >= n - (l + 1) + 1
  <2>1. l + 1 \in 1..Size(v)
    BY <1>0
  <2> HIDE DEF l
  <2> QED BY <2>1, SortedCounts
<1>5. Cardinality(AtLeast(v, b)) \in Nat /\ Cardinality(AtLeast(v, b)) >= n - (u + 1) + 1
  <2>1. u + 1 \in 1..Size(v)
    BY <1>0
  <2> HIDE DEF u
  <2> QED BY <2>1, SortedCounts
<1>6. IsFiniteSet(A) /\ IsFiniteSet(B) /\ Cardinality(A) \in Nat /\ Cardinality(B) \in Nat
  <2>1. IsFiniteSet(DOMAIN v)
    BY DEF Family
  <2>2. A \in SUBSET DOMAIN v
    OBVIOUS
  <2>3. B \in SUBSET DOMAIN v
    OBVIOUS
  <2> HIDE DEF A, B
  <2> QED BY <2>1, <2>2, <2>3, FS_Subset, FS_CardinalityType
<1>7. (n - 1) * (100 - p) = 100 * (n - 1) - (100 * l + f)
  <2> DEFINE gaps == n - 1
  <2>1. gaps \in Int /\ p \in Int /\ 100 \in Int
    BY <1>1
  <2>2. gaps * p = 100 * l + f
    BY <1>1
  <2> HIDE DEF gaps, l, f, n
  <2>3. gaps * (100 - p) = gaps * 100 - gaps * p
    BY <2>1, Distribute
  <2>4. gaps * (100 - p) = 100 * gaps - (100 * l + f)
    BY <2>1, <2>2, <2>3
  <2> QED BY <2>4 DEF gaps
<1> HIDE DEF n, l, u, f, a, b
<1>8. 100 * a <= x /\ x <= 100 * b /\ x \in Nat
  BY <1>1, <1>2, Proportion
<1>9. Cardinality(A) >= l + 1
  <2>1. AtMost(v, a) \in SUBSET A
    BY <1>2, <1>3, <1>8 DEF AtMost
  <2> HIDE DEF A
  <2>2. Cardinality(AtMost(v, a)) <= Cardinality(A)
    BY <2>1, <1>6, FS_Subset
  <2> QED BY <1>1, <1>4, <1>6, <2>2
<1>10. 100 * Cardinality(B) > 100 * (n - 1) - (100 * l + f)
  <2>1. CASE f = 0
    <3>1. x = 100 * a
      BY <1>2, <2>1
    <3>2. AtLeast(v, a) \in SUBSET B
      BY <1>2, <1>3, <3>1 DEF AtLeast
    <3> HIDE DEF B
    <3>3. Cardinality(AtLeast(v, a)) <= Cardinality(B)
      BY <3>2, <1>6, FS_Subset
    <3> QED BY <1>1, <1>4, <1>6, <2>1, <3>3
  <2>2. CASE f > 0
    <3>1. AtLeast(v, b) \in SUBSET B
      BY <1>2, <1>3, <1>8 DEF AtLeast
    <3> HIDE DEF B
    <3>2. Cardinality(AtLeast(v, b)) <= Cardinality(B)
      BY <3>1, <1>6, FS_Subset
    <3> QED BY <1>1, <1>5, <1>6, <2>2, <3>2
  <2> QED BY <1>1, <2>1, <2>2
<1> HIDE DEF A, B
<1>11. 100 * Cardinality(A) > 100 * l + f
  BY <1>1, <1>6, <1>9
<1>12. 100 * Cardinality(A) > (n - 1) * p /\ 100 * Cardinality(B) > (n - 1) * (100 - p)
  BY <1>1, <1>7, <1>10, <1>11
<1> QED BY <1>12 DEF A, B, n

LEMMA PercentileOrder ==
    ASSUME NEW v, Family(v), DOMAIN v # {}, NEW p \in 0..100, NEW q \in 0..100, p <= q
    PROVE  PercentileOf(v, p) <= PercentileOf(v, q)
<1> DEFINE n == Size(v)
           l == Lower(v, p)
           u == Upper(v, p)
           f == Part(v, p)
           l2 == Lower(v, q)
           u2 == Upper(v, q)
           f2 == Part(v, q)
           a == Sorted(v)[l + 1]
           b == Sorted(v)[u + 1]
           a2 == Sorted(v)[l2 + 1]
           b2 == Sorted(v)[u2 + 1]
<1>0. n \in Nat \ {0}
  BY Position
<1>1. /\ n \in Nat \ {0} /\ l \in 0..(n - 1) /\ u \in 0..(n - 1) /\ f \in 0..99
      /\ (n - 1) * p = 100 * l + f /\ u = (IF l < n - 1 THEN l + 1 ELSE n - 1)
  BY Position DEF Upper
<1>2. /\ l2 \in 0..(n - 1) /\ u2 \in 0..(n - 1) /\ f2 \in 0..99
      /\ (n - 1) * q = 100 * l2 + f2 /\ u2 = (IF l2 < n - 1 THEN l2 + 1 ELSE n - 1)
  BY Position DEF Upper
<1>3. PercentileOf(v, p) = 100 * a + (b - a) * f /\ a \in Nat /\ b \in Nat /\ a <= b
  BY PercentileIs
<1>4. PercentileOf(v, q) = 100 * a2 + (b2 - a2) * f2 /\ a2 \in Nat /\ b2 \in Nat /\ a2 <= b2
  BY PercentileIs
<1>5. \A j, k \in 0..(n - 1) : j <= k => Sorted(v)[j + 1] <= Sorted(v)[k + 1]
  <2> SUFFICES ASSUME NEW j \in 0..(n - 1), NEW k \in 0..(n - 1), j <= k
               PROVE  Sorted(v)[j + 1] <= Sorted(v)[k + 1]
    OBVIOUS
  <2>1. j + 1 \in 1..Size(v) /\ k + 1 \in 1..Size(v) /\ j + 1 <= k + 1
    BY <1>1
  <2> QED BY <2>1, SortedOrder
<1>6. (n - 1) * p <= (n - 1) * q
  <2> DEFINE gaps == n - 1
  <2>1. gaps \in Nat /\ q - p \in 0..100 /\ p \in Int /\ q \in Int
    BY <1>0
  <2> HIDE DEF gaps
  <2>2. gaps * (q - p) \in Nat
    BY <2>1, Share
  <2>3. gaps * (q - p) = gaps * q - gaps * p /\ gaps * p \in Int /\ gaps * q \in Int
    BY <2>1, Distribute
  <2>4. gaps * p <= gaps * q
    BY <2>2, <2>3
  <2> QED BY <2>4 DEF gaps
<1> HIDE DEF n, l, u, f, l2, u2, f2
<1>7. CASE l = l2
  <2>1. f <= f2 /\ u = u2 /\ f2 - f \in 0..100
    BY <1>1, <1>2, <1>6, <1>7
  <2>2. b - a \in Nat /\ f2 - f \in 0..100
    <3> HIDE DEF a, b
    <3>1. a \in Nat /\ b \in Nat /\ a <= b
      BY <1>3, Zenon
    <3> QED BY <2>1, <3>1
  <2>3. (b - a) * (f2 - f) \in Nat
    BY <2>2, Share
  <2> DEFINE d == b - a
  <2>4. d \in Int /\ f \in Int /\ f2 \in Int
    BY <1>1, <1>2, <2>2
  <2>5. a2 = a /\ b2 = b
    BY <1>7, <2>1
  <2>6. /\ PercentileOf(v, p) = 100 * a + d * f
        /\ PercentileOf(v, q) = 100 * a + d * f2
    BY <1>3, <1>4, <2>5
  <2>7. d * (f2 - f) \in Nat /\ a \in Nat
    BY <1>3, <2>3
  <2> HIDE DEF a, b, a2, b2, d
  <2>8. d * (f2 - f) = d * f2 - d * f /\ d * f2 \in Int /\ d * f \in Int
    BY <2>4, Distribute
  <2> QED BY <2>6, <2>7, <2>8
<1>8. CASE l # l2
  <2>1. u <= l2
    BY <1>1, <1>2, <1>6, <1>8
  <2>2. b <= a2
    BY <1>1, <1>2, <1>5, <2>1
  <2>3. PercentileOf(v, p) <= 100 * b /\ PercentileOf(v, p) \in Nat
    BY <1>1, <1>3, Proportion
  <2>4. 100 * a2 <= PercentileOf(v, q) /\ PercentileOf(v, q) \in Nat
    BY <1>2, <1>4, Proportion
  <2> QED BY <1>3, <1>4, <2>2, <2>3, <2>4
<1> QED BY <1>7, <1>8
-----------------------------------------------------------------------------
(* The statistics of a list of samples.                                    *)

LEMMA Extremes ==
    ASSUME NEW v, Family(v), DOMAIN v # {}
    PROVE  Ranked(v, 0) = Min(Range(v)) /\ Ranked(v, Size(v) - 1) = Max(Range(v))
<1>1. Size(v) \in Nat \ {0} /\ IsFiniteSet(DOMAIN v) /\ Size(v) = Cardinality(DOMAIN v)
  BY SortedLen, FS_EmptySet DEF Family, Size
<1>2. \A i \in DOMAIN v : v[i] \in Nat
  BY DEF Family
<1>3. ASSUME NEW k \in 1..Size(v) PROVE Sorted(v)[k] \in Range(v) /\ Sorted(v)[k] \in Nat
  BY SortedAt DEF Range
<1>4. Ranked(v, 0) = Min(Range(v))
  <2> DEFINE x == Sorted(v)[1]
  <2>1. 1 \in 1..Size(v) /\ 0 \in 0..(Size(v) - 1)
    BY <1>1
  <2>2. Ranked(v, 0) = Sorted(v)[0 + 1]
    BY <2>1, RankedIsSorted
  <2>3. x \in Range(v) /\ x \in Nat
    BY <1>3, <2>1
  <2> HIDE DEF x
  <2>4. Below(v, x) = {}
    <3>1. /\ IsFiniteSet(Below(v, x)) /\ Cardinality(Below(v, x)) \in Nat
          /\ Cardinality(Below(v, x)) <= 1 - 1
      BY <2>1, SortedCounts DEF x
    <3>2. Cardinality(Below(v, x)) = 0
      BY <3>1
    <3> QED BY <3>1, <3>2, FS_EmptySet
  <2>5. \A y \in Range(v) : y \in Nat /\ x <= y
    BY <1>2, <2>3, <2>4 DEF Below, Range
  <2>6. \A y \in Range(v) : (\A z \in Range(v) : y <= z) => y = x
    BY <2>3, <2>5
  <2>7. Min(Range(v)) = x
    BY <2>3, <2>5, <2>6 DEF Min
  <2> QED BY <2>2, <2>7 DEF x
<1>5. Ranked(v, Size(v) - 1) = Max(Range(v))
  <2> DEFINE n == Size(v)
             x == Sorted(v)[n]
  <2>1. n \in 1..Size(v) /\ n - 1 \in 0..(Size(v) - 1) /\ (n - 1) + 1 = n
    BY <1>1
  <2>2. Ranked(v, n - 1) = x
    <3> HIDE DEF n
    <3>1. Ranked(v, n - 1) = Sorted(v)[(n - 1) + 1]
      BY <2>1, RankedIsSorted
    <3> QED BY <2>1, <3>1
  <2>3. x \in Range(v) /\ x \in Nat
    BY <1>3, <2>1
  <2> HIDE DEF x
  <2>4. AtMost(v, x) = DOMAIN v
    <3>1. /\ Cardinality(AtMost(v, x)) \in Nat /\ Cardinality(AtMost(v, x)) >= n
      BY <2>1, SortedCounts DEF x
    <3>2. AtMost(v, x) \in SUBSET DOMAIN v
      BY DEF AtMost
    <3>3. Cardinality(AtMost(v, x)) <= Cardinality(DOMAIN v)
      BY <1>1, <3>2, FS_Subset
    <3>4. Cardinality(DOMAIN v) = Cardinality(AtMost(v, x))
      BY <1>1, <3>1, <3>3
    <3> QED BY <1>1, <3>2, <3>4, FS_Subset
  <2>5. \A y \in Range(v) : y \in Nat /\ x >= y
    BY <1>2, <2>3, <2>4 DEF AtMost, Range
  <2>6. \A y \in Range(v) : (\A z \in Range(v) : y >= z) => y = x
    BY <2>3, <2>5
  <2>7. Max(Range(v)) = x
    BY <2>3, <2>5, <2>6 DEF Max
  <2> QED BY <2>2, <2>7
<1> QED BY <1>4, <1>5

LEMMA Latency ==
    ASSUME NEW list \in Seq(Sample)
    PROVE  /\ Family(Latencies(list)) /\ IsFiniteSet(Measured(list))
           /\ DOMAIN Latencies(list) = {i \in Measured(list) : list[i].success}
<1> DEFINE D == {i \in Measured(list) : list[i].success}
<1>1. DOMAIN list = 1..Len(list) /\ Len(list) \in Nat /\ \A i \in 1..Len(list) : list[i] \in Sample
  OBVIOUS
<1>2. Measured(list) \in SUBSET (1..Len(list)) /\ D \in SUBSET Measured(list)
  BY <1>1 DEF Measured
<1>3. IsFiniteSet(1..Len(list))
  BY <1>1, FS_Interval
<1>4. DOMAIN Latencies(list) = D /\ \A i \in D : Latencies(list)[i] = list[i].duration
  BY DEF Latencies
<1>5. Latencies(list) = [i \in D |-> Latencies(list)[i]]
  BY DEF Latencies
<1>6. \A i \in D : list[i].duration \in Nat
  BY <1>1, <1>2, DurationsAssumption DEF Sample
<1> HIDE DEF D
<1>7. IsFiniteSet(Measured(list)) /\ IsFiniteSet(D)
  BY <1>2, <1>3, FS_Subset
<1>8. D \subseteq Nat
  BY <1>1, <1>2
<1>9. Latencies(list) \in [D -> Nat]
  BY <1>4, <1>5, <1>6
<1> QED BY <1>4, <1>7, <1>8, <1>9 DEF Family, D

\* Failures: the measured samples that are not successes.
LEMMA Failures ==
    ASSUME NEW list \in Seq(Sample)
    PROVE  Cardinality({i \in Measured(list) : ~list[i].success})
             = Cardinality(Measured(list)) - Cardinality(DOMAIN Latencies(list))
<1> DEFINE M == Measured(list)
           D == DOMAIN Latencies(list)
           F == {i \in M : ~list[i].success}
<1>1. IsFiniteSet(M) /\ D = {i \in M : list[i].success}
  BY Latency
<1>2. F = M \ D /\ M \cap D = D
  BY <1>1
<1> HIDE DEF M, D, F
<1>3. Cardinality(M \ D) = Cardinality(M) - Cardinality(M \cap D)
  BY <1>1, FS_Difference
<1>4. Cardinality(F) = Cardinality(M) - Cardinality(D)
  BY <1>2, <1>3
<1> QED BY <1>4 DEF M, D, F

LEMMA StatisticsAgree ==
    ASSUME NEW list \in Seq(Sample)
    PROVE  AuditStatistics(list) = Statistics(list)
<1> DEFINE v == Latencies(list)
<1>1. Family(v)
  BY Latency
<1>2. Cardinality({i \in Measured(list) : ~list[i].success})
        = Cardinality(Measured(list)) - Cardinality(DOMAIN v)
  BY Failures
<1>3. CASE DOMAIN v = {}
  BY <1>2, <1>3 DEF AuditStatistics, Statistics, AuditPercentile, PercentileOf
<1>4. CASE DOMAIN v # {}
  <2>1. Ranked(v, 0) = Min(Range(v)) /\ Ranked(v, Cardinality(DOMAIN v) - 1) = Max(Range(v))
    BY <1>1, <1>4, Extremes DEF Size
  <2>2. ASSUME NEW p \in 0..100 PROVE AuditPercentile(v, p) = PercentileOf(v, p)
    <3> HIDE DEF v
    <3> QED BY <1>1, <1>4, PercentileIs
  <2>3. /\ AuditPercentile(v, 50) = PercentileOf(v, 50)
        /\ AuditPercentile(v, 95) = PercentileOf(v, 95)
        /\ AuditPercentile(v, 99) = PercentileOf(v, 99)
    BY <2>2
  <2> QED BY <1>2, <1>4, <2>1, <2>3 DEF AuditStatistics, Statistics
<1> QED BY <1>3, <1>4

LEMMA SplitsAt ==
    ASSUME samples \in Seq(Sample), DOMAIN Latencies(samples) # {}, NEW p \in 0..100
    PROVE  Splits(PercentileOf(Latencies(samples), p), p)
<1> DEFINE v == Latencies(samples)
           x == PercentileOf(v, p)
<1>1. Family(v)
  BY Latency
<1> HIDE DEF v
<1>2. /\ 100 * Cardinality({i \in DOMAIN v : 100 * v[i] <= x}) > (Size(v) - 1) * p
      /\ 100 * Cardinality({i \in DOMAIN v : 100 * v[i] >= x}) > (Size(v) - 1) * (100 - p)
  BY <1>1, PercentileSplits DEF v
<1> QED BY <1>2 DEF Splits, Size, v
-----------------------------------------------------------------------------
(* The theorems about statistics.                                          *)

Collected == samples \in Seq(Sample)

LEMMA SampleInvariance == RefSpec => []Collected
<1>1. RefInit => Collected
  BY DEF RefInit, NoSamples, Collected
<1>2. Collected /\ [RefNext]_<<samples, edges>> => Collected'
  BY DEF Collected, RefNext, Load, Collect
<1> QED BY <1>1, <1>2, PTL DEF RefSpec

\* For every list of samples, the audit's recomputation from the raw records is
\* the published summary: failures, extremes and percentiles, the extremes as
\* percentiles of rank 0 and n - 1.
THEOREM AuditAgreesAlways == RefSpec => []AuditAgrees
<1>1. Collected => AuditAgrees
  BY StatisticsAgree DEF Collected, AuditAgrees, stats
<1> QED BY <1>1, SampleInvariance, PTL

\* For every list of samples, p50, p95 and p99 divide the successes as the
\* inclusive percentile says, and p50 <= p95 <= p99: interpolation never leaves
\* the two values it is between.
THEOREM PercentilesSplit == RefSpec => []PercentilesSplitTheSamples
<1>1. Collected => PercentilesSplitTheSamples
  <2> SUFFICES ASSUME Collected, stats.successes > 0
               PROVE  /\ Splits(stats.p50, 50) /\ Splits(stats.p95, 95) /\ Splits(stats.p99, 99)
                      /\ stats.p50 <= stats.p95 /\ stats.p95 <= stats.p99
    BY DEF PercentilesSplitTheSamples
  <2> DEFINE v == Latencies(samples)
  <2>1. /\ stats.successes = Cardinality(DOMAIN v) /\ stats.p50 = PercentileOf(v, 50)
        /\ stats.p95 = PercentileOf(v, 95) /\ stats.p99 = PercentileOf(v, 99)
    BY DEF stats, Statistics
  <2>2. Family(v)
    BY Latency DEF Collected
  <2>3. DOMAIN v # {}
    <3> SUFFICES ASSUME DOMAIN v = {} PROVE FALSE
      OBVIOUS
    <3>1. Cardinality(DOMAIN v) = 0
      BY FS_EmptySet
    <3> QED BY <2>1, <3>1
  <2>4. Splits(stats.p50, 50) /\ Splits(stats.p95, 95) /\ Splits(stats.p99, 99)
    <3>1. ASSUME NEW p \in 0..100 PROVE Splits(PercentileOf(v, p), p)
      BY <2>3, SplitsAt DEF Collected
    <3> QED BY <2>1, <3>1
  <2>5. stats.p50 <= stats.p95 /\ stats.p95 <= stats.p99
    <3> HIDE DEF v
    <3>1. \A p, q \in 0..100 : p <= q => PercentileOf(v, p) <= PercentileOf(v, q)
      BY <2>2, <2>3, PercentileOrder
    <3>2. PercentileOf(v, 50) <= PercentileOf(v, 95) /\ PercentileOf(v, 95) <= PercentileOf(v, 99)
      BY <3>1
    <3> QED BY <2>1, <3>2
  <2> QED BY <2>4, <2>5
<1> QED BY <1>1, SampleInvariance, PTL
=============================================================================
