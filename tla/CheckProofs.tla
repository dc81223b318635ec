----------------------------- MODULE CheckProofs -----------------------------
(***************************************************************************)
(* Proofs about the checks that decide without looking at more than they   *)
(* are given: Merkle proofs and roots (MerkleTree, LedgerProofs),          *)
(* checkpoints (MerkleCompactor), puzzles (ClientPuzzle) and the officers' *)
(* signatures (RecoveryQuorum).  They hold for ledgers of any length, any  *)
(* number of clients and any list of signatures; what the code computes by *)
(* loops is handled with the inductions of Induction.                      *)
(***************************************************************************)
EXTENDS RecoveryQuorum, LedgerProofs, MerkleCompactor, ClientPuzzle, Induction

-----------------------------------------------------------------------------
(* Nodes and layers *)

\* What Node builds of two sequences of tokens, token by token.
LEMMA NodeFacts ==
    ASSUME NEW Tok, "node" \in Tok, NEW l \in Seq(Tok), NEW r \in Seq(Tok)
    PROVE  /\ Node(l, r) \in Seq(Tok)
           /\ Len(Node(l, r)) = 1 + Len(l) + Len(r)
           /\ \A i \in 1..Len(l) : Node(l, r)[1 + i] = l[i]
           /\ \A i \in 1..Len(r) : Node(l, r)[1 + Len(l) + i] = r[i]
BY DEF Node

\* A node determines its children where their lengths are known.
LEMMA NodeInjective ==
    ASSUME NEW Tok, "node" \in Tok, NEW l \in Seq(Tok), NEW r \in Seq(Tok),
           NEW ll \in Seq(Tok), NEW rr \in Seq(Tok), Node(l, r) = Node(ll, rr),
           Len(l) = Len(ll) \/ Len(r) = Len(rr)
    PROVE  l = ll /\ r = rr
<1>1. /\ Len(Node(l, r)) = 1 + Len(l) + Len(r)
      /\ \A i \in 1..Len(l) : Node(l, r)[1 + i] = l[i]
      /\ \A i \in 1..Len(r) : Node(l, r)[1 + Len(l) + i] = r[i]
    BY DEF Node
<1>2. /\ Len(Node(ll, rr)) = 1 + Len(ll) + Len(rr)
      /\ \A i \in 1..Len(ll) : Node(ll, rr)[1 + i] = ll[i]
      /\ \A i \in 1..Len(rr) : Node(ll, rr)[1 + Len(ll) + i] = rr[i]
    BY DEF Node
<1>3. Len(l) = Len(ll) /\ Len(r) = Len(rr)
    BY <1>1, <1>2
<1>4. \A i \in 1..Len(l) : l[i] = ll[i]
    BY <1>1, <1>2, <1>3
<1>5. \A i \in 1..Len(r) : r[i] = rr[i]
    BY <1>1, <1>2, <1>3
<1>. QED  BY <1>3, <1>4, <1>5

\* A layer has half as many nodes, rounded up, each over two nodes of the layer
\* below or over its last one twice.
LEMMA NextLayerFacts ==
    ASSUME NEW Tok, "node" \in Tok, NEW layer \in Seq(Seq(Tok))
    PROVE  /\ NextLayer(layer) \in Seq(Seq(Tok))
           /\ Len(NextLayer(layer)) = (Len(layer) + 1) \div 2
           /\ \A i \in 1..(Len(layer) + 1) \div 2 :
                /\ 2 * i - 1 \in 1..Len(layer)
                /\ NextLayer(layer)[i] =
                    Node(layer[2 * i - 1],
                         IF 2 * i <= Len(layer) THEN layer[2 * i] ELSE layer[2 * i - 1])
<1>. DEFINE n == (Len(layer) + 1) \div 2
            Right(i) == IF 2 * i <= Len(layer) THEN layer[2 * i] ELSE layer[2 * i - 1]
<1>1. n \in Nat /\ \A i \in 1..n : 2 * i - 1 \in 1..Len(layer)
    OBVIOUS
<1>2. \A i \in 1..n : layer[2 * i - 1] \in Seq(Tok) /\ Right(i) \in Seq(Tok)
    BY <1>1
<1>3. \A i \in 1..n : Node(layer[2 * i - 1], Right(i)) \in Seq(Tok)
    BY <1>2, NodeFacts
<1>. QED  BY <1>1, <1>3 DEF NextLayer

\* The layers satisfy the equation of the loop.
LEMMA BuiltFacts ==
    ASSUME NEW Tok, "node" \in Tok, NEW lvs \in Seq(Seq(Tok))
    PROVE  /\ Built(lvs) \in [0..Len(lvs) -> Seq(Seq(Tok))]
           /\ Built(lvs)[0] = lvs
           /\ \A k \in 1..Len(lvs) : Built(lvs)[k] = NextLayer(Built(lvs)[k - 1])
<1>. DEFINE n == Len(lvs)
            V == Seq(Seq(Tok))
            Eq(g) == g = [k \in 0..n |-> IF k = 0 THEN lvs ELSE NextLayer(g[k - 1])]
            step == [k \in 1..n |-> [v \in V |-> NextLayer(v)]]
            layer == CHOOSE g : Eq(g)
<1>1. n \in Nat /\ lvs \in V
    OBVIOUS
<1>2. \A v \in V : NextLayer(v) \in V
    BY NextLayerFacts
<1>3. Built(lvs) = layer
    BY DEF Built
<1>. HIDE DEF n, V
<1>4. Steps(step, n, V) /\ \A k \in 1..n, v \in V : step[k][v] = NextLayer(v)
    BY <1>2 DEF Steps
<1>. HIDE DEF step
<1>5. PICK g : Iterates(g, n, V, lvs, step)
    BY <1>1, <1>4, Recursion
<1>6. g \in [0..n -> V] /\ \A k \in 0..n : g[k] = IF k = 0 THEN lvs ELSE NextLayer(g[k - 1])
    BY <1>1, <1>4, <1>5 DEF Iterates
<1>7. Eq(g)
    BY <1>6
<1>8. Eq(layer)
    BY <1>7, Zenon
<1>. HIDE DEF layer
<1>9. layer[0] = lvs /\ \A k \in 1..n : layer[k] = NextLayer(layer[k - 1])
    BY <1>1, <1>8
<1>. DEFINE T == {k \in Nat : k <= n => layer[k] \in V}
<1>10. 0 \in T
    BY <1>1, <1>9
<1>11. ASSUME NEW k \in Nat, k \in T PROVE k + 1 \in T
    BY <1>1, <1>2, <1>9, <1>11
<1>. HIDE DEF T
<1>12. Nat \subseteq T
    BY <1>10, <1>11, SetInduction
<1>13. layer \in [0..n -> V]
    <2>1. \A k \in 0..n : layer[k] \in V
        BY <1>1, <1>12 DEF T
    <2>2. layer = [k \in 0..n |-> layer[k]]
        BY <1>8
    <2>. QED  BY <2>1, <2>2, Zenon
<1>. QED  BY <1>3, <1>9, <1>13 DEF n, V

\* Halving, rounded up, ends at one.
LEMMA HalfFacts ==
    ASSUME NEW a \in Nat \ {0}
    PROVE  /\ (a + 1) \div 2 \in Nat \ {0}
           /\ a = 1 => (a + 1) \div 2 = 1
           /\ a > 1 => (a + 1) \div 2 <= a - 1
OBVIOUS

\* They thin out to one node.
LEMMA BuiltThinsOut ==
    ASSUME NEW Tok, "node" \in Tok, NEW lvs \in Seq(Seq(Tok)), lvs # <<>>,
           NEW k \in 0..Len(lvs)
    PROVE  /\ Len(Built(lvs)[k]) \in Nat \ {0}
           /\ Len(Built(lvs)[k]) = 1 \/ Len(Built(lvs)[k]) <= Len(lvs) - k
<1>. DEFINE n == Len(lvs)
            B == Built(lvs)
            Thin(j) == Len(B[j]) \in Nat \ {0} /\ (Len(B[j]) = 1 \/ Len(B[j]) <= n - j)
            T == {j \in Nat : j <= n => Thin(j)}
<1>1. /\ n \in Nat \ {0} /\ B \in [0..n -> Seq(Seq(Tok))] /\ B[0] = lvs
      /\ \A j \in 1..n : B[j] = NextLayer(B[j - 1])
    BY BuiltFacts
<1>2. 0 \in T
    BY <1>1
<1>. HIDE DEF n, B
<1>3. ASSUME NEW j \in Nat, j \in T
      PROVE  j + 1 \in T
    <2>. SUFFICES ASSUME j + 1 <= n
                  PROVE  Thin(j + 1)
        OBVIOUS
    <2>0. j \in 0..n /\ j + 1 \in 1..n /\ (j + 1) - 1 = j
        BY <1>1
    <2>1. B[j] \in Seq(Seq(Tok)) /\ B[j + 1] = NextLayer(B[j])
        BY <1>1, <2>0
    <2>2. Len(B[j + 1]) = (Len(B[j]) + 1) \div 2
        BY <2>1, NextLayerFacts
    <2>3. Len(B[j]) \in Nat \ {0} /\ (Len(B[j]) = 1 \/ Len(B[j]) <= n - j)
        BY <1>1, <1>3
    <2>. DEFINE a == Len(B[j])
                b == Len(B[j + 1])
    <2>4. a \in Nat \ {0} /\ b = (a + 1) \div 2 /\ (a = 1 \/ a <= n - j)
        BY <2>2, <2>3
    <2>. HIDE DEF a, b
    <2>5. b \in Nat \ {0} /\ (b = 1 \/ b <= n - (j + 1))
        BY <1>1, <2>4, HalfFacts
    <2>. QED  BY <2>5 DEF b
<1>. HIDE DEF T
<1>4. Nat \subseteq T
    BY <1>2, <1>3, SetInduction
<1>5. k \in Nat /\ k <= n
    BY DEF n
<1>6. Thin(k)
    BY <1>4, <1>5 DEF T
<1>. QED  BY <1>6 DEF n, B

\* The height: the first layer of one node.
LEMMA HeightFacts ==
    ASSUME NEW Tok, "node" \in Tok, NEW lvs \in Seq(Seq(Tok)), lvs # <<>>
    PROVE  /\ Height(Built(lvs)) \in 0..Len(lvs) /\ Len(Built(lvs)[Height(Built(lvs))]) = 1
           /\ \A k \in 0..(Height(Built(lvs)) - 1) : Len(Built(lvs)[k]) > 1
           /\ TreeRoot(lvs) = Built(lvs)[Height(Built(lvs))][1]
<1>. DEFINE n == Len(lvs)
            B == Built(lvs)
            T == {k \in 0..n : Len(B[k]) <= 1}
            Good(h) == Len(B[h]) <= 1 /\ \A k \in 0..(h - 1) : Len(B[k]) > 1
<1>1. n \in Nat \ {0} /\ DOMAIN B = 0..n
    BY BuiltFacts
<1>2. \A k \in 0..n : Len(B[k]) \in Nat \ {0} /\ (Len(B[k]) = 1 \/ Len(B[k]) <= n - k)
    BY BuiltThinsOut
<1>3. Height(B) = CHOOSE h \in DOMAIN B : Good(h)
    BY DEF Height
<1>4. TreeRoot(lvs) = B[Height(B)][1]
    BY DEF TreeRoot
<1>. HIDE DEF B, n
<1>. DEFINE Size(k) == Len(B[k])
<1>. HIDE DEF Size
<1>0. \A k \in 0..n : Size(k) \in Nat \ {0} /\ (Size(k) = 1 \/ Size(k) <= n - k)
    BY <1>2 DEF Size
<1>5. T \in SUBSET Nat /\ n \in T
    <2>1. n \in 0..n /\ Size(n) <= 1
        BY <1>0, <1>1
    <2>. QED  BY <1>1, <2>1 DEF Size
<1>6. PICK m \in T : \A k \in T : m <= k
    <2>. HIDE DEF T
    <2>. QED  BY <1>5, LeastNatural
<1>7. m \in DOMAIN B /\ Good(m)
    BY <1>1, <1>2, <1>6
<1>8. Height(B) \in DOMAIN B /\ Good(Height(B))
    BY <1>3, <1>7, Zenon
<1>. DEFINE h == Height(B)
<1>9. h \in 0..n /\ Good(h)
    BY <1>1, <1>8
<1>. HIDE DEF h
<1>10. Size(h) = 1
    <2>1. Size(h) \in Nat \ {0}
        BY <1>0, <1>9
    <2>2. Size(h) <= 1
        BY <1>9 DEF Size
    <2>. QED  BY <2>1, <2>2
<1>. QED  BY <1>4, <1>9, <1>10 DEF B, n, h, Size

-----------------------------------------------------------------------------
(* Proofs *)

\* A leaf's place in each layer is half of its place in the layer below.
LEMMA PositionFacts ==
    ASSUME NEW i \in Nat, NEW n \in Nat
    PROVE  /\ Position(i, n) \in [0..n -> Nat]
           /\ Position(i, n)[0] = i
           /\ \A k \in 1..n : Position(i, n)[k] = Position(i, n)[k - 1] \div 2
<1>. DEFINE Eq(g) == g = [k \in 0..n |-> IF k = 0 THEN i ELSE g[k - 1] \div 2]
            step == [k \in 1..n |-> [v \in Nat |-> v \div 2]]
            idx == CHOOSE g : Eq(g)
<1>1. Position(i, n) = idx
    BY DEF Position
<1>2. Steps(step, n, Nat) /\ \A k \in 1..n, v \in Nat : step[k][v] = v \div 2
    BY DEF Steps
<1>. HIDE DEF step
<1>3. PICK g : Iterates(g, n, Nat, i, step)
    BY <1>2, Recursion
<1>4. g \in [0..n -> Nat] /\ g[0] = i /\ \A k \in 1..n : g[k] = g[k - 1] \div 2
    <2>1. /\ g \in [0..n -> Nat] /\ g[0] = i
          /\ \A k \in 1..n : k - 1 \in 0..n /\ g[k] = step[k][g[k - 1]]
        BY <1>3 DEF Iterates
    <2>2. \A k \in 1..n : g[k - 1] \in Nat
        BY <2>1
    <2>. QED  BY <1>2, <2>1, <2>2
<1>5. Eq(g)
    BY <1>4
<1>6. Eq(idx)
    BY <1>5, Zenon
<1>. HIDE DEF idx
<1>7. idx[0] = i /\ \A k \in 1..n : idx[k] = idx[k - 1] \div 2
    BY <1>6
<1>. DEFINE T == {k \in Nat : k <= n => idx[k] \in Nat}
<1>8. 0 \in T
    BY <1>7
<1>9. ASSUME NEW k \in Nat, k \in T PROVE k + 1 \in T
    BY <1>7, <1>9
<1>. HIDE DEF T
<1>10. Nat \subseteq T
    BY <1>8, <1>9, SetInduction
<1>11. idx \in [0..n -> Nat]
    <2>1. \A k \in 0..n : idx[k] \in Nat
        BY <1>10 DEF T
    <2>2. idx = [k \in 0..n |-> idx[k]]
        BY <1>6
    <2>. QED  BY <2>1, <2>2, Zenon
<1>. QED  BY <1>1, <1>7, <1>11

\* A node, its sibling and their parent.
LEMMA ParentFacts ==
    ASSUME NEW Tok, "node" \in Tok, NEW layer \in Seq(Seq(Tok)),
           NEW idx \in Nat, idx < Len(layer)
    PROVE  /\ Sibling(layer, idx) \in Seq(Tok) /\ layer[idx + 1] \in Seq(Tok)
           /\ idx \div 2 \in Nat /\ idx \div 2 < Len(NextLayer(layer))
           /\ NextLayer(layer)[idx \div 2 + 1] =
                IF idx % 2 = 1 THEN Node(Sibling(layer, idx), layer[idx + 1])
                ELSE Node(layer[idx + 1], Sibling(layer, idx))
<1>. DEFINE p == idx \div 2
<1>1. p \in Nat /\ (idx = 2 * p \/ idx = 2 * p + 1) /\ (idx % 2 = 1 <=> idx = 2 * p + 1)
    OBVIOUS
<1>. HIDE DEF p
<1>2. p + 1 \in 1..(Len(layer) + 1) \div 2
    BY <1>1
<1>3. /\ Len(NextLayer(layer)) = (Len(layer) + 1) \div 2
      /\ NextLayer(layer)[p + 1] =
            Node(layer[2 * (p + 1) - 1],
                 IF 2 * (p + 1) <= Len(layer) THEN layer[2 * (p + 1)]
                 ELSE layer[2 * (p + 1) - 1])
    BY <1>2, NextLayerFacts
<1>4. layer[idx + 1] \in Seq(Tok)
    OBVIOUS
<1>7. p \in Nat /\ p < Len(NextLayer(layer))
    BY <1>1, <1>2, <1>3
<1>5. CASE idx = 2 * p
    <2>1. idx % 2 # 1 /\ 2 * (p + 1) - 1 = idx + 1 /\ 2 * (p + 1) = idx + 2
        BY <1>1, <1>5
    <2>2. Sibling(layer, idx) = IF idx + 1 < Len(layer) THEN layer[idx + 2] ELSE layer[idx + 1]
        BY <2>1 DEF Sibling
    <2>3. Sibling(layer, idx) \in Seq(Tok)
        BY <2>2
    <2>4. NextLayer(layer)[p + 1] = Node(layer[idx + 1], Sibling(layer, idx))
        BY <1>3, <2>1, <2>2
    <2>. QED  BY <1>4, <1>7, <2>1, <2>3, <2>4 DEF p
<1>6. CASE idx = 2 * p + 1
    <2>1. idx % 2 = 1 /\ 2 * (p + 1) - 1 = idx /\ 2 * (p + 1) = idx + 1
        BY <1>1, <1>6
    <2>2. Sibling(layer, idx) = layer[idx]
        BY <1>1, <2>1 DEF Sibling
    <2>3. Sibling(layer, idx) \in Seq(Tok)
        BY <1>1, <1>6, <2>2
    <2>4. NextLayer(layer)[p + 1] = Node(Sibling(layer, idx), layer[idx + 1])
        <3>1. 2 * (p + 1) <= Len(layer)
            BY <2>1
        <3>2. NextLayer(layer)[p + 1] = Node(layer[2 * (p + 1) - 1], layer[2 * (p + 1)])
            BY <1>3, <3>1
        <3>. QED  BY <2>1, <2>2, <3>2
    <2>. QED  BY <1>4, <1>7, <2>1, <2>3, <2>4 DEF p
<1>. QED  BY <1>1, <1>5, <1>6

\* g climbs from a leaf to a root, next to siblings, a right child where right.
Climbs(g, Tok, leaf, sibs, right) ==
    /\ g \in [0..Len(sibs) -> Seq(Tok)]
    /\ g[0] = leaf
    /\ \A k \in 1..Len(sibs) :
        g[k] = IF right[k] THEN Node(sibs[k], g[k - 1]) ELSE Node(g[k - 1], sibs[k])

Siblings(sibs, Tok) == sibs \in Seq(Seq(Tok))

\* The hashes on the way up from a leaf are sequences of tokens.
LEMMA ClimbTyped ==
    ASSUME NEW Tok, "node" \in Tok, NEW leaf \in Seq(Tok), NEW sibs, Siblings(sibs, Tok),
           NEW right, NEW g, DOMAIN g = 0..Len(sibs), g[0] = leaf,
           g = [k \in 0..Len(sibs) |-> g[k]],
           \A k \in 1..Len(sibs) :
                g[k] = IF right[k] THEN Node(sibs[k], g[k - 1]) ELSE Node(g[k - 1], sibs[k])
    PROVE  Climbs(g, Tok, leaf, sibs, right)
<1>. DEFINE n == Len(sibs)
            T == {k \in Nat : k <= n => g[k] \in Seq(Tok)}
<1>1. n \in Nat /\ \A k \in 1..n : sibs[k] \in Seq(Tok)
    BY DEF Siblings
<1>2. 0 \in T
    OBVIOUS
<1>3. ASSUME NEW k \in Nat, k \in T
      PROVE  k + 1 \in T
    <2>. SUFFICES ASSUME k + 1 <= n
                  PROVE  g[k + 1] \in Seq(Tok)
        OBVIOUS
    <2>1. g[k] \in Seq(Tok) /\ sibs[k + 1] \in Seq(Tok)
        BY <1>1, <1>3
    <2>2. Node(sibs[k + 1], g[k]) \in Seq(Tok) /\ Node(g[k], sibs[k + 1]) \in Seq(Tok)
        BY <2>1, NodeFacts
    <2>3. k + 1 \in 1..Len(sibs) /\ (k + 1) - 1 = k
        BY <1>1
    <2>4. g[k + 1] = IF right[k + 1] THEN Node(sibs[k + 1], g[k]) ELSE Node(g[k], sibs[k + 1])
        BY <2>3
    <2>. QED  BY <2>2, <2>4
<1>. HIDE DEF T
<1>4. Nat \subseteq T
    BY <1>2, <1>3, SetInduction
<1>5. \A k \in 0..n : g[k] \in Seq(Tok)
    BY <1>1, <1>4 DEF T
<1>6. g \in [0..n -> Seq(Tok)]
    <2>. HIDE DEF n
    <2>1. g = [k \in 0..n |-> g[k]]
        BY DEF n
    <2>. QED  BY <1>5, <2>1, Zenon
<1>. QED  BY <1>6 DEF Climbs

\* Every leaf and every list of siblings has a way up.
LEMMA ClimbExists ==
    ASSUME NEW Tok, "node" \in Tok, NEW leaf \in Seq(Tok), NEW sibs, Siblings(sibs, Tok),
           NEW right
    PROVE  \E g : Climbs(g, Tok, leaf, sibs, right)
<1>. DEFINE n == Len(sibs)
            V == Seq(Tok)
            Up(k, v) == IF right[k] THEN Node(sibs[k], v) ELSE Node(v, sibs[k])
            step == [k \in 1..n |-> [v \in V |-> Up(k, v)]]
<1>1. n \in Nat /\ \A k \in 1..n : sibs[k] \in V
    BY DEF Siblings
<1>2. \A k \in 1..n, v \in V : Up(k, v) \in V
    BY <1>1, NodeFacts
<1>3. leaf \in V
    OBVIOUS
<1>. HIDE DEF n, V, Up
<1>4. Steps(step, n, V) /\ \A k \in 1..n, v \in V : step[k][v] = Up(k, v)
    BY <1>2 DEF Steps
<1>. HIDE DEF step
<1>5. PICK g : Iterates(g, n, V, leaf, step)
    BY <1>1, <1>3, <1>4, Recursion
<1>6. g \in [0..n -> V] /\ g[0] = leaf /\ \A k \in 1..n : k - 1 \in 0..n /\ g[k] = step[k][g[k - 1]]
    BY <1>1, <1>5 DEF Iterates
<1>7. \A k \in 1..n : g[k - 1] \in V
    BY <1>6
<1>8. \A k \in 1..n : g[k] = Up(k, g[k - 1])
    BY <1>4, <1>6, <1>7
<1>. QED  BY <1>6, <1>8 DEF Climbs, n, V, Up

\* Two leaves that climb to one root beside the same siblings are the same.
LEMMA ClimbInjective ==
    ASSUME NEW Tok, "node" \in Tok, NEW x, NEW y, NEW sibs, Siblings(sibs, Tok),
           NEW right, NEW g, NEW h, Climbs(g, Tok, x, sibs, right),
           Climbs(h, Tok, y, sibs, right), g[Len(sibs)] = h[Len(sibs)]
    PROVE  x = y
<1>. DEFINE n == Len(sibs)
            T == {k \in Nat : k <= n /\ g[k] = h[k] => x = y}
<1>1. /\ n \in Nat /\ \A k \in 1..n : sibs[k] \in Seq(Tok)
      /\ \A k \in 0..n : g[k] \in Seq(Tok) /\ h[k] \in Seq(Tok)
      /\ g[0] = x /\ h[0] = y
    <2>1. n \in Nat /\ \A k \in 1..n : sibs[k] \in Seq(Tok)
        BY DEF Siblings
    <2>2. \A k \in 0..n : g[k] \in Seq(Tok) /\ h[k] \in Seq(Tok)
        <3>. DEFINE V == Seq(Tok)
        <3>1. g \in [0..n -> V] /\ h \in [0..n -> V]
            BY DEF Climbs
        <3>. HIDE DEF V, n
        <3>2. \A k \in 0..n : g[k] \in V /\ h[k] \in V
            BY <3>1
        <3>. QED  BY <3>2 DEF V
    <2>3. g[0] = x /\ h[0] = y
        BY DEF Climbs
    <2>. QED  BY <2>1, <2>2, <2>3
<1>2. \A k \in 1..n :
        /\ g[k] = IF right[k] THEN Node(sibs[k], g[k - 1]) ELSE Node(g[k - 1], sibs[k])
        /\ h[k] = IF right[k] THEN Node(sibs[k], h[k - 1]) ELSE Node(h[k - 1], sibs[k])
    BY DEF Climbs
<1>3. 0 \in T
    BY <1>1
<1>. HIDE DEF n
<1>4. ASSUME NEW k \in Nat, k \in T
      PROVE  k + 1 \in T
    <2>. SUFFICES ASSUME k + 1 <= n, g[k + 1] = h[k + 1]
                  PROVE  x = y
        OBVIOUS
    <2>1. /\ k + 1 \in 1..n /\ (k + 1) - 1 = k /\ k \in 0..n
        BY <1>1
    <2>2. sibs[k + 1] \in Seq(Tok) /\ g[k] \in Seq(Tok) /\ h[k] \in Seq(Tok)
        BY <1>1, <2>1
    <2>3. \/ Node(sibs[k + 1], g[k]) = Node(sibs[k + 1], h[k])
          \/ Node(g[k], sibs[k + 1]) = Node(h[k], sibs[k + 1])
        BY <1>2, <2>1
    <2>4. g[k] = h[k]
        BY <2>2, <2>3, NodeInjective
    <2>. QED  BY <1>1, <1>4, <2>1, <2>4
<1>. HIDE DEF T
<1>5. n \in T
    BY <1>1, <1>3, <1>4, SetInduction
<1>. QED  BY <1>1, <1>5 DEF T, n

\* A climb is what satisfies the equation of the loop, level by level.
LEMMA ClimbEquation ==
    ASSUME NEW Tok, "node" \in Tok, NEW leaf \in Seq(Tok), NEW sibs, Siblings(sibs, Tok),
           NEW right, NEW g
    PROVE  Climbs(g, Tok, leaf, sibs, right) <=>
            g = [k \in 0..Len(sibs) |->
                    IF k = 0 THEN leaf
                    ELSE IF right[k] THEN Node(sibs[k], g[k - 1]) ELSE Node(g[k - 1], sibs[k])]
<1>. DEFINE n == Len(sibs)
            Up(k) == IF right[k] THEN Node(sibs[k], g[k - 1]) ELSE Node(g[k - 1], sibs[k])
<1>0. n \in Nat /\ 0 \in 0..n /\ \A k \in 0..n : k # 0 <=> k \in 1..n
    BY DEF Siblings
<1>1. ASSUME Climbs(g, Tok, leaf, sibs, right)
      PROVE  g = [k \in 0..n |-> IF k = 0 THEN leaf ELSE Up(k)]
    <2>1. g = [k \in 0..n |-> g[k]] /\ g[0] = leaf /\ \A k \in 1..n : g[k] = Up(k)
        BY <1>1 DEF Climbs
    <2>. HIDE DEF n, Up
    <2>. QED  BY <1>0, <2>1
<1>2. ASSUME g = [k \in 0..n |-> IF k = 0 THEN leaf ELSE Up(k)]
      PROVE  Climbs(g, Tok, leaf, sibs, right)
    <2>1. /\ DOMAIN g = 0..n /\ g[0] = leaf /\ g = [k \in 0..n |-> g[k]]
          /\ \A k \in 1..n : g[k] = Up(k)
        <3>. HIDE DEF n, Up
        <3>0. 0 \in 0..n /\ \A k \in 1..n : k # 0 /\ k \in 0..n
            BY <1>0
        <3>1. DOMAIN g = 0..n /\ g = [k \in 0..n |-> g[k]]
            BY <1>2
        <3>2. \A k \in 0..n : g[k] = IF k = 0 THEN leaf ELSE Up(k)
            BY <1>2
        <3>. QED  BY <3>0, <3>1, <3>2
    <2>. QED  BY <2>1, ClimbTyped
<1>. QED  BY <1>1, <1>2

\* right: where the halved index is odd; where the marker says so.
ByIndex(right, sibs, i) ==
    \A k \in 1..Len(sibs) : right[k] <=> Position(i, Len(sibs))[k - 1] % 2 = 1

ByMarker(right, sibs, marks) == \A k \in 1..Len(sibs) : right[k] <=> marks[k] = "R"

\* verifyProof climbs, on the side that the halved index says.
LEMMA VerifyClimbs ==
    ASSUME NEW Tok, "node" \in Tok, NEW leaf \in Seq(Tok), NEW sibs, Siblings(sibs, Tok),
           NEW i, NEW right, ByIndex(right, sibs, i)
    PROVE  \E g : /\ Climbs(g, Tok, leaf, sibs, right)
                  /\ VerifyProof(leaf, [leafIndex |-> i, siblings |-> sibs]) = g[Len(sibs)]
<1>. DEFINE n == Len(sibs)
            idx == Position(i, n)
            By(g) == [k \in 0..n |-> IF k = 0 THEN leaf
                        ELSE IF right[k] THEN Node(sibs[k], g[k - 1])
                             ELSE Node(g[k - 1], sibs[k])]
            Eq(g) == g = [k \in 0..n |-> IF k = 0 THEN leaf
                        ELSE IF idx[k - 1] % 2 = 1 THEN Node(sibs[k], g[k - 1])
                             ELSE Node(g[k - 1], sibs[k])]
            hash == CHOOSE g : Eq(g)
<1>1. VerifyProof(leaf, [leafIndex |-> i, siblings |-> sibs]) = hash[n]
    BY DEF VerifyProof
<1>2. n \in Nat /\ \A k \in 0..n : k # 0 => (right[k] <=> idx[k - 1] % 2 = 1)
    BY DEF Siblings, ByIndex
<1>3. ASSUME NEW g PROVE Eq(g) <=> g = By(g)
    <2>. HIDE DEF n, idx
    <2>. QED  BY <1>2
<1>4. PICK g : Climbs(g, Tok, leaf, sibs, right)
    BY ClimbExists
<1>5. Eq(g)
    <2>1. g = By(g)
        BY <1>4, ClimbEquation
    <2>. QED  BY <1>3, <2>1
<1>6. Eq(hash)
    BY <1>5, Zenon
<1>. HIDE DEF hash
<1>7. hash = By(hash)
    BY <1>3, <1>6
<1>8. Climbs(hash, Tok, leaf, sibs, right)
    BY <1>7, ClimbEquation
<1>. QED  BY <1>1, <1>8

\* ZkInclusionVerifier climbs, on the side that the markers say.
LEMMA ComputedClimbs ==
    ASSUME NEW Tok, "node" \in Tok, NEW leaf \in Seq(Tok), NEW sibs, Siblings(sibs, Tok),
           NEW marks, NEW right, ByMarker(right, sibs, marks)
    PROVE  \E g : /\ Climbs(g, Tok, leaf, sibs, right)
                  /\ ComputedRoot(leaf, [siblings |-> sibs, leftRight |-> marks]) = g[Len(sibs)]
<1>. DEFINE n == Len(sibs)
            By(g) == [k \in 0..n |-> IF k = 0 THEN leaf
                        ELSE IF right[k] THEN Node(sibs[k], g[k - 1])
                             ELSE Node(g[k - 1], sibs[k])]
            Eq(g) == g = [k \in 0..n |-> IF k = 0 THEN leaf
                        ELSE IF marks[k] = "R" THEN Node(sibs[k], g[k - 1])
                             ELSE Node(g[k - 1], sibs[k])]
            hash == CHOOSE g : Eq(g)
<1>1. ComputedRoot(leaf, [siblings |-> sibs, leftRight |-> marks]) = hash[n]
    BY DEF ComputedRoot
<1>2. n \in Nat /\ \A k \in 0..n : k # 0 => (right[k] <=> marks[k] = "R")
    BY DEF Siblings, ByMarker
<1>3. ASSUME NEW g PROVE Eq(g) <=> g = By(g)
    <2>. HIDE DEF n
    <2>. QED  BY <1>2
<1>4. PICK g : Climbs(g, Tok, leaf, sibs, right)
    BY ClimbExists
<1>5. Eq(g)
    <2>1. g = By(g)
        BY <1>4, ClimbEquation
    <2>. QED  BY <1>3, <2>1
<1>6. Eq(hash)
    BY <1>5, Zenon
<1>. HIDE DEF hash
<1>7. hash = By(hash)
    BY <1>3, <1>6
<1>8. Climbs(hash, Tok, leaf, sibs, right)
    BY <1>7, ClimbEquation
<1>. QED  BY <1>1, <1>8

\* The index stays inside the layers on its way up.
LEMMA PathFacts ==
    ASSUME NEW Tok, "node" \in Tok, NEW lvs \in Seq(Seq(Tok)), NEW i \in Nat, i < Len(lvs),
           NEW h \in 0..Len(lvs), NEW k \in 0..h
    PROVE  Position(i, h)[k] \in Nat /\ Position(i, h)[k] < Len(Built(lvs)[k])
<1>. DEFINE n == Len(lvs)
            B == Built(lvs)
            idx == Position(i, h)
            In(j) == idx[j] \in Nat /\ idx[j] < Len(B[j])
            T == {j \in Nat : j <= h => In(j)}
<1>1. /\ n \in Nat /\ B \in [0..n -> Seq(Seq(Tok))] /\ B[0] = lvs
      /\ \A j \in 1..n : B[j] = NextLayer(B[j - 1])
    BY BuiltFacts
<1>2. h \in Nat /\ h <= n
    OBVIOUS
<1>3. idx[0] = i /\ \A j \in 1..h : idx[j] = idx[j - 1] \div 2
    BY <1>2, PositionFacts
<1>4. 0 \in T
    BY <1>1, <1>3
<1>. HIDE DEF n, B, idx
<1>5. ASSUME NEW j \in Nat, j \in T
      PROVE  j + 1 \in T
    <2>. SUFFICES ASSUME j + 1 <= h
                  PROVE  In(j + 1)
        OBVIOUS
    <2>1. j \in 0..n /\ j + 1 \in 1..n /\ j + 1 \in 1..h /\ (j + 1) - 1 = j /\ j <= h
        BY <1>1, <1>2
    <2>2. /\ B[j] \in Seq(Seq(Tok)) /\ B[j + 1] = NextLayer(B[j])
          /\ idx[j + 1] = idx[j] \div 2
        BY <1>1, <1>3, <2>1
    <2>3. In(j)
        BY <1>5, <2>1
    <2>. DEFINE layer == B[j]
                at == idx[j]
    <2>4. layer \in Seq(Seq(Tok)) /\ at \in Nat /\ at < Len(layer)
        BY <2>2, <2>3
    <2>. HIDE DEF layer, at
    <2>5. at \div 2 \in Nat /\ at \div 2 < Len(NextLayer(layer))
        BY <2>4, ParentFacts
    <2>. QED  BY <2>2, <2>5 DEF layer, at
<1>. HIDE DEF T
<1>6. Nat \subseteq T
    BY <1>4, <1>5, SetInduction
<1>7. k \in Nat /\ k <= h
    BY <1>2
<1>8. In(k)
    BY <1>6, <1>7 DEF T
<1>. QED  BY <1>8 DEF B, idx

\* A proof with its siblings, beside which the leaf climbs to the root.
ProofOf(sibs, right, lvs, i, Tok) ==
    /\ GetProof(lvs, i) = [leafIndex |-> i, siblings |-> sibs]
    /\ Siblings(sibs, Tok)
    /\ ByIndex(right, sibs, i)
    /\ \A g : Climbs(g, Tok, lvs[i + 1], sibs, right) => g[Len(sibs)] = TreeRoot(lvs)

\* getProof: beside its siblings the leaf climbs to the root of the constructor.
LEMMA GetProofClimbs ==
    ASSUME NEW Tok, "node" \in Tok, NEW lvs \in Seq(Seq(Tok)), NEW i \in Nat, i < Len(lvs)
    PROVE  \E sibs, right : ProofOf(sibs, right, lvs, i, Tok)
<1>. DEFINE n == Len(lvs)
            B == Built(lvs)
            h == Height(B)
            idx == Position(i, h)
            sibs == [k \in 1..h |-> Sibling(B[k - 1], idx[k - 1])]
            right == [k \in 1..h |-> idx[k - 1] % 2 = 1]
<1>0. lvs # <<>> /\ lvs[i + 1] \in Seq(Tok)
    OBVIOUS
<1>1. GetProof(lvs, i) = [leafIndex |-> i, siblings |-> sibs]
    BY DEF GetProof
<1>2. /\ n \in Nat /\ B \in [0..n -> Seq(Seq(Tok))] /\ B[0] = lvs
      /\ \A k \in 1..n : B[k] = NextLayer(B[k - 1])
    BY BuiltFacts
<1>3. h \in 0..n /\ Len(B[h]) = 1 /\ TreeRoot(lvs) = B[h][1]
    BY <1>0, HeightFacts
<1>. HIDE DEF h
<1>4. h \in Nat /\ h <= n
    BY <1>2, <1>3
<1>5. \A k \in 0..h : idx[k] \in Nat /\ idx[k] < Len(B[k])
    BY <1>3, PathFacts
<1>6. idx[0] = i /\ \A k \in 1..h : idx[k] = idx[k - 1] \div 2
    BY <1>4, PositionFacts
<1>. HIDE DEF n, B, idx
<1>7. ASSUME NEW k \in 1..h
      PROVE  /\ Sibling(B[k - 1], idx[k - 1]) \in Seq(Tok)
             /\ B[k][idx[k] + 1] =
                    IF idx[k - 1] % 2 = 1
                    THEN Node(Sibling(B[k - 1], idx[k - 1]), B[k - 1][idx[k - 1] + 1])
                    ELSE Node(B[k - 1][idx[k - 1] + 1], Sibling(B[k - 1], idx[k - 1]))
    <2>1. k - 1 \in 0..h /\ k - 1 \in 0..n /\ k \in 1..n
        BY <1>2, <1>4
    <2>. DEFINE layer == B[k - 1]
                at == idx[k - 1]
    <2>2. /\ layer \in Seq(Seq(Tok)) /\ at \in Nat /\ at < Len(layer)
          /\ B[k] = NextLayer(layer) /\ idx[k] = at \div 2
        BY <1>2, <1>5, <1>6, <2>1
    <2>. HIDE DEF layer, at
    <2>3. /\ Sibling(layer, at) \in Seq(Tok)
          /\ NextLayer(layer)[at \div 2 + 1] =
                IF at % 2 = 1 THEN Node(Sibling(layer, at), layer[at + 1])
                ELSE Node(layer[at + 1], Sibling(layer, at))
        BY <2>2, ParentFacts
    <2>. QED  BY <2>2, <2>3 DEF layer, at
<1>8. Siblings(sibs, Tok) /\ Len(sibs) = h
    <2>. DEFINE V == Seq(Tok)
    <2>1. \A k \in 1..h : Sibling(B[k - 1], idx[k - 1]) \in V
        BY <1>7
    <2>. HIDE DEF V
    <2>2. sibs \in Seq(V) /\ Len(sibs) = h
        BY <1>4, <2>1
    <2>. QED  BY <2>2 DEF V, Siblings
<1>9. \A k \in 1..h : /\ sibs[k] = Sibling(B[k - 1], idx[k - 1])
                      /\ right[k] <=> idx[k - 1] % 2 = 1
    OBVIOUS
<1>. HIDE DEF sibs, right
<1>10. ASSUME NEW g, Climbs(g, Tok, lvs[i + 1], sibs, right)
       PROVE  g[h] = TreeRoot(lvs)
    <2>. DEFINE T == {k \in Nat : k <= h => g[k] = B[k][idx[k] + 1]}
    <2>1. /\ g[0] = lvs[i + 1]
          /\ \A k \in 1..h : g[k] = IF right[k] THEN Node(sibs[k], g[k - 1])
                                    ELSE Node(g[k - 1], sibs[k])
        BY <1>8, <1>10 DEF Climbs
    <2>2. 0 \in T
        BY <1>2, <1>6, <2>1
    <2>3. ASSUME NEW k \in Nat, k \in T
          PROVE  k + 1 \in T
        <3>. SUFFICES ASSUME k + 1 <= h
                      PROVE  g[k + 1] = B[k + 1][idx[k + 1] + 1]
            OBVIOUS
        <3>1. k + 1 \in 1..h /\ (k + 1) - 1 = k /\ k <= h
            BY <1>4
        <3>2. g[k] = B[k][idx[k] + 1]
            BY <2>3, <3>1
        <3>3. g[k + 1] = IF right[k + 1] THEN Node(sibs[k + 1], g[k])
                         ELSE Node(g[k], sibs[k + 1])
            BY <2>1, <3>1
        <3>4. /\ sibs[k + 1] = Sibling(B[k], idx[k])
              /\ right[k + 1] <=> idx[k] % 2 = 1
            BY <1>9, <3>1
        <3>5. B[k + 1][idx[k + 1] + 1] =
                    IF idx[k] % 2 = 1
                    THEN Node(Sibling(B[k], idx[k]), B[k][idx[k] + 1])
                    ELSE Node(B[k][idx[k] + 1], Sibling(B[k], idx[k]))
            BY <1>7, <3>1
        <3>. QED  BY <3>2, <3>3, <3>4, <3>5
    <2>. HIDE DEF T
    <2>4. h \in T
        BY <1>4, <2>2, <2>3, SetInduction
    <2>5. idx[h] = 0
        <3>1. h \in 0..h
            BY <1>4
        <3>2. idx[h] \in Nat /\ idx[h] < Len(B[h])
            BY <1>5, <3>1
        <3>. DEFINE a == idx[h]
                    b == Len(B[h])
        <3>3. a \in Nat /\ a < b /\ b = 1
            BY <1>3, <3>2
        <3>. HIDE DEF a, b
        <3>4. a = 0
            BY <3>3
        <3>. QED  BY <3>4 DEF a
    <2>. QED  BY <1>3, <1>4, <2>4, <2>5 DEF T
<1>11. ByIndex(right, sibs, i)
    BY <1>8, <1>9 DEF idx, ByIndex
<1>12. \A g : Climbs(g, Tok, lvs[i + 1], sibs, right) => g[Len(sibs)] = TreeRoot(lvs)
    BY <1>8, <1>10
<1>13. ProofOf(sibs, right, lvs, i, Tok)
    BY <1>1, <1>8, <1>11, <1>12 DEF ProofOf, sibs, B, h, idx
<1>. QED  BY <1>13

\* A proof leads to the root from its own leaf and from no other, and the
\* verifier that is given markers computes what the one that has the index does.
LEMMA ProofDecides ==
    ASSUME NEW Tok, "node" \in Tok, NEW lvs \in Seq(Seq(Tok)), NEW i \in Nat, i < Len(lvs),
           NEW x \in Seq(Tok)
    PROVE  /\ VerifyProof(x, GetProof(lvs, i)) = TreeRoot(lvs) <=> x = lvs[i + 1]
           /\ \A root : ZkVerify(x, root, GetInclusionProof(lvs, i + 1)) <=>
                            VerifyProof(x, GetProof(lvs, i)) = root
<1>0. PICK sibs, right : ProofOf(sibs, right, lvs, i, Tok)
    BY GetProofClimbs
<1>1. /\ GetProof(lvs, i) = [leafIndex |-> i, siblings |-> sibs]
      /\ Siblings(sibs, Tok) /\ ByIndex(right, sibs, i)
      /\ \A g : Climbs(g, Tok, lvs[i + 1], sibs, right) => g[Len(sibs)] = TreeRoot(lvs)
    BY <1>0 DEF ProofOf
<1>. DEFINE n == Len(sibs)
            y == lvs[i + 1]
            proof == [leafIndex |-> i, siblings |-> sibs]
            marks == Markers(proof)
<1>2. y \in Seq(Tok)
    OBVIOUS
<1>. HIDE DEF y
<1>3. PICK g : Climbs(g, Tok, x, sibs, right) /\ VerifyProof(x, proof) = g[n]
    BY <1>1, VerifyClimbs
<1>4. PICK h : Climbs(h, Tok, y, sibs, right)
    BY <1>1, <1>2, ClimbExists
<1>5. h[n] = TreeRoot(lvs)
    BY <1>1, <1>4 DEF y
<1>6. g[n] = TreeRoot(lvs) <=> x = y
    <2>1. ASSUME g[n] = TreeRoot(lvs) PROVE x = y
        BY <1>1, <1>3, <1>4, <1>5, <2>1, ClimbInjective
    <2>2. ASSUME x = y PROVE g[n] = TreeRoot(lvs)
        BY <1>1, <1>3, <2>2 DEF y
    <2>. QED  BY <2>1, <2>2
<1>7. DOMAIN sibs = 1..n /\ n \in Nat
    BY <1>1 DEF Siblings
<1>8. marks = [k \in 1..n |-> IF Position(i, n)[k - 1] % 2 = 1 THEN "R" ELSE "L"]
    BY <1>7 DEF Markers
<1>9. Len(marks) = n /\ ByMarker(right, sibs, marks)
    <2>1. Len(marks) = n
        BY <1>7, <1>8
    <2>2. \A k \in 1..n : marks[k] = "R" <=> Position(i, n)[k - 1] % 2 = 1
        <3>. HIDE DEF marks, n
        <3>. QED  BY <1>8
    <2>. QED  BY <1>1, <2>1, <2>2 DEF ByIndex, ByMarker
<1>. HIDE DEF marks
<1>10. PICK c : Climbs(c, Tok, x, sibs, right)
                /\ ComputedRoot(x, [siblings |-> sibs, leftRight |-> marks]) = c[n]
    BY <1>1, <1>9, ComputedClimbs
<1>11. c = g
    <2>. DEFINE T == {k \in Nat : k <= n => c[k] = g[k]}
                Up(k, v) == IF right[k] THEN Node(sibs[k], v) ELSE Node(v, sibs[k])
    <2>1. c = [k \in 0..n |-> c[k]] /\ c[0] = x /\ \A k \in 1..n : c[k] = Up(k, c[k - 1])
        BY <1>10 DEF Climbs
    <2>2. g = [k \in 0..n |-> g[k]] /\ g[0] = x /\ \A k \in 1..n : g[k] = Up(k, g[k - 1])
        BY <1>3 DEF Climbs
    <2>. HIDE DEF Up, n
    <2>3. 0 \in T
        BY <2>1, <2>2
    <2>4. ASSUME NEW k \in Nat, k \in T PROVE k + 1 \in T
        <3>. SUFFICES ASSUME k + 1 <= n PROVE c[k + 1] = g[k + 1]
            OBVIOUS
        <3>1. k + 1 \in 1..n /\ (k + 1) - 1 = k /\ k <= n
            BY <1>7
        <3>. QED  BY <2>1, <2>2, <2>4, <3>1
    <2>. HIDE DEF T
    <2>5. Nat \subseteq T
        BY <2>3, <2>4, SetInduction
    <2>6. \A k \in 0..n : c[k] = g[k]
        BY <1>7, <2>5 DEF T
    <2>. QED  BY <2>1, <2>2, <2>6
<1>12. GetInclusionProof(lvs, i + 1) = [siblings |-> sibs, leftRight |-> marks]
    <2>1. (i + 1) - 1 = i
        OBVIOUS
    <2>. QED  BY <1>1, <2>1 DEF GetInclusionProof, marks
<1>13. \A root : ZkVerify(x, root, GetInclusionProof(lvs, i + 1)) <=> g[n] = root
    BY <1>9, <1>10, <1>11, <1>12 DEF ZkVerify
<1>. QED  BY <1>1, <1>3, <1>6, <1>13 DEF y

-----------------------------------------------------------------------------
(* What a root says of the leaves *)

\* All hashes of a layer have one length.
Uniform(layer, len) == \A i \in 1..Len(layer) : Len(layer[i]) = len

\* Children of one length have parents of one length.
LEMMA NextUniform ==
    ASSUME NEW Tok, "node" \in Tok, NEW layer \in Seq(Seq(Tok)), NEW len \in Nat,
           Uniform(layer, len)
    PROVE  Uniform(NextLayer(layer), 1 + len + len)
<1>1. Len(NextLayer(layer)) = (Len(layer) + 1) \div 2
    BY NextLayerFacts
<1>2. ASSUME NEW i \in 1..(Len(layer) + 1) \div 2
      PROVE  Len(NextLayer(layer)[i]) = 1 + len + len
    <2>. DEFINE l == layer[2 * i - 1]
                r == IF 2 * i <= Len(layer) THEN layer[2 * i] ELSE layer[2 * i - 1]
    <2>1. 2 * i - 1 \in 1..Len(layer) /\ NextLayer(layer)[i] = Node(l, r)
        BY NextLayerFacts
    <2>2. l \in Seq(Tok) /\ r \in Seq(Tok)
        BY <2>1
    <2>3. Len(l) = len /\ Len(r) = len
        BY <2>1 DEF Uniform
    <2>. HIDE DEF l, r
    <2>4. Len(Node(l, r)) = 1 + Len(l) + Len(r)
        BY <2>2, NodeFacts
    <2>. QED  BY <2>1, <2>3, <2>4
<1>. QED  BY <1>1, <1>2 DEF Uniform

\* A layer is determined by the next one where its nodes have one length.
LEMMA NextInjective ==
    ASSUME NEW Tok, "node" \in Tok, NEW a \in Seq(Seq(Tok)), NEW b \in Seq(Seq(Tok)),
           Len(a) = Len(b), NEW len, Uniform(a, len), Uniform(b, len),
           NextLayer(a) = NextLayer(b)
    PROVE  a = b
<1>. DEFINE n == Len(a)
<1>0. n \in Nat /\ Len(b) = n
    OBVIOUS
<1>1. ASSUME NEW i \in 1..(n + 1) \div 2
      PROVE  a[2 * i - 1] = b[2 * i - 1] /\ (2 * i <= n => a[2 * i] = b[2 * i])
    <2>. DEFINE la == a[2 * i - 1]
                ra == IF 2 * i <= n THEN a[2 * i] ELSE a[2 * i - 1]
                lb == b[2 * i - 1]
                rb == IF 2 * i <= n THEN b[2 * i] ELSE b[2 * i - 1]
    <2>1. 2 * i - 1 \in 1..n /\ NextLayer(a)[i] = Node(la, ra)
        BY NextLayerFacts
    <2>2. NextLayer(b)[i] = Node(lb, rb)
        BY <1>0, NextLayerFacts
    <2>3. la \in Seq(Tok) /\ ra \in Seq(Tok) /\ lb \in Seq(Tok) /\ rb \in Seq(Tok)
        <3>. DEFINE V == Seq(Tok)
        <3>1. \A j \in 1..n : a[j] \in V /\ b[j] \in V
            BY <1>0
        <3>2. 2 * i <= n => 2 * i \in 1..n
            BY <1>0
        <3>. HIDE DEF V, n
        <3>3. la \in V /\ ra \in V /\ lb \in V /\ rb \in V
            BY <2>1, <3>1, <3>2
        <3>. QED  BY <3>3 DEF V
    <2>4. Len(la) = len /\ Len(lb) = len
        BY <1>0, <2>1 DEF Uniform
    <2>. HIDE DEF la, ra, lb, rb
    <2>5. Node(la, ra) = Node(lb, rb) /\ Len(la) = Len(lb)
        BY <2>1, <2>2, <2>4
    <2>6. la = lb /\ ra = rb
        BY <2>3, <2>5, NodeInjective
    <2>. QED  BY <2>6 DEF la, ra, lb, rb
<1>. HIDE DEF n
<1>2. ASSUME NEW j \in 1..n
      PROVE  a[j] = b[j]
    <2>. DEFINE i == (j + 1) \div 2
    <2>1. i \in 1..(n + 1) \div 2 /\ (j = 2 * i - 1 \/ j = 2 * i)
        BY <1>0
    <2>. HIDE DEF i
    <2>2. a[2 * i - 1] = b[2 * i - 1] /\ (2 * i <= n => a[2 * i] = b[2 * i])
        BY <1>1, <2>1
    <2>3. j = 2 * i => 2 * i <= n
        BY <1>0
    <2>. QED  BY <2>1, <2>2, <2>3
<1>. DEFINE V == Seq(Tok)
<1>3. a \in Seq(V) /\ b \in Seq(V) /\ Len(a) = n /\ Len(b) = n
    BY <1>0 DEF n
<1>. HIDE DEF V
<1>. QED  BY <1>2, <1>3

Alike(x, y) == Len(x) = Len(y) /\ \E m \in Nat : Uniform(x, m) /\ Uniform(y, m)

\* Trees over as many leaves of one length have layers of the same sizes.
LEMMA SameShape ==
    ASSUME NEW Tok, "node" \in Tok, NEW a \in Seq(Seq(Tok)), NEW b \in Seq(Seq(Tok)),
           Len(a) = Len(b), NEW len \in Nat, Uniform(a, len), Uniform(b, len),
           NEW k \in 0..Len(a)
    PROVE  Alike(Built(a)[k], Built(b)[k])
<1>. DEFINE n == Len(a)
            A == Built(a)
            B == Built(b)
            T == {j \in Nat : j <= n => Alike(A[j], B[j])}
<1>1. /\ n \in Nat /\ A \in [0..n -> Seq(Seq(Tok))] /\ A[0] = a
      /\ \A j \in 1..n : A[j] = NextLayer(A[j - 1])
    BY BuiltFacts
<1>2. /\ B \in [0..n -> Seq(Seq(Tok))] /\ B[0] = b
      /\ \A j \in 1..n : B[j] = NextLayer(B[j - 1])
    BY BuiltFacts
<1>3. 0 \in T
    BY <1>1, <1>2 DEF Alike
<1>. HIDE DEF n, A, B
<1>4. ASSUME NEW j \in Nat, j \in T
      PROVE  j + 1 \in T
    <2>. SUFFICES ASSUME j + 1 <= n
                  PROVE  Alike(A[j + 1], B[j + 1])
        OBVIOUS
    <2>1. j \in 0..n /\ j + 1 \in 1..n /\ (j + 1) - 1 = j /\ j <= n
        BY <1>1
    <2>. DEFINE x == A[j]
                y == B[j]
    <2>2. /\ x \in Seq(Seq(Tok)) /\ y \in Seq(Seq(Tok))
          /\ A[j + 1] = NextLayer(x) /\ B[j + 1] = NextLayer(y)
        BY <1>1, <1>2, <2>1
    <2>3. Len(x) = Len(y) /\ \E m \in Nat : Uniform(x, m) /\ Uniform(y, m)
        BY <1>4, <2>1 DEF Alike
    <2>. HIDE DEF x, y
    <2>4. PICK m \in Nat : Uniform(x, m) /\ Uniform(y, m)
        BY <2>3
    <2>5. Uniform(NextLayer(x), 1 + m + m) /\ Uniform(NextLayer(y), 1 + m + m)
        BY <2>2, <2>4, NextUniform
    <2>6. Len(NextLayer(x)) = Len(NextLayer(y))
        BY <2>2, <2>3, NextLayerFacts
    <2>7. 1 + m + m \in Nat
        OBVIOUS
    <2>. QED  BY <2>2, <2>5, <2>6, <2>7 DEF Alike
<1>. HIDE DEF T
<1>5. Nat \subseteq T
    BY <1>3, <1>4, SetInduction
<1>6. k \in Nat /\ k <= n
    BY <1>1 DEF n
<1>7. Alike(A[k], B[k])
    BY <1>5, <1>6 DEF T
<1>. QED  BY <1>7 DEF A, B

\* The root and the number of the leaves, all of one length, determine them.
LEMMA RootBinds ==
    ASSUME NEW Tok, "node" \in Tok, NEW a \in Seq(Seq(Tok)), NEW b \in Seq(Seq(Tok)),
           Len(a) = Len(b), NEW len \in Nat, Uniform(a, len), Uniform(b, len),
           TreeRoot(a) = TreeRoot(b)
    PROVE  a = b
<1>. DEFINE n == Len(a)
            A == Built(a)
            B == Built(b)
            h == Height(A)
            hb == Height(B)
<1>0. CASE n = 0
    <2>. DEFINE V == Seq(Tok)
    <2>1. a \in Seq(V) /\ b \in Seq(V) /\ Len(a) = 0 /\ Len(b) = 0
        BY <1>0
    <2>. HIDE DEF V
    <2>. QED  BY <2>1
<1>1. CASE n # 0
    <2>0. a # <<>> /\ b # <<>>
        BY <1>1
    <2>1. /\ n \in Nat /\ A \in [0..n -> Seq(Seq(Tok))] /\ A[0] = a
          /\ \A j \in 1..n : A[j] = NextLayer(A[j - 1])
        BY BuiltFacts
    <2>2. /\ B \in [0..n -> Seq(Seq(Tok))] /\ B[0] = b
          /\ \A j \in 1..n : B[j] = NextLayer(B[j - 1])
        BY BuiltFacts
    <2>3. /\ h \in 0..n /\ Len(A[h]) = 1 /\ TreeRoot(a) = A[h][1]
          /\ \A k \in 0..(h - 1) : Len(A[k]) > 1
        BY <2>0, HeightFacts
    <2>4. /\ hb \in 0..n /\ Len(B[hb]) = 1 /\ TreeRoot(b) = B[hb][1]
          /\ \A k \in 0..(hb - 1) : Len(B[k]) > 1
        BY <2>0, HeightFacts
    <2>5. \A k \in 0..n : Alike(A[k], B[k])
        BY SameShape
    <2>. HIDE DEF n, A, B, h, hb
    <2>6. h = hb
        <3>1. h \in Nat /\ hb \in Nat
            BY <2>1, <2>3, <2>4
        <3>2. ~(h < hb)
            <4>. SUFFICES ASSUME h < hb PROVE FALSE
                OBVIOUS
            <4>1. h \in 0..(hb - 1)
                BY <3>1
            <4>2. Len(B[h]) = 1 /\ Len(B[h]) > 1
                BY <2>3, <2>4, <2>5, <4>1 DEF Alike
            <4>. QED  BY <4>2
        <3>3. ~(hb < h)
            <4>. SUFFICES ASSUME hb < h PROVE FALSE
                OBVIOUS
            <4>1. hb \in 0..(h - 1)
                BY <3>1
            <4>2. Len(A[hb]) = 1 /\ Len(A[hb]) > 1
                BY <2>3, <2>4, <2>5, <4>1 DEF Alike
            <4>. QED  BY <4>2
        <3>. QED  BY <3>1, <3>2, <3>3
    <2>7. A[h] = B[h]
        <3>. DEFINE V == Seq(Tok)
                    x == A[h]
                    y == B[h]
        <3>1. x \in Seq(V) /\ y \in Seq(V) /\ Len(x) = 1 /\ Len(y) = 1 /\ x[1] = y[1]
            BY <2>1, <2>2, <2>3, <2>4, <2>6
        <3>. HIDE DEF V, x, y
        <3>2. x = y
            BY <3>1
        <3>. QED  BY <3>2 DEF x, y
    <2>. DEFINE T == {k \in Nat : k <= n /\ A[k] = B[k] => a = b}
    <2>8. 0 \in T
        BY <2>1, <2>2
    <2>9. ASSUME NEW k \in Nat, k \in T
          PROVE  k + 1 \in T
        <3>. SUFFICES ASSUME k + 1 <= n, A[k + 1] = B[k + 1]
                      PROVE  a = b
            OBVIOUS
        <3>1. k \in 0..n /\ k + 1 \in 1..n /\ (k + 1) - 1 = k /\ k <= n
            BY <2>1
        <3>. DEFINE x == A[k]
                    y == B[k]
        <3>2. /\ x \in Seq(Seq(Tok)) /\ y \in Seq(Seq(Tok)) /\ Len(x) = Len(y)
              /\ NextLayer(x) = NextLayer(y)
              /\ \E m \in Nat : Uniform(x, m) /\ Uniform(y, m)
            BY <2>1, <2>2, <2>5, <3>1 DEF Alike
        <3>. HIDE DEF x, y
        <3>3. PICK m \in Nat : Uniform(x, m) /\ Uniform(y, m)
            BY <3>2
        <3>4. x = y
            BY <3>2, <3>3, NextInjective
        <3>. QED  BY <2>9, <3>1, <3>4 DEF x, y
    <2>. HIDE DEF T
    <2>10. Nat \subseteq T
        BY <2>8, <2>9, SetInduction
    <2>11. h \in Nat /\ h <= n
        BY <2>1, <2>3
    <2>. QED  BY <2>7, <2>10, <2>11 DEF T
<1>. QED  BY <1>0, <1>1

EndsWith(s, t) == Len(t) <= Len(s) /\ \A j \in 1..Len(t) : s[Len(s) - Len(t) + j] = t[j]

\* The last node of the next layer ends with what the last node ends with.
LEMMA NextEndsWith ==
    ASSUME NEW Tok, "node" \in Tok, NEW layer \in Seq(Seq(Tok)), layer # <<>>,
           NEW t \in Seq(Tok), EndsWith(layer[Len(layer)], t)
    PROVE  EndsWith(NextLayer(layer)[Len(NextLayer(layer))], t)
<1>. DEFINE n == Len(layer)
            m == (n + 1) \div 2
            l == layer[2 * m - 1]
            r == layer[n]
<1>1. n \in Nat \ {0}
    OBVIOUS
<1>. HIDE DEF n
<1>2. m \in 1..m /\ (n = 2 * m \/ n = 2 * m - 1)
    BY <1>1
<1>3. /\ Len(NextLayer(layer)) = m /\ 2 * m - 1 \in 1..n
      /\ NextLayer(layer)[m] = Node(layer[2 * m - 1],
                                    IF 2 * m <= n THEN layer[2 * m] ELSE layer[2 * m - 1])
    BY <1>2, NextLayerFacts DEF n
<1>. HIDE DEF m
<1>4. NextLayer(layer)[m] = Node(l, r)
    BY <1>1, <1>2, <1>3
<1>5. l \in Seq(Tok) /\ r \in Seq(Tok)
    <2>. DEFINE V == Seq(Tok)
    <2>1. \A j \in 1..n : layer[j] \in V
        BY DEF n
    <2>. HIDE DEF V
    <2>2. l \in V /\ r \in V
        BY <1>1, <1>3, <2>1
    <2>. QED  BY <2>2 DEF V
<1>6. EndsWith(r, t)
    BY DEF n
<1>. HIDE DEF l, r
<1>7. EndsWith(Node(l, r), t)
    <2>. DEFINE s == Node(l, r)
                a == Len(l)
                b == Len(r)
                c == Len(t)
    <2>1. a \in Nat /\ b \in Nat /\ c \in Nat /\ c <= b /\ \A j \in 1..c : r[b - c + j] = t[j]
        BY <1>5, <1>6 DEF EndsWith
    <2>2. Len(s) = 1 + a + b /\ \A j \in 1..b : s[1 + a + j] = r[j]
        BY <1>5, NodeFacts
    <2>. HIDE DEF s, a, b, c
    <2>3. ASSUME NEW j \in 1..c
          PROVE  s[(1 + a + b) - c + j] = t[j]
        <3>1. b - c + j \in 1..b /\ 1 + a + (b - c + j) = (1 + a + b) - c + j
            BY <2>1
        <3>. QED  BY <2>1, <2>2, <3>1
    <2>4. c <= 1 + a + b
        BY <2>1
    <2>. QED  BY <2>2, <2>3, <2>4 DEF EndsWith, s, c
<1>. QED  BY <1>3, <1>4, <1>7

\* The root ends with the last leaf.
LEMMA RootEndsWith ==
    ASSUME NEW Tok, "node" \in Tok, NEW lvs \in Seq(Seq(Tok)), lvs # <<>>
    PROVE  EndsWith(TreeRoot(lvs), lvs[Len(lvs)])
<1>. DEFINE n == Len(lvs)
            B == Built(lvs)
            h == Height(B)
            t == lvs[n]
            T == {k \in Nat : k <= n => EndsWith(B[k][Len(B[k])], t)}
<1>1. /\ n \in Nat \ {0} /\ B \in [0..n -> Seq(Seq(Tok))] /\ B[0] = lvs
      /\ \A k \in 1..n : B[k] = NextLayer(B[k - 1])
    BY BuiltFacts
<1>2. h \in 0..n /\ Len(B[h]) = 1 /\ TreeRoot(lvs) = B[h][1]
    BY HeightFacts
<1>3. \A k \in 0..n : Len(B[k]) \in Nat \ {0}
    BY BuiltThinsOut
<1>4. t \in Seq(Tok) /\ EndsWith(t, t)
    BY DEF EndsWith
<1>5. 0 \in T
    BY <1>1, <1>4
<1>. HIDE DEF n, B, h, t
<1>6. ASSUME NEW k \in Nat, k \in T
      PROVE  k + 1 \in T
    <2>. SUFFICES ASSUME k + 1 <= n
                  PROVE  EndsWith(B[k + 1][Len(B[k + 1])], t)
        OBVIOUS
    <2>1. k \in 0..n /\ k + 1 \in 1..n /\ (k + 1) - 1 = k /\ k <= n
        BY <1>1
    <2>. DEFINE x == B[k]
    <2>2. /\ x \in Seq(Seq(Tok)) /\ Len(x) \in Nat \ {0} /\ B[k + 1] = NextLayer(x)
          /\ EndsWith(x[Len(x)], t)
        BY <1>1, <1>3, <1>6, <2>1
    <2>. HIDE DEF x
    <2>3. x # <<>>
        BY <2>2
    <2>. QED  BY <1>4, <2>2, <2>3, NextEndsWith
<1>. HIDE DEF T
<1>7. Nat \subseteq T
    BY <1>5, <1>6, SetInduction
<1>8. h \in Nat /\ h <= n
    BY <1>1, <1>2
<1>. QED  BY <1>2, <1>7, <1>8 DEF T, t, n

\* Two sequences of one length that end the same string are the same.
LEMMA EndsAlike ==
    ASSUME NEW Tok, NEW s, NEW t \in Seq(Tok), NEW u \in Seq(Tok), Len(t) = Len(u),
           EndsWith(s, t), EndsWith(s, u)
    PROVE  t = u
<1>1. \A j \in 1..Len(t) : t[j] = u[j]
    BY DEF EndsWith
<1>. QED  BY <1>1

-----------------------------------------------------------------------------
(* The ledger and the auditor *)

\* The tokens of which hashes are made.
Token == TxId \cup Body \cup Leaf \cup {"node", "empty"}

\* The rows keep their order and their ids, each of its own; the auditor holds
\* the root of what was a prefix, up to the contents of the rows.
AuditInv ==
    /\ leaves \in Seq(Hashes)
    /\ rows \in Seq(Row)
    /\ \A i, j \in 1..Len(rows) : rows[i].id = rows[j].id => i = j
    /\ held.rows \in Seq(Row) /\ Len(held.rows) <= Len(rows)
    /\ \A i \in 1..Len(held.rows) : held.rows[i].id = rows[i].id
    /\ held.root = LedgerRoot(held.rows)

\* The invariant holds before the first record.
LEMMA AuditInitially == LedgerProofsInit => AuditInv
<1>. SUFFICES ASSUME LedgerProofsInit PROVE AuditInv
    OBVIOUS
<1>1. /\ rows = <<>> /\ leaves = <<>>
      /\ held.root = EmptyRoot /\ held.rows = <<>>
    BY DEF LedgerProofsInit
<1>2. LedgerRoot(<<>>) = EmptyRoot
    <2>1. [i \in DOMAIN <<>> |-> LeafHash(<<>>[i])] = <<>>
        OBVIOUS
    <2>. QED  BY <2>1 DEF LedgerRoot, TreeRoot
<1>. QED  BY <1>1, <1>2 DEF AuditInv

\* Every append, every update in place and every fetch of a root keeps the invariant.
LEMMA AuditStep == AuditInv /\ [LedgerProofsNext]_proofVars => AuditInv'
<1>. SUFFICES ASSUME AuditInv, [LedgerProofsNext]_proofVars
              PROVE  AuditInv'
    OBVIOUS
<1>. USE DEF AuditInv
<1>1. CASE FetchRoot
    BY <1>1 DEF FetchRoot, GetRootHash
<1>2. ASSUME NEW record \in Row, SaveRow(record)
      PROVE  AuditInv'
    <2>0. UNCHANGED <<held, leaves>>
        BY <1>2 DEF SaveRow
    <2>1. CASE \E i \in DOMAIN rows : rows[i].id = record.id
        <3>1. rows' = [i \in 1..Len(rows) |-> IF rows[i].id = record.id THEN record ELSE rows[i]]
            <4>1. DOMAIN rows = 1..Len(rows)
                OBVIOUS
            <4>2. rows' = [i \in DOMAIN rows |-> IF rows[i].id = record.id THEN record ELSE rows[i]]
                BY <1>2, <2>1, Zenon DEF SaveRow
            <4>. QED  BY <4>1, <4>2
        <3>2. rows' \in Seq(Row) /\ Len(rows') = Len(rows)
            BY <3>1
        <3>3. \A i \in 1..Len(rows) : rows'[i].id = rows[i].id
            BY <3>1
        <3>. QED  BY <2>0, <3>2, <3>3
    <2>2. CASE ~\E i \in DOMAIN rows : rows[i].id = record.id
        <3>1. rows' = Append(rows, record)
            BY <1>2, <2>2 DEF SaveRow
        <3>2. /\ rows' \in Seq(Row) /\ Len(rows') = Len(rows) + 1
              /\ \A i \in 1..Len(rows) : rows'[i] = rows[i] /\ rows[i].id # record.id
              /\ rows'[Len(rows) + 1] = record
            BY <2>2, <3>1
        <3>3. \A i, j \in 1..Len(rows') : rows'[i].id = rows'[j].id => i = j
            <4>. SUFFICES ASSUME NEW i \in 1..Len(rows) + 1, NEW j \in 1..Len(rows) + 1,
                                 rows'[i].id = rows'[j].id
                          PROVE  i = j
                BY <3>2
            <4>1. CASE i \in 1..Len(rows) /\ j \in 1..Len(rows)
                BY <3>2, <4>1
            <4>2. CASE i = Len(rows) + 1 \/ j = Len(rows) + 1
                BY <3>2, <4>2
            <4>. QED  BY <4>1, <4>2
        <3>4. /\ held'.rows \in Seq(Row) /\ Len(held'.rows) <= Len(rows')
              /\ held'.root = LedgerRoot(held'.rows) /\ leaves' \in Seq(Hashes)
            BY <2>0, <3>2
        <3>5. \A i \in 1..Len(held'.rows) : held'.rows[i].id = rows'[i].id
            BY <2>0, <3>2
        <3>. QED  BY <3>2, <3>3, <3>4, <3>5
    <2>. QED  BY <2>1, <2>2
<1>3. ASSUME NEW x \in Leaf, AddLeaf(x)
      PROVE  AuditInv'
    <2>1. leaves' = Append(leaves, Hash(x)) /\ UNCHANGED <<rows, held>>
        BY <1>3 DEF AddLeaf
    <2>2. Hash(x) \in Hashes
        BY DEF Hashes
    <2>. HIDE DEF AuditInv
    <2>3. leaves' \in Seq(Hashes)
        BY <2>1, <2>2 DEF AuditInv
    <2>. QED  BY <2>1, <2>3 DEF AuditInv
<1>4. CASE UNCHANGED proofVars
    BY <1>4 DEF proofVars
<1>. QED  BY <1>1, <1>2, <1>3, <1>4 DEF LedgerProofsNext, Row

\* Leaf hashes are sequences of tokens, one each or two each.
LEMMA LeavesTyped ==
    ASSUME NEW lvs, lvs \in Seq(Hashes)
    PROVE  /\ "node" \in Token /\ lvs \in Seq(Seq(Token)) /\ Uniform(lvs, 1)
           /\ \A i \in 1..Len(lvs) : \E x \in Leaf : lvs[i] = <<x>>
<1>1. \A i \in 1..Len(lvs) : lvs[i] \in Hashes
    OBVIOUS
<1>2. \A i \in 1..Len(lvs) : \E x \in Leaf : lvs[i] = <<x>>
    BY <1>1 DEF Hashes, Hash
<1>3. \A x \in Leaf : <<x>> \in Seq(Token) /\ Len(<<x>>) = 1
    BY DEF Token
<1>4. \A i \in 1..Len(lvs) : lvs[i] \in Seq(Token) /\ Len(lvs[i]) = 1
    BY <1>2, <1>3
<1>. DEFINE V == Seq(Token)
<1>5. lvs = [i \in 1..Len(lvs) |-> lvs[i]] /\ Len(lvs) \in Nat
    OBVIOUS
<1>6. \A i \in 1..Len(lvs) : lvs[i] \in V
    BY <1>4
<1>. HIDE DEF V
<1>7. lvs \in Seq(V)
    BY <1>5, <1>6
<1>. QED  BY <1>2, <1>4, <1>7 DEF Uniform, V, Token

\* The leaves of a list of rows: as many as the rows, all of one length, and each
\* made of its row's id and body.
LEMMA RowsTyped ==
    ASSUME NEW r, r \in Seq(Row)
    PROVE  /\ "node" \in Token /\ Leaves(r) \in Seq(Seq(Token)) /\ Uniform(Leaves(r), 2)
           /\ Len(Leaves(r)) = Len(r) /\ LedgerRoot(r) = TreeRoot(Leaves(r))
           /\ \A i \in 1..Len(r) : Leaves(r)[i] = <<r[i].id, r[i].body>>
<1>. DEFINE n == Len(r)
            V == Seq(Token)
            h == Leaves(r)
<1>1. n \in Nat /\ DOMAIN r = 1..n /\ \A i \in 1..n : r[i].id \in Token /\ r[i].body \in Token
    <2>1. n \in Nat /\ DOMAIN r = 1..n /\ \A i \in 1..n : r[i] \in Row
        OBVIOUS
    <2>2. \A x \in Row : x.id \in Token /\ x.body \in Token
        BY DEF Row, Token
    <2>. QED  BY <2>1, <2>2
<1>2. h = [i \in 1..n |-> <<r[i].id, r[i].body>>]
    BY <1>1 DEF Leaves, LeafHash
<1>3. \A i \in 1..n : <<r[i].id, r[i].body>> \in V /\ Len(<<r[i].id, r[i].body>>) = 2
    BY <1>1
<1>4. LedgerRoot(r) = TreeRoot(h)
    BY DEF LedgerRoot, Leaves
<1>. HIDE DEF n, V, h
<1>5. h \in Seq(V) /\ Len(h) = n
    BY <1>1, <1>2, <1>3
<1>6. \A i \in 1..n : h[i] = <<r[i].id, r[i].body>>
    BY <1>2
<1>7. Uniform(h, 2)
    BY <1>3, <1>5, <1>6 DEF Uniform
<1>. QED  BY <1>4, <1>5, <1>6, <1>7 DEF n, V, h, Token

\* Ledgers with the same contents have the same root.
LEMMA ContentsFixRoot ==
    ASSUME NEW r, r \in Seq(Row), NEW o, o \in Seq(Row), Contents(o) = Contents(r)
    PROVE  LedgerRoot(o) = LedgerRoot(r)
<1>1. DOMAIN o = DOMAIN r
    BY DEF Contents
<1>2. \A i \in DOMAIN r : o[i].id = r[i].id /\ o[i].body = r[i].body
    <2>. SUFFICES ASSUME NEW i \in DOMAIN r
                  PROVE  o[i].id = r[i].id /\ o[i].body = r[i].body
        OBVIOUS
    <2>1. /\ Contents(o)[i] = [id |-> o[i].id, body |-> o[i].body]
          /\ Contents(r)[i] = [id |-> r[i].id, body |-> r[i].body]
        BY <1>1 DEF Contents
    <2>. QED  BY <2>1
<1>3. [i \in DOMAIN o |-> LeafHash(o[i])] = [i \in DOMAIN r |-> LeafHash(r[i])]
    BY <1>1, <1>2 DEF LeafHash
<1>. QED  BY <1>3 DEF LedgerRoot

\* Two ledgers of one order of unique ids, one a prefix of the other, have one
\* root exactly if they have the same contents.
LEMMA HeldRootBinds ==
    ASSUME AuditInv
    PROVE  rows # <<>> =>
            (held.root = LedgerRoot(rows) <=> Contents(held.rows) = Contents(rows))
<1>0. Contents(held.rows) = Contents(rows) => held.root = LedgerRoot(rows)
    <2>1. rows \in Seq(Row) /\ held.rows \in Seq(Row) /\ held.root = LedgerRoot(held.rows)
        BY DEF AuditInv
    <2>. QED  BY <2>1, ContentsFixRoot
<1>. SUFFICES ASSUME rows # <<>>, held.root = LedgerRoot(rows)
              PROVE  Contents(held.rows) = Contents(rows)
    BY <1>0
<1>. DEFINE r == rows
            o == held.rows
            n == Len(r)
            m == Len(o)
            R == Leaves(r)
            O == Leaves(o)
<1>1. /\ r \in Seq(Row) /\ o \in Seq(Row) /\ n \in Nat \ {0} /\ m \in Nat /\ m <= n
      /\ \A i, j \in 1..n : r[i].id = r[j].id => i = j
      /\ \A i \in 1..m : o[i].id = r[i].id
      /\ LedgerRoot(r) = LedgerRoot(o)
    BY DEF AuditInv
<1>. HIDE DEF r, o
<1>2. /\ "node" \in Token /\ R \in Seq(Seq(Token)) /\ Uniform(R, 2)
      /\ Len(R) = n /\ LedgerRoot(r) = TreeRoot(R)
      /\ \A i \in 1..n : R[i] = <<r[i].id, r[i].body>>
    BY <1>1, RowsTyped
<1>3. /\ O \in Seq(Seq(Token)) /\ Uniform(O, 2) /\ Len(O) = m /\ LedgerRoot(o) = TreeRoot(O)
      /\ \A i \in 1..m : O[i] = <<o[i].id, o[i].body>>
    BY <1>1, RowsTyped
<1>. HIDE DEF n, m, R, O
<1>4. TreeRoot(R) = TreeRoot(O)
    BY <1>1, <1>2, <1>3
<1>5. EndsWith(TreeRoot(R), R[n])
    <2>1. R # <<>>
        BY <1>1, <1>2
    <2>. QED  BY <1>2, <2>1, RootEndsWith
<1>6. n \in 1..n /\ R[n] = <<r[n].id, r[n].body>> /\ R[n] \in Seq(Token) /\ Len(R[n]) = 2
    BY <1>1, <1>2 DEF Uniform
<1>7. m # 0
    <2>. SUFFICES ASSUME m = 0 PROVE FALSE
        OBVIOUS
    <2>1. O = <<>>
        BY <1>3
    <2>2. TreeRoot(O) = <<"empty">>
        BY <2>1 DEF TreeRoot, EmptyRoot
    <2>. QED  BY <1>4, <1>5, <1>6, <2>2 DEF EndsWith
<1>8. m = n
    <2>1. EndsWith(TreeRoot(O), O[m])
        <3>1. O # <<>>
            BY <1>3, <1>7
        <3>. QED  BY <1>2, <1>3, <3>1, RootEndsWith
    <2>2. m \in 1..m /\ O[m] = <<o[m].id, o[m].body>> /\ O[m] \in Seq(Token) /\ Len(O[m]) = 2
        BY <1>1, <1>3, <1>7 DEF Uniform
    <2>3. R[n] = O[m]
        BY <1>4, <1>5, <1>6, <2>1, <2>2, EndsAlike
    <2>4. r[n].id = o[m].id
        BY <1>6, <2>2, <2>3
    <2>5. m \in 1..n /\ o[m].id = r[m].id
        BY <1>1, <2>2
    <2>. QED  BY <1>1, <1>6, <2>4, <2>5
<1>9. R = O
    BY <1>2, <1>3, <1>4, <1>8, RootBinds
<1>10. \A i \in 1..n : r[i].id = o[i].id /\ r[i].body = o[i].body
    BY <1>2, <1>3, <1>8, <1>9
<1>11. Contents(r) = Contents(o)
    <2>1. DOMAIN r = 1..n /\ DOMAIN o = 1..n
        BY <1>1, <1>8 DEF n, m
    <2>. QED  BY <1>10, <2>1 DEF Contents
<1>. QED  BY <1>11 DEF r, o

\* The invariant of the ledger and the auditor holds throughout.
LEMMA AuditAlways == LedgerProofsSpec => []AuditInv
<1>1. AuditInv /\ [LedgerProofsNext]_proofVars => AuditInv'
    BY AuditStep
<1>. QED  BY <1>1, AuditInitially, PTL DEF LedgerProofsSpec

\* Where the invariant holds, a proof verifies for its leaf and no other.
LEMMA ProofsDecideNow == AuditInv => ProofsDecide
<1>. SUFFICES ASSUME AuditInv, NEW i \in DOMAIN leaves, NEW x \in Hashes
              PROVE  /\ VerifyProof(x, GetProof(leaves, i - 1)) = TreeRoot(leaves) <=> x = leaves[i]
                     /\ ZkVerify(x, TreeRoot(leaves), GetInclusionProof(leaves, i)) <=> x = leaves[i]
    BY DEF ProofsDecide
<1>. DEFINE lvs == leaves
<1>1. lvs \in Seq(Hashes)
    BY DEF AuditInv
<1>2. i \in Nat /\ i - 1 \in Nat /\ i - 1 < Len(lvs) /\ (i - 1) + 1 = i
    BY <1>1
<1>. HIDE DEF lvs
<1>3. "node" \in Token /\ lvs \in Seq(Seq(Token))
    BY <1>1, LeavesTyped
<1>4. x \in Seq(Token)
    <2>1. PICK y \in Leaf : x = <<y>>
        BY DEF Hashes, Hash
    <2>. QED  BY <2>1 DEF Token
<1>. DEFINE j == i - 1
<1>5. j \in Nat /\ j < Len(lvs) /\ j + 1 = i
    BY <1>2
<1>. HIDE DEF j
<1>6. /\ VerifyProof(x, GetProof(lvs, j)) = TreeRoot(lvs) <=> x = lvs[j + 1]
      /\ \A root : ZkVerify(x, root, GetInclusionProof(lvs, j + 1)) <=>
                        VerifyProof(x, GetProof(lvs, j)) = root
    BY <1>3, <1>4, <1>5, ProofDecides
<1>. QED  BY <1>5, <1>6 DEF lvs, j

\* The proof of a leaf, with the index (verifyProof) or with markers
\* (ZkInclusionVerifier), leads to the root of the tree from that leaf and from
\* no other leaf hash, for ledgers of every size.
THEOREM ProofsDecideHolds == LedgerProofsSpec => []ProofsDecide
BY AuditAlways, ProofsDecideNow, PTL

\* Where the invariant holds, leaves of one number and one root are the same.
LEMMA RootBindsLeavesNow == AuditInv => RootBindsLeaves
<1>. SUFFICES ASSUME AuditInv PROVE RootBindsLeaves
    OBVIOUS
<1>. DEFINE lvs == leaves
<1>1. lvs \in Seq(Hashes)
    BY DEF AuditInv
<1>. HIDE DEF lvs
<1>2. /\ "node" \in Token /\ lvs \in Seq(Seq(Token)) /\ Uniform(lvs, 1)
      /\ \A i \in 1..Len(lvs) : \E x \in Leaf : lvs[i] = <<x>>
    BY <1>1, LeavesTyped
<1>3. ASSUME NEW other \in [DOMAIN lvs -> Hashes], TreeRoot(other) = TreeRoot(lvs)
      PROVE  other = lvs
    <2>1. other \in Seq(Hashes) /\ Len(other) = Len(lvs)
        BY <1>1
    <2>2. other \in Seq(Seq(Token)) /\ Uniform(other, 1)
        BY <2>1, LeavesTyped
    <2>. QED  BY <1>2, <1>3, <2>1, <2>2, RootBinds
<1>4. ASSUME NEW n \in 1..Len(lvs)
      PROVE  EndsWith(TreeRoot(SubSeq(lvs, 1, n)), lvs[n])
    <2>. DEFINE s == SubSeq(lvs, 1, n)
                V == Seq(Token)
    <2>1. lvs \in Seq(V)
        BY <1>2
    <2>. HIDE DEF V
    <2>2. s \in Seq(V) /\ Len(s) = n /\ s[n] = lvs[n] /\ s # <<>>
        BY <2>1
    <2>. HIDE DEF s
    <2>. QED  BY <1>2, <2>2, RootEndsWith DEF V, s
<1>5. ASSUME NEW m \in 0..Len(lvs), NEW n \in 0..Len(lvs), m < n,
             TreeRoot(SubSeq(lvs, 1, m)) = TreeRoot(SubSeq(lvs, 1, n))
      PROVE  m > 0 /\ lvs[m] = lvs[n]
    <2>1. n \in 1..Len(lvs)
        BY <1>1, <1>5
    <2>2. PICK x \in Leaf : lvs[n] = <<x>>
        BY <1>2, <2>1
    <2>3. EndsWith(TreeRoot(SubSeq(lvs, 1, n)), <<x>>)
        BY <1>4, <2>1, <2>2
    <2>4. m # 0
        <3>. SUFFICES ASSUME m = 0 PROVE FALSE
            OBVIOUS
        <3>1. SubSeq(lvs, 1, 0) = <<>>
            BY <1>1
        <3>2. TreeRoot(SubSeq(lvs, 1, n)) = <<"empty">>
            BY <1>5, <3>1 DEF TreeRoot, EmptyRoot
        <3>3. x = "empty"
            BY <2>3, <3>2 DEF EndsWith
        <3>. QED  BY <3>3, LedgerProofsAssumption
    <2>5. m \in 1..Len(lvs)
        BY <1>1, <2>4
    <2>6. PICK y \in Leaf : lvs[m] = <<y>>
        BY <1>2, <2>5
    <2>7. EndsWith(TreeRoot(SubSeq(lvs, 1, n)), <<y>>)
        BY <1>4, <1>5, <2>5, <2>6
    <2>8. <<x>> = <<y>>
        <3>1. <<x>> \in Seq(Leaf) /\ <<y>> \in Seq(Leaf) /\ Len(<<x>>) = Len(<<y>>)
            OBVIOUS
        <3>. QED  BY <2>3, <2>7, <3>1, EndsAlike
    <2>. QED  BY <2>2, <2>5, <2>6, <2>8
<1>. QED  BY <1>3, <1>5 DEF RootBindsLeaves, lvs

\* Root and number determine the leaves, and two prefixes of a ledger share a
\* root only if they end in the same leaf, for ledgers of every size.
THEOREM RootBindsLeavesHolds == LedgerProofsSpec => []RootBindsLeaves
BY AuditAlways, RootBindsLeavesNow, PTL

\* Where the invariant holds, the root that the auditor holds fixes its contents.
LEMMA HeldRootPinsContentsNow == AuditInv => HeldRootPinsContents
<1>. SUFFICES ASSUME AuditInv, NEW i \in DOMAIN rows
              PROVE  LET answer == VerifyProofRoute(rows, i)
                         same   == Contents(held.rows) = Contents(rows)
                     IN
                     /\ VerifyInclusion(rows, i)
                     /\ VerifyProof(answer.leafHash, answer.proof) = answer.root
                     /\ VerifyProof(answer.leafHash, answer.proof) = held.root <=> same
                     /\ ZkVerify(answer.leafHash, held.root, GetInclusionProof(Leaves(rows), i)) <=> same
    BY DEF HeldRootPinsContents
<1>. DEFINE r == rows
            R == Leaves(r)
            x == LeafHash(r[i])
            j == i - 1
<1>1. r \in Seq(Row) /\ DOMAIN r = 1..Len(r) /\ r # <<>>
    BY DEF AuditInv
<1>2. held.root = LedgerRoot(r) <=> Contents(held.rows) = Contents(r)
    BY <1>1, HeldRootBinds
<1>3. j \in Nat /\ j < Len(r) /\ j + 1 = i
    BY <1>1
<1>. HIDE DEF r
<1>4. /\ "node" \in Token /\ R \in Seq(Seq(Token)) /\ Len(R) = Len(r)
      /\ LedgerRoot(r) = TreeRoot(R)
    BY <1>1, RowsTyped
<1>5. R[i] = x
    BY DEF Leaves, r
<1>. HIDE DEF x, j, R
<1>6. x \in Seq(Token)
    <2>. DEFINE V == Seq(Token)
    <2>1. R \in Seq(V) /\ i \in 1..Len(R)
        BY <1>1, <1>3, <1>4
    <2>. HIDE DEF V
    <2>2. x \in V
        BY <1>5, <2>1
    <2>. QED  BY <2>2 DEF V
<1>7. /\ VerifyProof(x, GetProof(R, j)) = TreeRoot(R) <=> x = R[j + 1]
      /\ \A root : ZkVerify(x, root, GetInclusionProof(R, j + 1)) <=>
                        VerifyProof(x, GetProof(R, j)) = root
    BY <1>3, <1>4, <1>6, ProofDecides
<1>8. VerifyProof(x, GetProof(R, j)) = LedgerRoot(r)
    BY <1>3, <1>4, <1>5, <1>7
<1>9. \A root : ZkVerify(x, root, GetInclusionProof(R, i)) <=> LedgerRoot(r) = root
    BY <1>3, <1>7, <1>8
<1>10. VerifyInclusion(r, i)
    BY <1>9 DEF VerifyInclusion, x, R
<1>11. VerifyProofRoute(r, i) = [leafHash |-> x, proof |-> GetProof(R, j), root |-> LedgerRoot(r)]
    BY DEF VerifyProofRoute, x, R, j
<1>. DEFINE answer == VerifyProofRoute(r, i)
<1>12. answer.leafHash = x /\ answer.proof = GetProof(R, j) /\ answer.root = LedgerRoot(r)
    BY <1>11
<1>. HIDE DEF answer
<1>13. /\ VerifyInclusion(r, i)
       /\ VerifyProof(answer.leafHash, answer.proof) = answer.root
       /\ VerifyProof(answer.leafHash, answer.proof) = held.root <=> Contents(held.rows) = Contents(r)
       /\ ZkVerify(answer.leafHash, held.root, GetInclusionProof(R, i)) <=>
            Contents(held.rows) = Contents(r)
    BY <1>2, <1>8, <1>9, <1>10, <1>12
<1>. QED  BY <1>13 DEF answer, r, R

\* Both proof routes vouch for every record, and against a root fetched earlier
\* they verify exactly while ids, bodies and their order are what they were, for
\* ledgers of every size and under every order of appends, updates and fetches; a
\* changed time-lock window alone does not show.
THEOREM HeldRootPinsContentsHolds == LedgerProofsSpec => []HeldRootPinsContents
BY AuditAlways, HeldRootPinsContentsNow, PTL

-----------------------------------------------------------------------------
(* Checkpoints *)

\* Every stored checkpoint lies behind the current one: its index is not used
\* again.
CompactorInv ==
    /\ activeLeaves \in Nat
    /\ currentCheckpoint \in 0..MaxCheckpoint
    /\ historicalTrees \in [0..MaxCheckpoint -> Nat]
    /\ taken \in [0..MaxCheckpoint -> Nat]
    /\ \A i \in 0..MaxCheckpoint :
        /\ historicalTrees[i] = taken[i]
        /\ historicalTrees[i] # 0 => i < currentCheckpoint

\* A pruning moves the checkpoint on and drops trees, and changes none.
LEMMA PruneFacts ==
    ASSUME NEW trees \in [0..MaxCheckpoint -> Nat], NEW current \in 0..MaxCheckpoint,
           NEW index \in 0..MaxCheckpoint
    PROVE  /\ AfterPrune(trees, current, index).trees \in [0..MaxCheckpoint -> Nat]
           /\ AfterPrune(trees, current, index).checkpoint \in current..MaxCheckpoint
           /\ \A i \in 0..MaxCheckpoint :
                AfterPrune(trees, current, index).trees[i] \in {0, trees[i]}
<1>1. CASE Prunes(index, current)
    <2>. DEFINE target == TargetIndex(index, current)
    <2>1. target \in current..MaxCheckpoint
        BY <1>1, CompactorAssumption DEF Prunes, TargetIndex, Least
    <2>2. AfterPrune(trees, current, index) =
            [trees |-> Pruned(trees, target), checkpoint |-> target]
        BY <1>1 DEF AfterPrune
    <2>. HIDE DEF target
    <2>3. /\ Pruned(trees, target) \in [0..MaxCheckpoint -> Nat]
          /\ \A i \in 0..MaxCheckpoint : Pruned(trees, target)[i] \in {0, trees[i]}
        BY DEF Pruned
    <2>. QED  BY <2>1, <2>2, <2>3
<1>2. CASE ~Prunes(index, current)
    <2>1. AfterPrune(trees, current, index) = [trees |-> trees, checkpoint |-> current]
        BY <1>2 DEF AfterPrune
    <2>2. current \in current..MaxCheckpoint
        BY CompactorAssumption
    <2>. QED  BY <2>1, <2>2
<1>. QED  BY <1>1, <1>2

\* Every leaf, checkpoint and pruning keeps the invariant of the checkpoints.
LEMMA CompactorStep == CompactorInv /\ [CompactorNext]_compactorVars => CompactorInv'
<1>. SUFFICES ASSUME CompactorInv, [CompactorNext]_compactorVars
              PROVE  CompactorInv'
    OBVIOUS
<1>. USE DEF CompactorInv
<1>1. CASE AddTreeLeaf
    BY <1>1 DEF AddTreeLeaf
<1>2. CASE CreateCheckpoint
    <2>. DEFINE cur == currentCheckpoint
                stored == [historicalTrees EXCEPT ![cur] = activeLeaves]
                next == cur + 1
                index == next - MaxHistoricalDepth + MaxHistoricalDepth \div 2
                after == IF Cardinality(Stored(stored)) > MaxHistoricalDepth
                         THEN AfterPrune(stored, next, index)
                         ELSE [trees |-> stored, checkpoint |-> next]
    <2>1. MaxHistoricalDepth \in Nat \ {0} /\ MaxCheckpoint \in Nat
        BY CompactorAssumption
    <2>2. ~Prunes(index, next)
        BY <2>1 DEF Prunes
    <2>3. after = [trees |-> stored, checkpoint |-> next]
        BY <2>2 DEF AfterPrune
    <2>4. /\ historicalTrees' = after.trees /\ currentCheckpoint' = after.checkpoint
          /\ taken' = [i \in DOMAIN taken |->
                IF after.trees[i] = 0 THEN 0
                ELSE IF taken[i] = 0 THEN after.trees[i] ELSE taken[i]]
          /\ activeLeaves > 0 /\ cur < MaxCheckpoint /\ activeLeaves' = activeLeaves
        BY <1>2 DEF CreateCheckpoint
    <2>. HIDE DEF after
    <2>5. /\ historicalTrees' = stored /\ currentCheckpoint' = next
          /\ taken' = [i \in 0..MaxCheckpoint |->
                IF stored[i] = 0 THEN 0
                ELSE IF taken[i] = 0 THEN stored[i] ELSE taken[i]]
        BY <2>3, <2>4
    <2>. QED  BY <2>1, <2>4, <2>5
<1>3. ASSUME NEW index \in 0..MaxCheckpoint, PruneHistoricalTree(index)
      PROVE  CompactorInv'
    <2>. DEFINE after == AfterPrune(historicalTrees, currentCheckpoint, index)
    <2>1. /\ after.trees \in [0..MaxCheckpoint -> Nat]
          /\ after.checkpoint \in currentCheckpoint..MaxCheckpoint
          /\ \A i \in 0..MaxCheckpoint : after.trees[i] \in {0, historicalTrees[i]}
        BY PruneFacts
    <2>2. /\ historicalTrees' = after.trees /\ currentCheckpoint' = after.checkpoint
          /\ taken' = [i \in 0..MaxCheckpoint |-> IF after.trees[i] # 0 THEN taken[i] ELSE 0]
          /\ activeLeaves' = activeLeaves
        BY <1>3 DEF PruneHistoricalTree
    <2>. HIDE DEF after
    <2>. QED  BY <2>1, <2>2
<1>4. CASE UNCHANGED compactorVars
    BY <1>4 DEF compactorVars
<1>. QED  BY <1>1, <1>2, <1>3, <1>4 DEF CompactorNext

\* No checkpoint is overwritten by a later one, whatever is pruned between, for
\* every depth, interval and number of preserved leaves.
THEOREM CheckpointsKeptHolds == CompactorSpec => []CheckpointsKept
<1>1. CompactorInit => CompactorInv
    BY CompactorAssumption DEF CompactorInit, CompactorInv
<1>2. CompactorInv => CheckpointsKept
    BY DEF CompactorInv, CheckpointsKept, Stored
<1>. QED  BY <1>1, <1>2, CompactorStep, PTL DEF CompactorSpec

-----------------------------------------------------------------------------
(* Puzzles *)

OpenChallenge == [seed : Nat, expiresAt : Nat]

\* The type of the gate's state.
PuzzleTypeOK ==
    /\ clock \in Nat /\ windowStart \in Nat /\ seeds \in Nat
    /\ windowCounts \in [Client -> Nat]
    /\ challenges \in [Client -> OpenChallenge \cup {NoChallenge}]
    /\ inbox \in [Client -> [route : Route, solution : Solution \cup {NoSolution}] \cup {Idle}]
    /\ free \in [Client -> Nat]
    /\ uses \in [1..MaxSeed -> Nat]

\* What passes free is counted.
FreeCounted ==
    /\ \A c \in Client : free[c] <= windowCounts[c] /\ free[c] <= Limit
    /\ SumFunction(free) <= 3 * Limit

\* Open challenges have seeds of their own, given out and not used yet.
Unused(open) ==
    /\ \A c, d \in Client :
        open[c] # NoChallenge /\ open[d] # NoChallenge /\ open[c].seed = open[d].seed => c = d
    /\ \A c \in Client : open[c] # NoChallenge =>
        /\ open[c].seed <= seeds
        /\ open[c].seed \in 1..MaxSeed => uses[open[c].seed] = 0

\* The inductive invariant of the solutions: no seed is used twice, and none before
\* it is given out.
SeedsUsed ==
    /\ \A s \in 1..MaxSeed : uses[s] <= 1 /\ (s > seeds => uses[s] = 0)
    /\ Unused(challenges)

\* Counting a request of client c: a new window starts all counts at zero, and a
\* window that goes on adds one for c, so that free requests stay below the count.
LEMMA CountedInFacts ==
    ASSUME PuzzleTypeOK, NEW c \in Client
    PROVE  /\ CountedIn(c) \in [Client -> Nat]
           /\ FreeSoFar \in [Client -> Nat]
           /\ OpenChallenges \in [Client -> OpenChallenge \cup {NoChallenge}]
           /\ FreeCounted => \A d \in Client :
                FreeSoFar[d] + (IF d = c THEN 1 ELSE 0) <= CountedIn(c)[d]
BY DEF PuzzleTypeOK, CountedIn, FreeSoFar, OpenChallenges, FreeCounted

\* Verifying a solution removes challenges and adds none; a right solution removes
\* the challenge that it solves.
LEMMA AfterVerifyFacts ==
    ASSUME NEW open \in [Client -> OpenChallenge \cup {NoChallenge}],
           NEW sol \in Solution \cup {NoSolution}
    PROVE  /\ AfterVerify(sol, open) \in [Client -> OpenChallenge \cup {NoChallenge}]
           /\ \A c \in Client : AfterVerify(sol, open)[c] \in {open[c], NoChallenge}
           /\ Solves(sol, open) => /\ sol \in Solution
                                   /\ open[sol.clientId] # NoChallenge
                                   /\ open[sol.clientId].seed = sol.seed
                                   /\ AfterVerify(sol, open)[sol.clientId] = NoChallenge
BY DEF AfterVerify, Solves, Names, Solution

\* Every request keeps the type of the gate's state.
LEMMA PuzzleTypeStep == PuzzleTypeOK /\ [PuzzleNext]_puzzleVars => PuzzleTypeOK'
<1>. SUFFICES ASSUME PuzzleTypeOK, [PuzzleNext]_puzzleVars
              PROVE  PuzzleTypeOK'
    OBVIOUS
<1>0. {Limit, Window, Ttl, MaxSeed} \subseteq Nat
    BY PuzzleAssumption
<1>1. CASE TimePasses
    BY <1>1 DEF PuzzleTypeOK, TimePasses, engineVars
<1>2. ASSUME NEW c \in Client, NEW r \in Route, NEW sol \in Solution \cup {NoSolution},
             Send(c, r, sol)
      PROVE  PuzzleTypeOK'
    <2>1. inbox' = [inbox EXCEPT ![c] = [route |-> r, solution |-> sol]]
          /\ UNCHANGED <<clock, engineVars>>
        BY <1>2 DEF Send
    <2>. QED  BY <2>1 DEF PuzzleTypeOK, engineVars
<1>3. ASSUME NEW c \in Client, Record(c)
      PROVE  /\ clock' \in Nat /\ windowStart' \in Nat /\ windowCounts' \in [Client -> Nat]
             /\ inbox' \in [Client -> [route : Route, solution : Solution \cup {NoSolution}] \cup {Idle}]
    BY <1>3, CountedInFacts DEF PuzzleTypeOK, Record
<1>4. ASSUME NEW c \in Client, PassFree(c)
      PROVE  PuzzleTypeOK'
    <2>1. free' \in [Client -> Nat] /\ challenges' \in [Client -> OpenChallenge \cup {NoChallenge}]
        BY <1>4, CountedInFacts DEF PassFree
    <2>. QED  BY <1>3, <1>4, <2>1 DEF PassFree, PuzzleTypeOK
<1>5. ASSUME NEW c \in Client, PassSolved(c)
      PROVE  PuzzleTypeOK'
    <2>. DEFINE sol == inbox[c].solution
    <2>1. sol \in Solution \cup {NoSolution}
        BY <1>5 DEF PassSolved, PuzzleTypeOK
    <2>2. /\ free' = FreeSoFar /\ challenges' = AfterVerify(sol, OpenChallenges)
          /\ uses' = [uses EXCEPT ![sol.seed] = @ + 1] /\ UNCHANGED seeds /\ Record(c)
        BY <1>5 DEF PassSolved
    <2>. HIDE DEF sol
    <2>3. free' \in [Client -> Nat] /\ challenges' \in [Client -> OpenChallenge \cup {NoChallenge}]
        BY <2>1, <2>2, CountedInFacts, AfterVerifyFacts
    <2>4. uses' \in [1..MaxSeed -> Nat]
        <3>1. \A s \in 1..MaxSeed : uses[s] + 1 \in Nat
            BY <1>0 DEF PuzzleTypeOK
        <3>. DEFINE x == sol.seed
        <3>2. uses' = [uses EXCEPT ![x] = uses[x] + 1] /\ uses \in [1..MaxSeed -> Nat]
            BY <2>2 DEF PuzzleTypeOK
        <3>. HIDE DEF x
        <3>. QED  BY <3>1, <3>2
    <2>. QED  BY <1>3, <2>2, <2>3, <2>4 DEF PuzzleTypeOK
<1>6. ASSUME NEW c \in Client, Challenge(c)
      PROVE  PuzzleTypeOK'
    <2>. DEFINE sol == inbox[c].solution
                open == AfterVerify(sol, OpenChallenges)
    <2>1. sol \in Solution \cup {NoSolution}
        BY <1>6 DEF Challenge, PuzzleTypeOK
    <2>2. /\ free' = FreeSoFar /\ Record(c) /\ UNCHANGED uses
          /\ challenges' = IF HasCurrent(c, open) THEN open ELSE CreateChallenge(c, open)
          /\ seeds' = IF HasCurrent(c, open) THEN seeds ELSE seeds + 1
        BY <1>6 DEF Challenge
    <2>3. open \in [Client -> OpenChallenge \cup {NoChallenge}] /\ FreeSoFar \in [Client -> Nat]
        BY <2>1, CountedInFacts, AfterVerifyFacts
    <2>. HIDE DEF sol, open
    <2>4. CreateChallenge(c, open) \in [Client -> OpenChallenge \cup {NoChallenge}]
        BY <1>0, <2>3 DEF CreateChallenge, PuzzleTypeOK, OpenChallenge
    <2>. QED  BY <1>3, <2>2, <2>3, <2>4 DEF PuzzleTypeOK
<1>7. CASE UNCHANGED puzzleVars
    BY <1>7 DEF puzzleVars, engineVars, PuzzleTypeOK
<1>. QED  BY <1>1, <1>2, <1>4, <1>5, <1>6, <1>7 DEF PuzzleNext, Middleware, FactoryCalled

\* No request gets through free that is not counted.
LEMMA FreeCountedStep ==
    PuzzleTypeOK /\ FreeCounted /\ [PuzzleNext]_puzzleVars => FreeCounted'
<1>. SUFFICES ASSUME PuzzleTypeOK, FreeCounted, [PuzzleNext]_puzzleVars
              PROVE  FreeCounted'
    OBVIOUS
<1>0. Limit \in Nat /\ IsFiniteSet(Client)
    BY PuzzleAssumption
<1>1. ASSUME NEW c \in Client
      PROVE  /\ FreeSoFar \in [Client -> Nat] /\ CountedIn(c) \in [Client -> Nat]
             /\ \A d \in Client : /\ FreeSoFar[d] <= CountedIn(c)[d] /\ FreeSoFar[d] <= Limit
                                  /\ d = c => FreeSoFar[d] + 1 <= CountedIn(c)[d]
             /\ SumFunction(FreeSoFar) <= 3 * Limit
    <2>1. FreeSoFar \in [Client -> Nat] /\ CountedIn(c) \in [Client -> Nat]
        BY CountedInFacts
    <2>2. \A d \in Client : FreeSoFar[d] + (IF d = c THEN 1 ELSE 0) <= CountedIn(c)[d]
        BY CountedInFacts
    <2>3. \A d \in Client : FreeSoFar[d] <= Limit
        BY <1>0 DEF FreeSoFar, FreeCounted
    <2>4. SumFunction(FreeSoFar) <= 3 * Limit
        <3>1. CASE WindowOver
            <4>1. SumFunction([d \in Client |-> 0]) = 0
                BY <1>0, SumZero
            <4>. QED  BY <1>0, <3>1, <4>1 DEF FreeSoFar
        <3>2. CASE ~WindowOver
            BY <3>2 DEF FreeSoFar, FreeCounted
        <3>. QED  BY <3>1, <3>2
    <2>. QED  BY <2>1, <2>2, <2>3, <2>4
<1>2. ASSUME NEW c \in Client, PassFree(c)
      PROVE  FreeCounted'
    <2>. DEFINE counts == CountedIn(c)
    <2>1. /\ windowCounts' = counts /\ free' = [FreeSoFar EXCEPT ![c] = @ + 1]
          /\ counts[c] <= Limit /\ SumFunction(counts) <= 3 * Limit
        <3>1. /\ windowCounts' = counts /\ free' = [FreeSoFar EXCEPT ![c] = @ + 1]
              /\ ~(counts[c] > Limit) /\ ~(SumFunction(counts) > 3 * Limit)
            BY <1>2 DEF PassFree, Record, IsUnderPressure
        <3>2. counts[c] \in Nat /\ SumFunction(counts) \in Nat
            BY <1>0, <1>1, SumMonotone
        <3>. QED  BY <1>0, <3>1, <3>2
    <2>. HIDE DEF counts
    <2>2. /\ free' \in [Client -> Nat] /\ counts \in [Client -> Nat]
          /\ \A d \in Client : free'[d] <= counts[d] /\ free'[d] <= Limit
        BY <1>0, <1>1, <2>1 DEF counts
    <2>3. SumFunction(free') <= SumFunction(counts) /\ SumFunction(free') \in Nat
          /\ SumFunction(counts) \in Nat
        BY <1>0, <2>2, SumMonotone
    <2>4. SumFunction(free') <= 3 * Limit
        BY <1>0, <2>1, <2>3
    <2>. QED  BY <2>1, <2>2, <2>4 DEF FreeCounted
<1>3. ASSUME NEW c \in Client, PassSolved(c) \/ Challenge(c)
      PROVE  FreeCounted'
    <2>1. windowCounts' = CountedIn(c) /\ free' = FreeSoFar
        BY <1>3 DEF PassSolved, Challenge, Record
    <2>. QED  BY <1>1, <2>1 DEF FreeCounted
<1>4. CASE UNCHANGED <<windowCounts, free>>
    BY <1>4 DEF FreeCounted
<1>. QED  BY <1>2, <1>3, <1>4
          DEF PuzzleNext, Middleware, FactoryCalled, TimePasses, Send, puzzleVars, engineVars

\* Deleting challenges, at the end of a window or after a solution, keeps the
\* rest of their own seeds.
LEMMA UnusedDeletes ==
    ASSUME NEW open, NEW kept, Unused(open),
           \A c \in Client : kept[c] \in {open[c], NoChallenge}
    PROVE  Unused(kept)
BY DEF Unused

\* A seed that was used has no challenge any more, and gets none again.
LEMMA SeedsUsedStep ==
    PuzzleTypeOK /\ SeedsUsed /\ [PuzzleNext]_puzzleVars => SeedsUsed'
<1>. SUFFICES ASSUME PuzzleTypeOK, SeedsUsed, [PuzzleNext]_puzzleVars
              PROVE  SeedsUsed'
    OBVIOUS
<1>0. MaxSeed \in Nat /\ uses \in [1..MaxSeed -> Nat] /\ seeds \in Nat
    BY PuzzleAssumption DEF PuzzleTypeOK
<1>1. /\ Unused(OpenChallenges)
      /\ OpenChallenges \in [Client -> OpenChallenge \cup {NoChallenge}]
    <2>1. \A c \in Client : OpenChallenges[c] \in {challenges[c], NoChallenge}
        BY DEF OpenChallenges
    <2>2. OpenChallenges \in [Client -> OpenChallenge \cup {NoChallenge}]
        BY DEF OpenChallenges, PuzzleTypeOK
    <2>. QED  BY <2>1, <2>2, UnusedDeletes DEF SeedsUsed
<1>2. ASSUME NEW c \in Client, PassFree(c)
      PROVE  SeedsUsed'
    <2>1. challenges' = OpenChallenges /\ UNCHANGED <<seeds, uses>>
        BY <1>2 DEF PassFree
    <2>. QED  BY <1>1, <2>1 DEF SeedsUsed, Unused
<1>3. ASSUME NEW c \in Client, PassSolved(c)
      PROVE  SeedsUsed'
    <2>. DEFINE sol == inbox[c].solution
                open == OpenChallenges
                after == AfterVerify(sol, open)
                d == sol.clientId
                x == sol.seed
    <2>1. sol \in Solution \cup {NoSolution}
        BY <1>3 DEF PassSolved, PuzzleTypeOK
    <2>2. /\ challenges' = after /\ uses' = [uses EXCEPT ![sol.seed] = @ + 1]
          /\ UNCHANGED seeds /\ Solves(sol, open)
        BY <1>3 DEF PassSolved
    <2>. HIDE DEF sol, open
    <2>3. /\ \A b \in Client : after[b] \in {open[b], NoChallenge}
          /\ sol \in Solution /\ open[d] # NoChallenge /\ open[d].seed = x
          /\ after[d] = NoChallenge
        BY <1>1, <2>1, <2>2, AfterVerifyFacts DEF open
    <2>4. d \in Client /\ x \in 1..MaxSeed
        BY <2>3 DEF Solution
    <2>. HIDE DEF d, x, after
    <2>5. uses[x] = 0 /\ x <= seeds
        BY <1>1, <2>3, <2>4 DEF Unused, open
    <2>6. uses' = [s \in 1..MaxSeed |-> IF s = x THEN 1 ELSE uses[s]]
        <3>1. uses' = [uses EXCEPT ![x] = uses[x] + 1]
            BY <2>2 DEF x
        <3>2. uses[x] + 1 = 1
            BY <2>5
        <3>. QED  BY <1>0, <2>4, <3>1, <3>2
    <2>7. \A b \in Client : after[b] # NoChallenge =>
            /\ after[b] = open[b] /\ open[b].seed # x
        BY <1>1, <2>3, <2>4 DEF Unused, open
    <2>8. \A b \in Client : after[b] # NoChallenge =>
            /\ after[b].seed <= seeds
            /\ after[b].seed \in 1..MaxSeed => uses'[after[b].seed] = 0
        BY <1>1, <2>6, <2>7 DEF Unused, open
    <2>9. \A a, b \in Client :
            after[a] # NoChallenge /\ after[b] # NoChallenge /\ after[a].seed = after[b].seed
            => a = b
        BY <1>1, <2>7 DEF Unused, open
    <2>10. \A s \in 1..MaxSeed : uses'[s] <= 1 /\ (s > seeds => uses'[s] = 0)
        BY <1>0, <2>5, <2>6 DEF SeedsUsed
    <2>. QED  BY <2>2, <2>8, <2>9, <2>10 DEF SeedsUsed, Unused
<1>4. ASSUME NEW c \in Client, Challenge(c)
      PROVE  SeedsUsed'
    <2>. DEFINE sol == inbox[c].solution
                open == AfterVerify(sol, OpenChallenges)
    <2>1. sol \in Solution \cup {NoSolution}
        BY <1>4 DEF Challenge, PuzzleTypeOK
    <2>2. /\ UNCHANGED uses
          /\ challenges' = IF HasCurrent(c, open) THEN open ELSE CreateChallenge(c, open)
          /\ seeds' = IF HasCurrent(c, open) THEN seeds ELSE seeds + 1
        BY <1>4 DEF Challenge
    <2>. HIDE DEF sol
    <2>3. /\ Unused(open) /\ open \in [Client -> OpenChallenge \cup {NoChallenge}]
        BY <1>1, <2>1, AfterVerifyFacts, UnusedDeletes
    <2>. HIDE DEF open
    <2>4. CASE HasCurrent(c, open)
        BY <2>2, <2>3, <2>4 DEF SeedsUsed, Unused
    <2>5. CASE ~HasCurrent(c, open)
        <3>. DEFINE made == [seed |-> seeds + 1, expiresAt |-> clock + Ttl]
        <3>1. /\ challenges' = [open EXCEPT ![c] = made] /\ made.seed = seeds + 1
              /\ seeds' = seeds + 1 /\ uses' = uses
            BY <2>2, <2>5 DEF CreateChallenge
        <3>. HIDE DEF made
        <3>2. /\ challenges'[c] = made
              /\ \A b \in Client : b # c => challenges'[b] = open[b]
            BY <2>3, <3>1
        <3>3. \A b \in Client : open[b] # NoChallenge => open[b].seed \in Nat /\ open[b].seed <= seeds
            BY <2>3 DEF Unused, OpenChallenge
        <3>4. \A a, b \in Client :
                challenges'[a] # NoChallenge /\ challenges'[b] # NoChallenge
                /\ challenges'[a].seed = challenges'[b].seed => a = b
            <4>. SUFFICES ASSUME NEW a \in Client, NEW b \in Client,
                                 challenges'[a] # NoChallenge, challenges'[b] # NoChallenge,
                                 challenges'[a].seed = challenges'[b].seed
                          PROVE  a = b
                OBVIOUS
            <4>1. CASE a # c /\ b # c
                BY <2>3, <3>2, <4>1 DEF Unused
            <4>2. CASE a = c \/ b = c
                BY <1>0, <3>1, <3>2, <3>3, <4>2
            <4>. QED  BY <4>1, <4>2
        <3>5. \A b \in Client : challenges'[b] # NoChallenge =>
                /\ challenges'[b].seed <= seeds + 1
                /\ challenges'[b].seed \in 1..MaxSeed => uses[challenges'[b].seed] = 0
            <4>. SUFFICES ASSUME NEW b \in Client, challenges'[b] # NoChallenge
                          PROVE  /\ challenges'[b].seed <= seeds + 1
                                 /\ challenges'[b].seed \in 1..MaxSeed =>
                                        uses[challenges'[b].seed] = 0
                OBVIOUS
            <4>1. CASE b # c
                BY <1>0, <2>3, <3>2, <3>3, <4>1 DEF Unused
            <4>2. CASE b = c
                BY <1>0, <3>1, <3>2, <4>2 DEF SeedsUsed
            <4>. QED  BY <4>1, <4>2
        <3>6. \A s \in 1..MaxSeed : uses[s] <= 1 /\ (s > seeds + 1 => uses[s] = 0)
            BY <1>0 DEF SeedsUsed
        <3>. QED  BY <3>1, <3>4, <3>5, <3>6 DEF SeedsUsed, Unused
    <2>. QED  BY <2>4, <2>5
<1>5. CASE UNCHANGED <<challenges, seeds, uses>>
    BY <1>5 DEF SeedsUsed, Unused
<1>. QED  BY <1>2, <1>3, <1>4, <1>5
          DEF PuzzleNext, Middleware, FactoryCalled, TimePasses, Send, puzzleVars, engineVars

\* The gate's state has its type throughout.
LEMMA PuzzleTypeAlways == PuzzleSpec => []PuzzleTypeOK
<1>1. PuzzleInit => PuzzleTypeOK
    BY DEF PuzzleInit, PuzzleTypeOK
<1>. QED  BY <1>1, PuzzleTypeStep, PTL DEF PuzzleSpec

\* Within a window no client gets more than the limit, and all together no more
\* than three times the limit, without a puzzle: for any number of clients,
\* every limit and every length of the window.
THEOREM FreeAdmissionsBoundedHolds == PuzzleSpec => []FreeAdmissionsBounded
<1>1. PuzzleInit => FreeCounted
    <2>1. SumFunction([c \in Client |-> 0]) = 0
        BY PuzzleAssumption, SumZero
    <2>. QED  BY <2>1, PuzzleAssumption DEF PuzzleInit, FreeCounted
<1>2. FreeCounted => FreeAdmissionsBounded
    BY DEF FreeCounted, FreeAdmissionsBounded
<1>. QED  BY <1>1, <1>2, FreeCountedStep, PuzzleTypeAlways, PTL DEF PuzzleSpec

\* A solution lets at most one request through, whoever sends it again and when.
THEOREM SolutionUsedOnceHolds == PuzzleSpec => []SolutionUsedOnce
<1>1. PuzzleInit => SeedsUsed
    BY DEF PuzzleInit, SeedsUsed, Unused
<1>2. SeedsUsed => SolutionUsedOnce
    BY DEF SeedsUsed, SolutionUsedOnce
<1>. QED  BY <1>1, <1>2, SeedsUsedStep, PuzzleTypeAlways, PTL DEF PuzzleSpec

\* No request, of the client or of another, takes a current challenge from a
\* client, except one with its solution.
THEOREM ChallengeSurvivesHolds == PuzzleSpec => ChallengeSurvives
<1>. DEFINE Kept(c) == /\ challenges[c] # NoChallenge /\ challenges[c].expiresAt > clock
                       /\ windowStart' = windowStart /\ uses' = uses
                       => challenges'[c] = challenges[c]
<1>1. ASSUME PuzzleTypeOK, [PuzzleNext]_puzzleVars, NEW c \in Client,
             challenges[c] # NoChallenge, challenges[c].expiresAt > clock,
             windowStart' = windowStart, uses' = uses
      PROVE  challenges'[c] = challenges[c]
    <2>0. /\ clock \in Nat /\ Window \in Nat \ {0} /\ windowStart \in Nat
          /\ challenges \in [Client -> OpenChallenge \cup {NoChallenge}]
          /\ challenges[c].expiresAt \in Nat
        BY <1>1, PuzzleAssumption DEF PuzzleTypeOK, OpenChallenge
    <2>1. ASSUME NEW d \in Client, Record(d)
          PROVE  OpenChallenges = challenges
        BY <1>1, <2>0, <2>1 DEF Record, WindowOver, OpenChallenges
    <2>2. ASSUME NEW d \in Client, PassFree(d)
          PROVE  challenges'[c] = challenges[c]
        BY <2>1, <2>2 DEF PassFree
    <2>3. ASSUME NEW d \in Client, PassSolved(d)
          PROVE  FALSE
        <3>. DEFINE sol == inbox[d].solution
                    x == sol.seed
        <3>1. /\ sol \in Solution \cup {NoSolution} /\ Solves(sol, OpenChallenges)
              /\ uses' = [uses EXCEPT ![x] = @ + 1] /\ Record(d)
            BY <1>1, <2>3 DEF PassSolved, PuzzleTypeOK
        <3>. HIDE DEF sol
        <3>2. x \in 1..MaxSeed
            BY <3>1 DEF Solves, Names, Solution
        <3>. HIDE DEF x
        <3>3. uses \in [1..MaxSeed -> Nat]
            BY <1>1 DEF PuzzleTypeOK
        <3>4. uses[x] \in Nat /\ uses'[x] = uses[x] + 1
            BY <3>1, <3>2, <3>3
        <3>. QED  BY <1>1, <3>4
    <2>4. ASSUME NEW d \in Client, Challenge(d)
          PROVE  challenges'[c] = challenges[c]
        <3>. DEFINE sol == inbox[d].solution
                    open == AfterVerify(sol, challenges)
        <3>1. /\ sol \in Solution \cup {NoSolution} /\ ~Solves(sol, challenges)
              /\ challenges' = IF HasCurrent(d, open) THEN open ELSE CreateChallenge(d, open)
            BY <1>1, <2>1, <2>4 DEF Challenge, PuzzleTypeOK
        <3>. HIDE DEF sol
        <3>2. open[c] = challenges[c] /\ open \in [Client -> OpenChallenge \cup {NoChallenge}]
            <4>1. open \in [Client -> OpenChallenge \cup {NoChallenge}]
                BY <2>0, <3>1, AfterVerifyFacts
            <4>. DEFINE b == sol.clientId
            <4>2. \/ open = challenges
                  \/ open = [challenges EXCEPT ![b] = NoChallenge] /\ clock > challenges[b].expiresAt
                BY <3>1 DEF AfterVerify
            <4>. HIDE DEF b, open
            <4>3. ~(clock > challenges[c].expiresAt)
                BY <1>1, <2>0
            <4>4. open[c] = challenges[c]
                BY <2>0, <4>2, <4>3
            <4>. QED  BY <4>1, <4>4
        <3>. HIDE DEF open
        <3>3. CASE d = c
            BY <1>1, <3>1, <3>2, <3>3 DEF HasCurrent
        <3>4. CASE d # c
            BY <3>1, <3>2, <3>4 DEF CreateChallenge
        <3>. QED  BY <3>3, <3>4
    <2>5. CASE UNCHANGED challenges
        BY <2>5
    <2>. QED  BY <1>1, <2>2, <2>3, <2>4, <2>5
              DEF PuzzleNext, Middleware, FactoryCalled, TimePasses, Send, puzzleVars, engineVars
<1>2. PuzzleTypeOK /\ [PuzzleNext]_puzzleVars => [\A c \in Client : Kept(c)]_puzzleVars
    BY <1>1
<1>. QED  BY <1>2, PuzzleTypeAlways, PTL DEF PuzzleSpec, ChallengeSurvives

-----------------------------------------------------------------------------
(* The officers' signatures *)

\* A signature of an officer that holds for the payload.
Good(payload, sig) == sig.officerPublicKey \in Officers /\ VerifySignature(payload, sig)

\* The officers among the first k signatures.
Approving(payload, sigs, k) ==
    {o \in Officers : \E i \in 1..k : Good(payload, sigs[i]) /\ sigs[i].officerPublicKey = o}

Tally(payload, sigs, k) ==
    [uniqueKeys |-> Approving(payload, sigs, k),
     validCount |-> Cardinality(Approving(payload, sigs, k))]

\* One more signature adds its officer, if it holds.
LEMMA ApprovingNext ==
    ASSUME NEW payload, NEW sigs, NEW k \in Nat
    PROVE  Approving(payload, sigs, k + 1) =
            IF Good(payload, sigs[k + 1])
            THEN Approving(payload, sigs, k) \cup {sigs[k + 1].officerPublicKey}
            ELSE Approving(payload, sigs, k)
<1>1. \A i : i \in 1..(k + 1) <=> i \in 1..k \/ i = k + 1
    OBVIOUS
<1>2. Good(payload, sigs[k + 1]) => sigs[k + 1].officerPublicKey \in Officers
    BY DEF Good
<1>. QED  BY <1>1, <1>2 DEF Approving

\* The officers who approve are finitely many.
LEMMA ApprovingFinite ==
    ASSUME NEW payload, NEW sigs
    PROVE  \A k \in Nat : IsFiniteSet(Approving(payload, sigs, k))
<1>. DEFINE T == {k \in Nat : IsFiniteSet(Approving(payload, sigs, k))}
<1>1. 0 \in T
    <2>1. Approving(payload, sigs, 0) = {}
        BY DEF Approving
    <2>. QED  BY <2>1, FS_EmptySet
<1>2. ASSUME NEW k \in Nat, k \in T
      PROVE  k + 1 \in T
    <2>. DEFINE S == Approving(payload, sigs, k)
                o == sigs[k + 1].officerPublicKey
    <2>1. IsFiniteSet(S)
        BY <1>2
    <2>2. IsFiniteSet(S \cup {o})
        BY <2>1, FS_AddElement
    <2>3. Approving(payload, sigs, k + 1) \in {S, S \cup {o}}
        BY ApprovingNext
    <2>. HIDE DEF S, o
    <2>4. IsFiniteSet(Approving(payload, sigs, k + 1))
        BY <2>1, <2>2, <2>3
    <2>. QED  BY <2>4
<1>. HIDE DEF T
<1>3. Nat \subseteq T
    BY <1>1, <1>2, SetInduction
<1>. QED  BY <1>3 DEF T

\* The body of the loop keeps the tally.
LEMMA TallyNext ==
    ASSUME NEW payload, NEW sigs, NEW k \in Nat
    PROVE  CountSignature(payload, Tally(payload, sigs, k), sigs[k + 1]) =
            Tally(payload, sigs, k + 1)
<1>. DEFINE S == Approving(payload, sigs, k)
            o == sigs[k + 1].officerPublicKey
            acc == Tally(payload, sigs, k)
<1>1. acc.uniqueKeys = S /\ acc.validCount = Cardinality(S)
    BY DEF Tally
<1>2. IsFiniteSet(S) /\ Cardinality(S) \in Nat
    BY ApprovingFinite, FS_CardinalityType
<1>3. Approving(payload, sigs, k + 1) = IF Good(payload, sigs[k + 1]) THEN S \cup {o} ELSE S
    BY ApprovingNext
<1>4. CASE Good(payload, sigs[k + 1]) /\ o \notin S
    <2>1. Cardinality(S \cup {o}) = Cardinality(S) + 1
        BY <1>2, <1>4, FS_AddElement
    <2>2. CountSignature(payload, acc, sigs[k + 1]) =
            [uniqueKeys |-> S \cup {o}, validCount |-> Cardinality(S) + 1]
        <3>. HIDE DEF S, acc
        <3>. QED  BY <1>1, <1>4 DEF CountSignature, Good
    <2>3. Tally(payload, sigs, k + 1) =
            [uniqueKeys |-> S \cup {o}, validCount |-> Cardinality(S \cup {o})]
        BY <1>3, <1>4 DEF Tally
    <2>. QED  BY <2>1, <2>2, <2>3
<1>5. CASE ~(Good(payload, sigs[k + 1]) /\ o \notin S)
    <2>1. CountSignature(payload, acc, sigs[k + 1]) = acc
        <3>. HIDE DEF S, acc
        <3>. QED  BY <1>1, <1>5 DEF CountSignature, Good
    <2>2. Approving(payload, sigs, k + 1) = S
        <3>. HIDE DEF S
        <3>. QED  BY <1>3, <1>5
    <2>. QED  BY <2>1, <2>2 DEF Tally
<1>. QED  BY <1>4, <1>5

\* The loop counts the officers who approve, each once.
LEMMA ValidCountFacts ==
    ASSUME NEW payload, NEW sigs, NEW n \in Nat, Len(sigs) = n
    PROVE  ValidCount(payload, sigs) = Cardinality(Approving(payload, sigs, n))
<1>. DEFINE Eq(g) == g = [k \in 0..n |-> IF k = 0 THEN [uniqueKeys |-> {}, validCount |-> 0]
                                         ELSE CountSignature(payload, g[k - 1], sigs[k])]
            acc == CHOOSE g : Eq(g)
            W(k) == Tally(payload, sigs, k)
            w == [k \in 0..n |-> W(k)]
<1>1. ValidCount(payload, sigs) = acc[n].validCount
    BY DEF ValidCount
<1>2. W(0) = [uniqueKeys |-> {}, validCount |-> 0]
    <2>1. Approving(payload, sigs, 0) = {}
        BY DEF Approving
    <2>. QED  BY <2>1, FS_EmptySet DEF Tally
<1>3. \A k \in Nat : W(k + 1) = CountSignature(payload, W(k), sigs[k + 1])
    BY TallyNext
<1>. HIDE DEF W
<1>4. Eq(w)
    <2>1. ASSUME NEW k \in 0..n, k # 0
          PROVE  W(k) = CountSignature(payload, w[k - 1], sigs[k])
        <3>1. k - 1 \in Nat /\ k - 1 \in 0..n /\ (k - 1) + 1 = k
            BY <2>1
        <3>2. w[k - 1] = W(k - 1)
            BY <3>1
        <3>3. W((k - 1) + 1) = CountSignature(payload, W(k - 1), sigs[(k - 1) + 1])
            BY <1>3, <3>1
        <3>. QED  BY <3>1, <3>2, <3>3
    <2>2. \A k \in 0..n : W(k) = IF k = 0 THEN [uniqueKeys |-> {}, validCount |-> 0]
                                 ELSE CountSignature(payload, w[k - 1], sigs[k])
        BY <1>2, <2>1
    <2>3. [k \in 0..n |-> W(k)] =
            [k \in 0..n |-> IF k = 0 THEN [uniqueKeys |-> {}, validCount |-> 0]
                            ELSE CountSignature(payload, w[k - 1], sigs[k])]
        <3>. HIDE DEF w
        <3>. QED  BY <2>2
    <2>. QED  BY <2>3
<1>5. Eq(acc)
    BY <1>4, Zenon
<1>. HIDE DEF acc, w
<1>6. \A k \in 0..n : acc[k] = IF k = 0 THEN [uniqueKeys |-> {}, validCount |-> 0]
                               ELSE CountSignature(payload, acc[k - 1], sigs[k])
    BY <1>5
<1>. DEFINE T == {k \in Nat : k <= n => acc[k] = W(k)}
<1>7. 0 \in T
    <2>1. 0 \in 0..n
        OBVIOUS
    <2>2. acc[0] = W(0)
        BY <1>2, <1>6, <2>1
    <2>. QED  BY <2>2
<1>8. ASSUME NEW k \in Nat, k \in T
      PROVE  k + 1 \in T
    <2>. SUFFICES ASSUME k + 1 <= n
                  PROVE  acc[k + 1] = W(k + 1)
        OBVIOUS
    <2>1. k + 1 \in 0..n /\ k + 1 # 0 /\ (k + 1) - 1 = k /\ acc[k] = W(k)
        BY <1>8
    <2>2. acc[k + 1] = CountSignature(payload, acc[(k + 1) - 1], sigs[k + 1])
        BY <1>6, <2>1
    <2>. QED  BY <1>3, <2>1, <2>2
<1>. HIDE DEF T
<1>9. n \in T
    BY <1>7, <1>8, SetInduction
<1>10. acc[n] = W(n)
    BY <1>9 DEF T
<1>. QED  BY <1>1, <1>10 DEF W, Tally

NowTyped == now \in Nat

\* The clock of the ritual is a number throughout.
LEMMA NowAlwaysTyped == Spec => []NowTyped
<1>1. Init => NowTyped
    BY DEF Init, NowTyped
<1>2. NowTyped /\ [Next]_vars => NowTyped'
    BY DEF NowTyped, Next, vars, Done, Sign, Tick, Submit
<1>. QED  BY <1>1, <1>2, PTL DEF Spec

\* The gate opens for exactly the unexpired requests with valid signatures of at
\* least m different officers, for any officers, threshold and signatures.
THEOREM GateDecidesQuorumHolds == Spec => GateDecidesQuorum
<1>. DEFINE Decides == request' # NoRequest =>
        (verdict' = "accepted" <=>
            /\ now < request'.payload.expiresAt
            /\ Cardinality(Approvers(request'.payload, request'.signatures)) >= ThresholdM)
<1>1. NowTyped /\ [Next]_vars => [Decides]_vars
    <2>. SUFFICES ASSUME NowTyped, Next, request' # NoRequest
                  PROVE  verdict' = "accepted" <=>
                            /\ now < request'.payload.expiresAt
                            /\ Cardinality(Approvers(request'.payload, request'.signatures))
                                >= ThresholdM
        OBVIOUS
    <2>1. PICK p \in Payload, n \in 0..MaxSigs :
            \E sigs \in [1..n -> [officerPublicKey : Key, over : SigOver]] : Submit(p, sigs)
        BY DEF Next, Done, Sign, Tick
    <2>2. PICK sigs \in [1..n -> [officerPublicKey : Key, over : SigOver]] : Submit(p, sigs)
        BY <2>1
    <2>3. /\ request'.payload = p /\ request'.signatures = sigs
          /\ verdict' = IF VerifyMultiSig(p, sigs) THEN "accepted" ELSE "rejected"
        BY <2>2 DEF Submit
    <2>4. n \in Nat /\ DOMAIN sigs = 1..n /\ Len(sigs) = n
        BY ConfigAssumption
    <2>5. Approvers(p, sigs) = Approving(p, sigs, n)
        <3>1. \A i \in 1..n, o \in Officers :
                (Good(p, sigs[i]) /\ sigs[i].officerPublicKey = o)
                <=> (sigs[i].officerPublicKey = o /\ sigs[i].over = p /\ <<o, p>> \in signed)
            BY DEF Good, VerifySignature
        <3>. QED  BY <2>4, <3>1 DEF Approvers, Approving
    <2>6. ValidCount(p, sigs) = Cardinality(Approvers(p, sigs))
        BY <2>4, <2>5, ValidCountFacts
    <2>7. p.expiresAt \in Nat
        BY ConfigAssumption DEF Payload
    <2>8. VerifyMultiSig(p, sigs) <=>
            now < p.expiresAt /\ Cardinality(Approvers(p, sigs)) >= ThresholdM
        BY <2>6, <2>7 DEF VerifyMultiSig, NowTyped
    <2>. QED  BY <2>3, <2>8
<1>. QED  BY <1>1, NowAlwaysTyped, PTL DEF Spec, GateDecidesQuorum
=============================================================================
