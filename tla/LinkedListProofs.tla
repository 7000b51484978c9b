-------------------------- MODULE LinkedListProofs --------------------------
(***************************************************************************)
(* The pointers of src/list.c represent sequences: for every finite set of *)
(* nodes and of lists, whatever calls were made before.                    *)
(***************************************************************************)
EXTENDS LinkedList, TLAPS, FiniteSetTheorems, SequenceTheorems

\* The list operations on sequences and what is proved about them.
Ops == INSTANCE ListOpsProofs

-----------------------------------------------------------------------------
(* The cells of a list. *)

\* The cells of list l if its nodes are q, counted from the head sentinel.
CellAt(l, q, i) ==
  IF i = 0 THEN head(l) ELSE IF i = Len(q) + 1 THEN tail(l) ELSE q[i]

\* Sentinels, nodes and NULL are apart.
LEMMA Sentinels ==
  ASSUME NEW l \in List
  PROVE  /\ head(l) \in Cell /\ head(l) \notin Node /\ head(l) # NULL
         /\ tail(l) \in Cell /\ tail(l) \notin Node /\ tail(l) # NULL
         /\ \A k \in List : head(l) # tail(k)
         /\ \A k \in List : head(l) = head(k) \/ tail(l) = tail(k) => k = l
         /\ \A n \in Node : n \in Cell /\ n # NULL
         /\ l # NULL
<1>1. head(l) \in Sentinel /\ tail(l) \in Sentinel
  BY DEF Sentinel
<1>2. \A k \in List : head(l) # tail(k)
  BY DEF head, tail
<1>3. \A k \in List : head(l) = head(k) \/ tail(l) = tail(k) => k = l
  BY DEF head, tail
<1> QED
  BY <1>1, <1>2, <1>3, LinkedListAssumption DEF Cell

\* The first cell is the head sentinel, the last the tail sentinel, and between
\* them are the nodes.
LEMMA CellAtValues ==
  ASSUME NEW l \in List, NEW q \in Seq(Node)
  PROVE  /\ Len(q) \in Nat
         /\ CellAt(l, q, 0) = head(l)
         /\ CellAt(l, q, Len(q) + 1) = tail(l)
         /\ \A i \in 1 .. Len(q) : CellAt(l, q, i) = q[i] /\ q[i] \in Node
         /\ \A i \in 0 .. Len(q) + 1 : CellAt(l, q, i) \in Cell /\ CellAt(l, q, i) # NULL
<1>1. Len(q) \in Nat /\ \A i \in 1 .. Len(q) : q[i] \in Node
  OBVIOUS
<1>2. CellAt(l, q, 0) = head(l) /\ CellAt(l, q, Len(q) + 1) = tail(l)
  BY <1>1 DEF CellAt
<1>3. \A i \in 1 .. Len(q) : CellAt(l, q, i) = q[i]
  BY <1>1 DEF CellAt
<1>4. ASSUME NEW i \in 0 .. Len(q) + 1
      PROVE  CellAt(l, q, i) \in Cell /\ CellAt(l, q, i) # NULL
  <2>1. i = 0 \/ i = Len(q) + 1 \/ i \in 1 .. Len(q)
    BY <1>1
  <2> QED
    BY <1>1, <1>2, <1>3, <2>1, Sentinels
<1> QED
  BY <1>1, <1>2, <1>3, <1>4

\* No cell of a list comes twice.
LEMMA CellAtInjective ==
  ASSUME NEW l \in List, NEW q \in Seq(Node), Ops!NoDuplicates(q),
         NEW i \in 0 .. Len(q) + 1, NEW j \in 0 .. Len(q) + 1,
         CellAt(l, q, i) = CellAt(l, q, j)
  PROVE  i = j
<1>1. /\ i = 0 \/ i = Len(q) + 1 \/ i \in 1 .. Len(q)
      /\ j = 0 \/ j = Len(q) + 1 \/ j \in 1 .. Len(q)
  BY CellAtValues
<1>2. CASE i \in 1 .. Len(q) /\ j \in 1 .. Len(q)
  BY <1>2, CellAtValues DEF Ops!NoDuplicates
<1>3. CASE ~ (i \in 1 .. Len(q) /\ j \in 1 .. Len(q))
  BY <1>1, <1>3, CellAtValues, Sentinels
<1> QED
  BY <1>2, <1>3

\* Two lists without a common node have no common cell.
LEMMA CellAtApart ==
  ASSUME NEW l \in List, NEW q \in Seq(Node), NEW k \in List, NEW r \in Seq(Node),
         l # k, \A n \in Node : ~ (Ops!OnList(q, n) /\ Ops!OnList(r, n)),
         NEW i \in 0 .. Len(q) + 1, NEW j \in 0 .. Len(r) + 1
  PROVE  CellAt(l, q, i) # CellAt(k, r, j)
<1>1. /\ i = 0 \/ i = Len(q) + 1 \/ i \in 1 .. Len(q)
      /\ j = 0 \/ j = Len(r) + 1 \/ j \in 1 .. Len(r)
  BY CellAtValues
<1>2. CASE i \in 1 .. Len(q) /\ j \in 1 .. Len(r)
  BY <1>2, CellAtValues DEF Ops!OnList
<1>3. CASE ~ (i \in 1 .. Len(q) /\ j \in 1 .. Len(r))
  BY <1>1, <1>3, CellAtValues, Sentinels
<1> QED
  BY <1>2, <1>3

-----------------------------------------------------------------------------
(* The inductive invariant. *)

\* The types of the variables.
LinkTypes ==
  /\ next \in [Cell -> Cell \cup {NULL}]
  /\ prev \in [Cell -> Cell \cup {NULL}]
  /\ prio \in [Node -> Prio]
  /\ owner \in [Node -> List \cup {NULL}]

\* The pointers and the callers agree that the nodes of list l are q.
Linked(l, q) ==
  /\ \A i \in 0 .. Len(q) : next[CellAt(l, q, i)] = CellAt(l, q, i + 1)
  /\ \A i \in 0 .. Len(q) : prev[CellAt(l, q, i + 1)] = CellAt(l, q, i)
  /\ next[tail(l)] = NULL
  /\ prev[head(l)] = NULL
  /\ Ops!NoDuplicates(q)
  /\ \A n \in Node : owner[n] = l <=> Ops!OnList(q, n)

\* Every list is some sequence.
LinkInv ==
  /\ LinkTypes
  /\ \A l \in List : \E q \in Seq(Node) : Linked(l, q)

-----------------------------------------------------------------------------
(* Walks. *)

\* There are finitely many cells.
LEMMA CellsFinite ==
  /\ IsFiniteSet(Node) /\ IsFiniteSet(Cell)
  /\ Cardinality(Node) \in Nat /\ Cardinality(Cell) \in Nat
<1>1. IsFiniteSet({"head"}) /\ IsFiniteSet({"tail"})
  BY FS_Singleton
<1>2. IsFiniteSet({"head"} \cup {"tail"})
  BY <1>1, FS_Union
<1>3. IsFiniteSet(({"head"} \cup {"tail"}) \X List)
  BY <1>2, FS_Product, LinkedListAssumption
<1>4. Sentinel \in SUBSET (({"head"} \cup {"tail"}) \X List)
  BY DEF Sentinel, head, tail
<1>5. IsFiniteSet(Sentinel)
  BY <1>3, <1>4, FS_Subset
<1>6. IsFiniteSet(Cell)
  BY <1>5, FS_Union, LinkedListAssumption DEF Cell
<1> QED
  BY <1>6, FS_CardinalityType, LinkedListAssumption

\* A list is never so long that a walk ends before its sentinel.
LEMMA ListBound ==
  ASSUME NEW l \in List, NEW q \in Seq(Node), Ops!NoDuplicates(q)
  PROVE  /\ Cardinality(Node) \in Nat /\ Cardinality(Cell) \in Nat
         /\ Len(q) \in Nat
         /\ Len(q) <= Cardinality(Node)
         /\ Len(q) < Cardinality(Cell)
<1>1. IsFiniteSet(Node) /\ IsFiniteSet(Cell)
  BY CellsFinite
<1>2. Cardinality(Node) \in Nat /\ Cardinality(Cell) \in Nat
  BY CellsFinite
<1>3. Len(q) <= Cardinality(Node)
  <2>1. Len(q) \in Nat /\ q \in [1 .. Len(q) -> Node]
    BY LenProperties
  <2>2. q \in Injection(1 .. Len(q), Node)
    BY <2>1 DEF Ops!NoDuplicates, Injection, IsInjective
  <2>3. Cardinality(1 .. Len(q)) = Len(q)
    BY <2>1, FS_Interval
  <2> QED
    BY <1>1, <2>2, <2>3, FS_Injection
<1>4. Cardinality(Node) < Cardinality(Cell)
  <2>1. Node \subseteq Cell /\ Node # Cell
    BY Sentinels DEF Cell
  <2> QED
    BY <1>1, <1>2, <2>1, FS_Subset
<1> QED
  BY <1>2, <1>3, <1>4

\* What defines Walk (with m = next and a = next[head(l)]) and WalkBack.
IsWalk(W, m, a) ==
  W = [k \in 0 .. Cardinality(Cell) |->
         IF k = 0 THEN a ELSE IF W[k - 1] \in Cell THEN m[W[k - 1]] ELSE NULL]

\* There is only one such function.
LEMMA WalkUnique ==
  ASSUME NEW V, NEW W, NEW m, NEW a, IsWalk(V, m, a), IsWalk(W, m, a)
  PROVE  V = W
<1> DEFINE D == 0 .. Cardinality(Cell)
           B == {k \in D : V[k] # W[k]}
<1>1. B = {}
  <2> SUFFICES ASSUME B # {} PROVE FALSE
    OBVIOUS
  <2>1. PICK k \in B : \A j \in B : k <= j
    <3>1. B \subseteq Nat
      OBVIOUS
    <3> HIDE DEF B
    <3> QED
      BY <3>1, Ops!LeastNatural
  <2>2. k \in D /\ V[k] # W[k]
    OBVIOUS
  <2>3. k # 0
    BY <2>2 DEF IsWalk
  <2>4. k - 1 \in D /\ k - 1 \notin B
    BY <2>1, <2>2, <2>3, CellsFinite
  <2>5. V[k - 1] = W[k - 1]
    BY <2>4
  <2>6. V[k] = IF V[k - 1] \in Cell THEN m[V[k - 1]] ELSE NULL
    BY <2>2, <2>3 DEF IsWalk
  <2>7. W[k] = IF W[k - 1] \in Cell THEN m[W[k - 1]] ELSE NULL
    BY <2>2, <2>3 DEF IsWalk
  <2> QED
    BY <2>2, <2>5, <2>6, <2>7
<1>2. \A k \in D : V[k] = W[k]
  BY <1>1
<1>3. V = [k \in D |-> V[k]] /\ W = [k \in D |-> W[k]]
  BY DEF IsWalk
<1> HIDE DEF D
<1> QED
  BY <1>2, <1>3

\* Along cells c[0], c[1], ..., c[L], where the pointer of c[L] is NULL.
LEMMA WalkAlong ==
  ASSUME NEW m, NEW L \in Nat, L < Cardinality(Cell), NEW c \in [0 .. L -> Cell],
         \A k \in 0 .. L : k < L => m[c[k]] = c[k + 1],
         m[c[L]] = NULL
  PROVE  IsWalk([k \in 0 .. Cardinality(Cell) |-> IF k <= L THEN c[k] ELSE NULL], m, c[0])
<1> DEFINE N == Cardinality(Cell)
           V == [k \in 0 .. N |-> IF k <= L THEN c[k] ELSE NULL]
           F == [k \in 0 .. N |-> IF k = 0 THEN c[0] ELSE
                   IF V[k - 1] \in Cell THEN m[V[k - 1]] ELSE NULL]
<1>1. N \in Nat /\ L < N
  BY CellsFinite
<1> HIDE DEF N
<1>2. ASSUME NEW k \in 0 .. N
      PROVE  V[k] = F[k]
  <2>1. CASE k = 0
    BY <1>1, <2>1
  <2>2. CASE k \in 1 .. L
    <3>1. k - 1 \in 0 .. L /\ k - 1 < L /\ k - 1 \in 0 .. N /\ (k - 1) + 1 = k
      BY <1>1, <2>2
    <3>2. V[k - 1] = c[k - 1] /\ V[k] = c[k] /\ c[k - 1] \in Cell
      BY <2>2, <3>1
    <3>3. m[c[k - 1]] = c[k]
      BY <3>1
    <3>4. F[k] = IF V[k - 1] \in Cell THEN m[V[k - 1]] ELSE NULL
      BY <2>2
    <3> HIDE DEF V, F
    <3> QED
      BY <3>2, <3>3, <3>4
  <2>3. CASE k = L + 1
    <3>1. k - 1 = L /\ L \in 0 .. N /\ L \in 0 .. L /\ k # 0
      BY <1>1, <2>3
    <3>2. V[k - 1] = c[L] /\ V[k] = NULL /\ c[L] \in Cell
      BY <1>1, <2>3, <3>1
    <3>3. F[k] = IF V[k - 1] \in Cell THEN m[V[k - 1]] ELSE NULL
      BY <3>1
    <3> HIDE DEF V, F
    <3> QED
      BY <3>2, <3>3
  <2>4. CASE k > L + 1
    <3>1. k - 1 \in 0 .. N /\ ~ (k - 1 <= L) /\ ~ (k <= L) /\ k # 0
      BY <1>1, <2>4
    <3>2. V[k - 1] = NULL /\ V[k] = NULL
      BY <3>1
    <3>3. F[k] = IF V[k - 1] \in Cell THEN m[V[k - 1]] ELSE NULL
      BY <3>1
    <3> HIDE DEF V, F
    <3> QED
      BY <3>2, <3>3, LinkedListAssumption
  <2> QED
    BY <1>1, <2>1, <2>2, <2>3, <2>4
<1>3. V = [k \in 0 .. N |-> V[k]] /\ F = [k \in 0 .. N |-> F[k]]
  OBVIOUS
<1>4. V = F
  <2> HIDE DEF V, F
  <2> QED
    BY <1>2, <1>3
<1> HIDE DEF V
<1>5. IsWalk(V, m, c[0])
  BY <1>4 DEF IsWalk, N
<1> QED
  BY <1>5 DEF V, N

\* The walk along next visits the nodes in order and then the tail sentinel.
LEMMA WalkIs ==
  ASSUME NEW l \in List, NEW q \in Seq(Node), Linked(l, q)
  PROVE  Walk(l) = [k \in 0 .. Cardinality(Cell) |->
                      IF k <= Len(q) THEN CellAt(l, q, k + 1) ELSE NULL]
<1> DEFINE c == [k \in 0 .. Len(q) |-> CellAt(l, q, k + 1)]
           V == [k \in 0 .. Cardinality(Cell) |-> IF k <= Len(q) THEN c[k] ELSE NULL]
<1>1. Len(q) \in Nat /\ Len(q) < Cardinality(Cell)
  BY ListBound DEF Linked
<1>2. c \in [0 .. Len(q) -> Cell]
  BY <1>1, CellAtValues
<1>3. ASSUME NEW k \in 0 .. Len(q), k < Len(q)
      PROVE  next[c[k]] = c[k + 1]
  <2>1. k + 1 \in 0 .. Len(q)
    BY <1>1, <1>3
  <2> QED
    BY <2>1 DEF Linked
<1>4. c[0] = next[head(l)] /\ c[Len(q)] = tail(l)
  <2>1. next[CellAt(l, q, 0)] = CellAt(l, q, 0 + 1)
    BY <1>1 DEF Linked
  <2> QED
    BY <1>1, <2>1, CellAtValues
<1>5. next[c[Len(q)]] = NULL
  BY <1>4 DEF Linked
<1> HIDE DEF c
<1>6. IsWalk(V, next, c[0])
  BY <1>1, <1>2, <1>3, <1>5, WalkAlong
<1> HIDE DEF V
<1>7. IsWalk(V, next, next[head(l)])
  BY <1>4, <1>6
<1>8. IsWalk(Walk(l), next, next[head(l)])
  BY <1>7, Zenon DEF IsWalk, Walk
<1>9. Walk(l) = V
  BY <1>7, <1>8, WalkUnique
<1> QED
  BY <1>1, <1>9, CellsFinite DEF V, c

\* The walk along prev visits the nodes in reverse and then the head sentinel.
LEMMA WalkBackIs ==
  ASSUME NEW l \in List, NEW q \in Seq(Node), Linked(l, q)
  PROVE  WalkBack(l) = [k \in 0 .. Cardinality(Cell) |->
                          IF k <= Len(q) THEN CellAt(l, q, Len(q) - k) ELSE NULL]
<1> DEFINE c == [k \in 0 .. Len(q) |-> CellAt(l, q, Len(q) - k)]
           V == [k \in 0 .. Cardinality(Cell) |-> IF k <= Len(q) THEN c[k] ELSE NULL]
<1>1. Len(q) \in Nat /\ Len(q) < Cardinality(Cell)
  BY ListBound DEF Linked
<1>2. c \in [0 .. Len(q) -> Cell]
  BY <1>1, CellAtValues
<1>3. ASSUME NEW k \in 0 .. Len(q), k < Len(q)
      PROVE  prev[c[k]] = c[k + 1]
  <2>1. Len(q) - (k + 1) \in 0 .. Len(q) /\ (Len(q) - (k + 1)) + 1 = Len(q) - k
    BY <1>1, <1>3
  <2>2. prev[CellAt(l, q, Len(q) - k)] = CellAt(l, q, Len(q) - (k + 1))
    BY <2>1 DEF Linked
  <2> QED
    BY <1>1, <1>3, <2>2
<1>4. c[0] = prev[tail(l)] /\ c[Len(q)] = head(l)
  <2>1. prev[CellAt(l, q, Len(q) + 1)] = CellAt(l, q, Len(q))
    BY <1>1 DEF Linked
  <2> QED
    BY <1>1, <2>1, CellAtValues
<1>5. prev[c[Len(q)]] = NULL
  BY <1>4 DEF Linked
<1> HIDE DEF c
<1>6. IsWalk(V, prev, c[0])
  BY <1>1, <1>2, <1>3, <1>5, WalkAlong
<1> HIDE DEF V
<1>7. IsWalk(V, prev, prev[tail(l)])
  BY <1>4, <1>6
<1>8. IsWalk(WalkBack(l), prev, prev[tail(l)])
  BY <1>7, Zenon DEF IsWalk, WalkBack
<1>9. WalkBack(l) = V
  BY <1>7, <1>8, WalkUnique
<1> QED
  BY <1>1, <1>9, CellsFinite DEF V, c

\* So the walk from the head reads the list off its pointers.
LEMMA ContentsIs ==
  ASSUME NEW l \in List, NEW q \in Seq(Node), Linked(l, q)
  PROVE  Contents(l) = q
<1> DEFINE N == Cardinality(Cell)
           W == Walk(l)
           P(k) == /\ W[k] \notin Node \/ k = N
                   /\ \A j \in 0 .. k - 1 : W[j] \in Node
           len == CHOOSE k \in 0 .. N : P(k)
<1>1. N \in Nat /\ Len(q) \in Nat /\ Len(q) < N
  BY ListBound DEF Linked
<1>2. ASSUME NEW k \in 0 .. N
      PROVE  W[k] = IF k <= Len(q) THEN CellAt(l, q, k + 1) ELSE NULL
  BY WalkIs
<1>3. ASSUME NEW k \in 0 .. Len(q) - 1
      PROVE  W[k] = q[k + 1] /\ W[k] \in Node
  <2>1. k \in 0 .. N /\ k <= Len(q) /\ k + 1 \in 1 .. Len(q)
    BY <1>1
  <2> HIDE DEF W
  <2> QED
    BY <1>2, <2>1, CellAtValues
<1>4. W[Len(q)] = tail(l) /\ W[Len(q)] \notin Node
  <2>1. Len(q) \in 0 .. N
    BY <1>1
  <2> HIDE DEF W
  <2> QED
    BY <1>2, <2>1, CellAtValues, Sentinels
<1> HIDE DEF W
<1>5. P(Len(q)) /\ Len(q) \in 0 .. N
  BY <1>1, <1>3, <1>4
<1>6. ASSUME NEW k \in 0 .. N, P(k)
      PROVE  k = Len(q)
  <2>1. ~ (k < Len(q))
    <3> SUFFICES ASSUME k < Len(q) PROVE FALSE
      OBVIOUS
    <3>1. k \in 0 .. Len(q) - 1 /\ k # N
      BY <1>1
    <3> QED
      BY <1>3, <1>6, <3>1
  <2>2. ~ (k > Len(q))
    <3> SUFFICES ASSUME k > Len(q) PROVE FALSE
      OBVIOUS
    <3>1. Len(q) \in 0 .. k - 1
      BY <1>1
    <3> QED
      BY <1>4, <1>6, <3>1
  <2> QED
    BY <1>1, <2>1, <2>2
<1>7. len = Len(q)
  <2> HIDE DEF P
  <2> QED
    BY <1>5, <1>6
<1>8. Contents(l) = [i \in 1 .. len |-> W[i - 1]]
  BY DEF Contents, W
<1>9. ASSUME NEW i \in 1 .. Len(q)
      PROVE  W[i - 1] = q[i]
  <2>1. i - 1 \in 0 .. Len(q) - 1 /\ (i - 1) + 1 = i
    BY <1>1
  <2> QED
    BY <1>3, <2>1
<1>10. q = [i \in 1 .. Len(q) |-> q[i]]
  OBVIOUS
<1> HIDE DEF len
<1> QED
  BY <1>7, <1>8, <1>9, <1>10

-----------------------------------------------------------------------------
(* What the invariant implies. *)

\* A linked node is between two cells.
LEMMA InvImpliesTypes == LinkInv => LinkTypeOK
<1> SUFFICES ASSUME LinkInv, NEW n \in Node, owner[n] # NULL
             PROVE  next[n] # NULL /\ prev[n] # NULL
  BY DEF LinkInv, LinkTypes, LinkTypeOK
<1>1. owner[n] \in List
  BY DEF LinkInv, LinkTypes
<1>2. PICK q \in Seq(Node) : Linked(owner[n], q)
  BY <1>1 DEF LinkInv
<1>3. PICK i \in 1 .. Len(q) : q[i] = n
  BY <1>2 DEF Linked, Ops!OnList
<1>4. CellAt(owner[n], q, i) = n /\ Len(q) \in Nat
  BY <1>1, <1>3, CellAtValues
<1>5. next[n] = CellAt(owner[n], q, i + 1)
  BY <1>2, <1>4 DEF Linked
<1>6. prev[n] = CellAt(owner[n], q, i - 1)
  <2>1. i - 1 \in 0 .. Len(q) /\ (i - 1) + 1 = i
    BY <1>4
  <2> QED
    BY <1>2, <1>4, <2>1 DEF Linked
<1> QED
  BY <1>1, <1>4, <1>5, <1>6, CellAtValues

\* Both walks give the same sequence.
LEMMA InvImpliesBothWays == LinkInv => BothWays
<1> SUFFICES ASSUME LinkInv, NEW l \in List
             PROVE  /\ Walk(l)[Len(Contents(l))] = tail(l)
                    /\ WalkBack(l)[Len(Contents(l))] = head(l)
                    /\ \A i \in 1 .. Len(Contents(l)) :
                         WalkBack(l)[i - 1] = Contents(l)[Len(Contents(l)) + 1 - i]
                    /\ next[tail(l)] = NULL
                    /\ prev[head(l)] = NULL
  BY DEF BothWays
<1>1. PICK q \in Seq(Node) : Linked(l, q)
  BY DEF LinkInv
<1>2. Contents(l) = q
  BY <1>1, ContentsIs
<1>3. Cardinality(Cell) \in Nat /\ Len(q) \in Nat /\ Len(q) < Cardinality(Cell)
  BY <1>1, ListBound DEF Linked
<1>4. Len(q) \in 0 .. Cardinality(Cell)
  BY <1>3
<1>5. Walk(l)[Len(q)] = CellAt(l, q, Len(q) + 1)
  BY <1>1, <1>3, <1>4, WalkIs
<1>6. WalkBack(l)[Len(q)] = CellAt(l, q, 0)
  BY <1>1, <1>3, <1>4, WalkBackIs
<1>7. ASSUME NEW i \in 1 .. Len(q)
      PROVE  WalkBack(l)[i - 1] = q[Len(q) + 1 - i]
  <2>1. i - 1 \in 0 .. Cardinality(Cell) /\ i - 1 <= Len(q)
        /\ Len(q) - (i - 1) = Len(q) + 1 - i /\ Len(q) + 1 - i \in 1 .. Len(q)
    BY <1>3
  <2>2. WalkBack(l)[i - 1] = CellAt(l, q, Len(q) - (i - 1))
    BY <1>1, <2>1, WalkBackIs
  <2> QED
    BY <2>1, <2>2, CellAtValues
<1>8. next[tail(l)] = NULL /\ prev[head(l)] = NULL
  BY <1>1 DEF Linked
<1> QED
  BY <1>2, <1>5, <1>6, <1>7, <1>8, CellAtValues

\* The owner of a node is the list whose contents it is in.
LEMMA InvImpliesOwner == LinkInv => OnOwnersList
<1> SUFFICES ASSUME LinkInv, NEW n \in Node, NEW l \in List
             PROVE  owner[n] = l <=> \E i \in 1 .. Len(Contents(l)) : Contents(l)[i] = n
  BY DEF OnOwnersList
<1>1. PICK q \in Seq(Node) : Linked(l, q)
  BY DEF LinkInv
<1>2. Contents(l) = q
  BY <1>1, ContentsIs
<1> QED
  BY <1>1, <1>2 DEF Linked, Ops!OnList

\* The search of list_find() stops at the first node of the sequence that has
\* the name, and at the tail sentinel.
LEMMA InvImpliesFinds == LinkInv => FindsFirst
<1> SUFFICES ASSUME LinkInv, NEW l \in List, NEW n \in Node
             PROVE  list_find(l, name[n]) = Lists!list_find(Contents(l), name, name[n])
  BY DEF FindsFirst
<1>1. PICK q \in Seq(Node) : Linked(l, q)
  BY DEF LinkInv
<1>2. Contents(l) = q
  BY <1>1, ContentsIs
<1>3. /\ Cardinality(Cell) \in Nat /\ Cardinality(Node) \in Nat /\ Len(q) \in Nat
      /\ Len(q) <= Cardinality(Node) /\ Len(q) < Cardinality(Cell)
  BY <1>1, ListBound DEF Linked
<1> DEFINE s == name[n]
           W == Walk(l)
           hit(k) == /\ \A j \in 0 .. k : SearchPasses(W[j])
                     /\ \A j \in 0 .. k - 1 : name[W[j]] # s
                     /\ name[W[k]] = s
           first(i) == name[q[i]] = s /\ \A j \in 1 .. i - 1 : name[q[j]] # s
<1>4. ASSUME NEW k \in 0 .. Len(q) - 1
      PROVE  W[k] = q[k + 1] /\ SearchPasses(W[k])
  <2>1. k \in 0 .. Cardinality(Cell) /\ k <= Len(q) /\ k + 1 \in 1 .. Len(q)
        /\ k + 1 \in 0 .. Len(q) /\ (k + 1) + 1 \in 0 .. Len(q) + 1
    BY <1>3
  <2>2. W[k] = CellAt(l, q, k + 1)
    BY <1>1, <2>1, WalkIs
  <2>3. next[CellAt(l, q, k + 1)] = CellAt(l, q, (k + 1) + 1)
    BY <1>1, <2>1 DEF Linked
  <2> HIDE DEF W
  <2> QED
    BY <2>1, <2>2, <2>3, CellAtValues DEF SearchPasses
<1>5. ~ SearchPasses(W[Len(q)])
  <2>1. Len(q) \in 0 .. Cardinality(Cell)
    BY <1>3
  <2>2. W[Len(q)] = CellAt(l, q, Len(q) + 1)
    BY <1>1, <1>3, <2>1, WalkIs
  <2> HIDE DEF W
  <2> QED
    BY <1>1, <2>2, CellAtValues DEF SearchPasses, Linked
<1> HIDE DEF W
<1>6. ASSUME NEW k \in 0 .. Cardinality(Node), hit(k)
      PROVE  k + 1 \in 1 .. Len(q) /\ first(k + 1) /\ W[k] = q[k + 1]
  <2>1. k \in 0 .. Len(q) - 1
    <3> SUFFICES ASSUME k >= Len(q) PROVE FALSE
      BY <1>3
    <3>1. Len(q) \in 0 .. k
      BY <1>3
    <3> QED
      BY <1>5, <1>6, <3>1
  <2>2. ASSUME NEW j \in 1 .. (k + 1) - 1
        PROVE  name[q[j]] # s
    <3>1. j - 1 \in 0 .. k - 1 /\ j - 1 \in 0 .. Len(q) - 1 /\ (j - 1) + 1 = j
      BY <1>3, <2>1
    <3>2. W[j - 1] = q[j]
      BY <1>4, <3>1
    <3>3. name[W[j - 1]] # s
      BY <1>6, <3>1
    <3> QED
      BY <3>2, <3>3
  <2>3. W[k] = q[k + 1] /\ name[W[k]] = s
    BY <1>4, <1>6, <2>1
  <2> QED
    BY <1>3, <2>1, <2>2, <2>3
<1>7. ASSUME NEW i \in 1 .. Len(q), first(i)
      PROVE  i - 1 \in 0 .. Cardinality(Node) /\ hit(i - 1) /\ W[i - 1] = q[i]
  <2>1. i - 1 \in 0 .. Len(q) - 1 /\ i - 1 \in 0 .. Cardinality(Node) /\ (i - 1) + 1 = i
    BY <1>3
  <2>2. ASSUME NEW j \in 0 .. i - 1
        PROVE  SearchPasses(W[j])
    <3>1. j \in 0 .. Len(q) - 1
      BY <1>3
    <3> QED
      BY <1>4, <3>1
  <2>3. ASSUME NEW j \in 0 .. (i - 1) - 1
        PROVE  name[W[j]] # s
    <3>1. j \in 0 .. Len(q) - 1 /\ j + 1 \in 1 .. i - 1
      BY <1>3
    <3>2. W[j] = q[j + 1]
      BY <1>4, <3>1
    <3>3. name[q[j + 1]] # s
      BY <1>7, <3>1
    <3> QED
      BY <3>2, <3>3
  <2>4. W[i - 1] = q[i] /\ name[q[i]] = s
    BY <1>4, <1>7, <2>1
  <2> QED
    BY <2>1, <2>2, <2>3, <2>4
<1>8. list_find(l, s) = {W[k] : k \in {k \in 0 .. Cardinality(Node) : hit(k)}}
  BY DEF list_find, W
<1>9. Lists!list_find(q, name, s) = {q[i] : i \in {i \in 1 .. Len(q) : first(i)}}
  BY DEF Lists!list_find
<1> HIDE DEF hit, first
<1>10. {W[k] : k \in {k \in 0 .. Cardinality(Node) : hit(k)}}
        = {q[i] : i \in {i \in 1 .. Len(q) : first(i)}}
  BY <1>6, <1>7
<1> QED
  BY <1>2, <1>8, <1>9, <1>10

-----------------------------------------------------------------------------
(* Linking and unlinking. *)

\* A list none of whose cells and owners change stays as it is.
LEMMA UntouchedList ==
  ASSUME NEW k \in List, NEW r \in Seq(Node), Linked(k, r),
         \A j \in 0 .. Len(r) + 1 : /\ next'[CellAt(k, r, j)] = next[CellAt(k, r, j)]
                                    /\ prev'[CellAt(k, r, j)] = prev[CellAt(k, r, j)],
         \A n \in Node : owner'[n] = k <=> owner[n] = k
  PROVE  Linked(k, r)'
<1>1. Len(r) \in Nat
  OBVIOUS
<1>2. ASSUME NEW i \in 0 .. Len(r)
      PROVE  /\ next'[CellAt(k, r, i)] = CellAt(k, r, i + 1)
             /\ prev'[CellAt(k, r, i + 1)] = CellAt(k, r, i)
  <2>1. i \in 0 .. Len(r) + 1 /\ i + 1 \in 0 .. Len(r) + 1
    BY <1>1
  <2> QED
    BY <2>1 DEF Linked
<1>3. next'[tail(k)] = NULL /\ prev'[head(k)] = NULL
  <2>1. 0 \in 0 .. Len(r) + 1 /\ Len(r) + 1 \in 0 .. Len(r) + 1
    BY <1>1
  <2> QED
    BY <2>1, CellAtValues DEF Linked
<1> QED
  BY <1>2, <1>3 DEF Linked

\* Two lists have no cell in common.
LEMMA ListsApart ==
  ASSUME NEW l \in List, NEW q \in Seq(Node), Linked(l, q),
         NEW k \in List, NEW r \in Seq(Node), Linked(k, r), l # k
  PROVE  \A i \in 0 .. Len(q) + 1, j \in 0 .. Len(r) + 1 :
           CellAt(l, q, i) # CellAt(k, r, j)
<1>1. \A n \in Node : ~ (Ops!OnList(q, n) /\ Ops!OnList(r, n))
  BY DEF Linked
<1> QED
  BY <1>1, CellAtApart

\* A node that nobody has put on a list is no cell of any.
LEMMA FreeApart ==
  ASSUME NEW l \in List, NEW q \in Seq(Node), Linked(l, q), NEW n \in Node, owner[n] # l
  PROVE  \A i \in 0 .. Len(q) + 1 : CellAt(l, q, i) # n
<1> SUFFICES ASSUME NEW i \in 0 .. Len(q) + 1, CellAt(l, q, i) = n
             PROVE  FALSE
  OBVIOUS
<1>1. i \in 1 .. Len(q)
  BY CellAtValues, Sentinels
<1>2. Ops!OnList(q, n)
  BY <1>1, CellAtValues DEF Ops!OnList
<1> QED
  BY <1>2 DEF Linked

\* A step after which list l is e and every other list is what it was.
Becomes(l, e) ==
  /\ LinkTypes'
  /\ e \in Seq(Node)
  /\ Linked(l, e)'
  /\ \A k \in List \ {l}, r \in Seq(Node) : Linked(k, r) => Linked(k, r)'

\* The four assignments that link a node before the i-th cell of a list insert
\* it there, and leave every other list alone.
LEMMA LinkInserts ==
  ASSUME LinkTypes, NEW l \in List, NEW q \in Seq(Node), Linked(l, q),
         NEW n \in Node, NEW i \in 1 .. Len(q) + 1,
         Adds(l, n), LinkBefore(n, CellAt(l, q, i)), UNCHANGED prio
  PROVE  Becomes(l, Ops!InsertAt(q, i, n))
<1> DEFINE x == CellAt(l, q, i)
           y == CellAt(l, q, i - 1)
           e == Ops!InsertAt(q, i, n)
<1>1. Len(q) \in Nat /\ i \in 0 .. Len(q) + 1 /\ i - 1 \in 0 .. Len(q) + 1
      /\ i - 1 \in 0 .. Len(q) /\ (i - 1) + 1 = i
  OBVIOUS
<1>2. x \in Cell /\ y \in Cell /\ prev[x] = y /\ n \in Cell
  BY <1>1, CellAtValues, Sentinels DEF Linked
<1>3. owner[n] = NULL /\ owner' = [owner EXCEPT ![n] = l] /\ NULL \notin List
  BY LinkedListAssumption DEF Adds
<1>4. \A j \in 0 .. Len(q) + 1 : CellAt(l, q, j) # n
  BY <1>3, FreeApart
<1>5. /\ next' = [next EXCEPT ![n] = x, ![y] = n]
      /\ prev' = [prev EXCEPT ![n] = y, ![x] = n]
  BY <1>2 DEF LinkBefore
<1>6. x # n /\ y # n
  BY <1>1, <1>4
<1> HIDE DEF x, y
<1>7. /\ \A c \in Cell : next'[c] = IF c = y THEN n ELSE IF c = n THEN x ELSE next[c]
      /\ \A c \in Cell : prev'[c] = IF c = x THEN n ELSE IF c = n THEN y ELSE prev[c]
      /\ next' \in [Cell -> Cell \cup {NULL}]
      /\ prev' \in [Cell -> Cell \cup {NULL}]
  BY <1>2, <1>5, <1>6 DEF LinkTypes
<1>8. \A m \in Node : owner'[m] = IF m = n THEN l ELSE owner[m]
  BY <1>3 DEF LinkTypes
<1>9. LinkTypes'
  BY <1>3, <1>7 DEF LinkTypes
<1>10. e \in Seq(Node) /\ Len(e) = Len(q) + 1 /\ Ops!InsertedAt(e, q, n, i)
  BY Ops!InsertAtElements DEF Ops!InsertedAt
<1> HIDE DEF e
<1>11. ASSUME NEW j \in 0 .. Len(q) + 2
       PROVE  CellAt(l, e, j) = IF j < i THEN CellAt(l, q, j)
                                ELSE IF j = i THEN n ELSE CellAt(l, q, j - 1)
  <2>1. /\ \A h \in 1 .. i - 1 : e[h] = q[h]
        /\ e[i] = n
        /\ \A h \in i + 1 .. Len(q) + 1 : e[h] = q[h - 1]
    BY <1>10 DEF Ops!InsertedAt
  <2> QED
    BY <1>1, <1>10, <2>1 DEF CellAt
<1>12. \A j \in 0 .. Len(q) + 1, h \in 0 .. Len(q) + 1 :
         CellAt(l, q, j) = CellAt(l, q, h) => j = h
  BY CellAtInjective DEF Linked
<1>13. ASSUME NEW j \in 0 .. Len(q) + 1
       PROVE  /\ next'[CellAt(l, e, j)] = CellAt(l, e, j + 1)
              /\ prev'[CellAt(l, e, j + 1)] = CellAt(l, e, j)
  <2>1. j \in 0 .. Len(q) + 2 /\ j + 1 \in 0 .. Len(q) + 2
    BY <1>1
  <2>2. CASE j < i - 1
    <3>1. /\ j \in 0 .. Len(q) /\ j \in 0 .. Len(q) + 1 /\ j + 1 \in 0 .. Len(q) + 1
          /\ j < i /\ j + 1 < i /\ j # i - 1 /\ j + 1 # i
      BY <1>1, <2>2
    <3>2. CellAt(l, e, j) = CellAt(l, q, j) /\ CellAt(l, e, j + 1) = CellAt(l, q, j + 1)
      BY <1>11, <2>1, <3>1
    <3>3. CellAt(l, q, j) # y /\ CellAt(l, q, j) # n
          /\ CellAt(l, q, j + 1) # x /\ CellAt(l, q, j + 1) # n
      BY <1>1, <1>4, <1>12, <3>1 DEF x, y
    <3>4. CellAt(l, q, j) \in Cell /\ CellAt(l, q, j + 1) \in Cell
      BY <3>1, CellAtValues
    <3>5. next[CellAt(l, q, j)] = CellAt(l, q, j + 1)
          /\ prev[CellAt(l, q, j + 1)] = CellAt(l, q, j)
      BY <3>1 DEF Linked
    <3> QED
      BY <1>7, <3>2, <3>3, <3>4, <3>5
  <2>3. CASE j = i - 1
    <3>1. j < i /\ j + 1 = i
      BY <1>1, <2>3
    <3>2. CellAt(l, e, j) = y /\ CellAt(l, e, j + 1) = n
      BY <1>11, <2>1, <2>3, <3>1 DEF y
    <3> QED
      BY <1>2, <1>6, <1>7, <3>2
  <2>4. CASE j = i
    <3>1. ~ (j < i) /\ ~ (j + 1 < i) /\ j + 1 # i /\ (j + 1) - 1 = i
      BY <1>1, <2>4
    <3>2. CellAt(l, e, j) = n /\ CellAt(l, e, j + 1) = x
      BY <1>11, <2>1, <2>4, <3>1 DEF x
    <3> QED
      BY <1>2, <1>6, <1>7, <3>2
  <2>5. CASE j > i
    <3>1. /\ j - 1 \in 0 .. Len(q) /\ j - 1 \in 0 .. Len(q) + 1 /\ j \in 0 .. Len(q) + 1
          /\ ~ (j < i) /\ j # i /\ ~ (j + 1 < i) /\ j + 1 # i
          /\ j - 1 # i - 1 /\ (j + 1) - 1 = j /\ (j - 1) + 1 = j
      BY <1>1, <2>5
    <3>2. CellAt(l, e, j) = CellAt(l, q, j - 1) /\ CellAt(l, e, j + 1) = CellAt(l, q, j)
      BY <1>11, <2>1, <3>1
    <3>3. CellAt(l, q, j - 1) # y /\ CellAt(l, q, j - 1) # n
          /\ CellAt(l, q, j) # x /\ CellAt(l, q, j) # n
      BY <1>1, <1>4, <1>12, <3>1 DEF x, y
    <3>4. CellAt(l, q, j - 1) \in Cell /\ CellAt(l, q, j) \in Cell
      BY <3>1, CellAtValues
    <3>5. next[CellAt(l, q, j - 1)] = CellAt(l, q, j)
          /\ prev[CellAt(l, q, j)] = CellAt(l, q, j - 1)
      BY <3>1 DEF Linked
    <3> QED
      BY <1>7, <3>2, <3>3, <3>4, <3>5
  <2> QED
    BY <1>1, <2>2, <2>3, <2>4, <2>5
<1>14. next'[tail(l)] = NULL /\ prev'[head(l)] = NULL
  <2>1. tail(l) # y /\ tail(l) # n /\ head(l) # x /\ head(l) # n
    <3>1. i - 1 # Len(q) + 1 /\ i # 0 /\ 0 \in 0 .. Len(q) + 1
          /\ Len(q) + 1 \in 0 .. Len(q) + 1
      BY <1>1
    <3> QED
      BY <1>1, <1>12, <3>1, CellAtValues, Sentinels DEF x, y
  <2> QED
    BY <1>7, <2>1, Sentinels DEF Linked
<1>15. /\ Ops!NoDuplicates(e)
       /\ \A m \in Node : owner'[m] = l <=> Ops!OnList(e, m)
  <2>1. ~ Ops!OnList(q, n)
    BY <1>3 DEF Linked
  <2>2. /\ \A m : Ops!OnList(e, m) <=> m = n \/ Ops!OnList(q, m)
        /\ Ops!NoDuplicates(q) /\ ~ Ops!OnList(q, n) => Ops!NoDuplicates(e)
    BY <1>10, Ops!InsertedMembers
  <2> QED
    BY <1>8, <2>1, <2>2 DEF Linked
<1>16. Linked(l, e)'
  BY <1>10, <1>13, <1>14, <1>15 DEF Linked
<1>17. ASSUME NEW k \in List \ {l}, NEW r \in Seq(Node), Linked(k, r)
       PROVE  Linked(k, r)'
  <2>1. ASSUME NEW j \in 0 .. Len(r) + 1
        PROVE  /\ next'[CellAt(k, r, j)] = next[CellAt(k, r, j)]
               /\ prev'[CellAt(k, r, j)] = prev[CellAt(k, r, j)]
    <3>1. CellAt(k, r, j) # x /\ CellAt(k, r, j) # y
      BY <1>1, <1>17, ListsApart DEF x, y
    <3>2. CellAt(k, r, j) # n
      BY <1>3, <1>17, FreeApart
    <3> QED
      BY <1>7, <3>1, <3>2, CellAtValues
  <2>2. \A m \in Node : owner'[m] = k <=> owner[m] = k
    BY <1>3, <1>8
  <2> QED
    BY <1>17, <2>1, <2>2, UntouchedList
<1> QED
  BY <1>9, <1>10, <1>16, <1>17 DEF e, Becomes

\* list_unlink() as an operation on sequences, where the position is known.
LEMMA UnlinkAt ==
  ASSUME NEW q \in Seq(Node), Ops!NoDuplicates(q), NEW i \in 1 .. Len(q)
  PROVE  Ops!list_unlink(q, q[i]) = Ops!RemoveAt(q, i)
<1> DEFINE k == CHOOSE j \in 1 .. Len(q) : q[j] = q[i]
<1>1. k \in 1 .. Len(q) /\ q[k] = q[i]
  OBVIOUS
<1>2. k = i
  BY <1>1 DEF Ops!NoDuplicates
<1>3. Ops!list_unlink(q, q[i]) = Ops!RemoveAt(q, k)
  BY DEF Ops!list_unlink
<1> HIDE DEF k
<1> QED
  BY <1>2, <1>3

\* The two assignments of list_unlink() take the i-th node off its list, and
\* leave every other list alone.
LEMMA UnlinkRemoves ==
  ASSUME LinkTypes, NEW l \in List, NEW q \in Seq(Node), Linked(l, q),
         NEW i \in 1 .. Len(q), list_unlink(q[i])
  PROVE  Becomes(l, Ops!list_unlink(q, q[i]))
<1> DEFINE n == q[i]
           x == CellAt(l, q, i + 1)
           y == CellAt(l, q, i - 1)
           e == Ops!list_unlink(q, n)
<1>1. /\ Len(q) \in Nat /\ i \in 0 .. Len(q) /\ i \in 0 .. Len(q) + 1
      /\ i + 1 \in 0 .. Len(q) + 1 /\ i - 1 \in 0 .. Len(q) + 1
      /\ i - 1 \in 0 .. Len(q) /\ (i - 1) + 1 = i
  OBVIOUS
<1>2. CellAt(l, q, i) = n /\ n \in Node /\ x \in Cell /\ y \in Cell
  BY <1>1, CellAtValues
<1>3. next[n] = x /\ prev[n] = y
  BY <1>1, <1>2 DEF Linked
<1>4. Ops!OnList(q, n) /\ Ops!NoDuplicates(q)
  BY DEF Ops!OnList, Linked
<1>5. owner[n] = l
  BY <1>2, <1>4 DEF Linked
<1>6. /\ next' = [next EXCEPT ![y] = x]
      /\ prev' = [prev EXCEPT ![x] = y]
      /\ owner' = [owner EXCEPT ![n] = NULL]
      /\ UNCHANGED prio
  BY <1>3 DEF list_unlink
<1>7. /\ e \in Seq(Node)
      /\ \A m : Ops!OnList(e, m) <=> m # n /\ Ops!OnList(q, m)
      /\ Ops!NoDuplicates(e)
  BY <1>4, Ops!UnlinkMembers
<1>8. /\ Len(e) = Len(q) - 1
      /\ \A j \in 1 .. i - 1 : e[j] = q[j]
      /\ \A j \in i .. Len(q) - 1 : e[j] = q[j + 1]
  BY <1>4, UnlinkAt, Ops!RemoveAtElements
<1> HIDE DEF x, y, e, n
<1>9. /\ \A c \in Cell : next'[c] = IF c = y THEN x ELSE next[c]
      /\ \A c \in Cell : prev'[c] = IF c = x THEN y ELSE prev[c]
      /\ \A m \in Node : owner'[m] = IF m = n THEN NULL ELSE owner[m]
  BY <1>2, <1>6 DEF LinkTypes
<1>10. LinkTypes'
  BY <1>2, <1>6 DEF LinkTypes
<1>11. ASSUME NEW j \in 0 .. Len(q)
       PROVE  CellAt(l, e, j) = IF j < i THEN CellAt(l, q, j) ELSE CellAt(l, q, j + 1)
  BY <1>1, <1>8 DEF CellAt
<1>12. \A j \in 0 .. Len(q) + 1, h \in 0 .. Len(q) + 1 :
         CellAt(l, q, j) = CellAt(l, q, h) => j = h
  BY <1>4, CellAtInjective
<1>13. ASSUME NEW j \in 0 .. Len(q) - 1
       PROVE  /\ next'[CellAt(l, e, j)] = CellAt(l, e, j + 1)
              /\ prev'[CellAt(l, e, j + 1)] = CellAt(l, e, j)
  <2>1. j \in 0 .. Len(q) /\ j + 1 \in 0 .. Len(q)
    BY <1>1
  <2>2. CASE j < i - 1
    <3>1. /\ j \in 0 .. Len(q) + 1 /\ j + 1 \in 0 .. Len(q) + 1
          /\ j < i /\ j + 1 < i /\ j # i - 1 /\ j + 1 # i + 1
      BY <1>1, <2>2
    <3>2. CellAt(l, e, j) = CellAt(l, q, j) /\ CellAt(l, e, j + 1) = CellAt(l, q, j + 1)
      BY <1>11, <2>1, <3>1
    <3>3. CellAt(l, q, j) # y /\ CellAt(l, q, j + 1) # x
      BY <1>1, <1>12, <3>1 DEF x, y
    <3>4. CellAt(l, q, j) \in Cell /\ CellAt(l, q, j + 1) \in Cell
      BY <3>1, CellAtValues
    <3>5. next[CellAt(l, q, j)] = CellAt(l, q, j + 1)
          /\ prev[CellAt(l, q, j + 1)] = CellAt(l, q, j)
      BY <2>1 DEF Linked
    <3> QED
      BY <1>9, <3>2, <3>3, <3>4, <3>5
  <2>3. CASE j = i - 1
    <3>1. j < i /\ ~ (j + 1 < i) /\ (j + 1) + 1 = i + 1
      BY <1>1, <2>3
    <3>2. CellAt(l, e, j) = y /\ CellAt(l, e, j + 1) = x
      BY <1>11, <2>1, <2>3, <3>1 DEF x, y
    <3> QED
      BY <1>2, <1>9, <3>2
  <2>4. CASE j > i - 1
    <3>1. /\ j + 1 \in 0 .. Len(q) + 1 /\ (j + 1) + 1 \in 0 .. Len(q) + 1
          /\ ~ (j < i) /\ ~ (j + 1 < i) /\ j + 1 # i - 1 /\ (j + 1) + 1 # i + 1
      BY <1>1, <2>4
    <3>2. CellAt(l, e, j) = CellAt(l, q, j + 1)
          /\ CellAt(l, e, j + 1) = CellAt(l, q, (j + 1) + 1)
      BY <1>11, <2>1, <3>1
    <3>3. CellAt(l, q, j + 1) # y /\ CellAt(l, q, (j + 1) + 1) # x
      BY <1>1, <1>12, <3>1 DEF x, y
    <3>4. CellAt(l, q, j + 1) \in Cell /\ CellAt(l, q, (j + 1) + 1) \in Cell
      BY <3>1, CellAtValues
    <3>5. next[CellAt(l, q, j + 1)] = CellAt(l, q, (j + 1) + 1)
          /\ prev[CellAt(l, q, (j + 1) + 1)] = CellAt(l, q, j + 1)
      BY <2>1 DEF Linked
    <3> QED
      BY <1>9, <3>2, <3>3, <3>4, <3>5
  <2> QED
    BY <1>1, <2>2, <2>3, <2>4
<1>14. next'[tail(l)] = NULL /\ prev'[head(l)] = NULL
  <2>1. tail(l) # y /\ head(l) # x
    <3>1. i - 1 # Len(q) + 1 /\ i + 1 # 0 /\ 0 \in 0 .. Len(q) + 1
          /\ Len(q) + 1 \in 0 .. Len(q) + 1
      BY <1>1
    <3> QED
      BY <1>1, <1>12, <3>1, CellAtValues DEF x, y
  <2> QED
    BY <1>9, <2>1, Sentinels DEF Linked
<1>15. \A m \in Node : owner'[m] = l <=> Ops!OnList(e, m)
  BY <1>7, <1>9, LinkedListAssumption DEF Linked
<1>16. Linked(l, e)'
  BY <1>7, <1>8, <1>13, <1>14, <1>15 DEF Linked
<1>17. ASSUME NEW k \in List \ {l}, NEW r \in Seq(Node), Linked(k, r)
       PROVE  Linked(k, r)'
  <2>1. ASSUME NEW j \in 0 .. Len(r) + 1
        PROVE  /\ next'[CellAt(k, r, j)] = next[CellAt(k, r, j)]
               /\ prev'[CellAt(k, r, j)] = prev[CellAt(k, r, j)]
    <3>1. CellAt(k, r, j) # x /\ CellAt(k, r, j) # y
      BY <1>1, <1>17, ListsApart DEF x, y
    <3> QED
      BY <1>9, <3>1, CellAtValues
  <2>2. \A m \in Node : owner'[m] = k <=> owner[m] = k
    BY <1>5, <1>9, LinkedListAssumption
  <2> QED
    BY <1>17, <2>1, <2>2, UntouchedList
<1> QED
  BY <1>7, <1>10, <1>16, <1>17 DEF e, n, Becomes

-----------------------------------------------------------------------------
(* The invariant is inductive. *)

\* The lists that a step does not change, and the one it changes.
LEMMA InvFromLists ==
  ASSUME LinkInv, NEW l \in List, NEW e, Becomes(l, e)
  PROVE  LinkInv'
<1>1. ASSUME NEW k \in List
      PROVE  \E r \in Seq(Node) : Linked(k, r)'
  <2>1. CASE k = l
    BY <2>1 DEF Becomes
  <2>2. CASE k # l
    <3>1. PICK r \in Seq(Node) : Linked(k, r)
      BY DEF LinkInv
    <3> QED
      BY <2>2, <3>1 DEF Becomes
  <2> QED
    BY <2>1, <2>2
<1> QED
  BY <1>1 DEF LinkInv, Becomes

\* list_init() makes empty lists.
LEMMA InitEmpty ==
  ASSUME Init
  PROVE  LinkTypes /\ \A l \in List : Linked(l, << >>)
<1>1. ASSUME NEW l \in List
      PROVE  /\ next[head(l)] = tail(l) /\ next[tail(l)] = NULL
             /\ prev[tail(l)] = head(l) /\ prev[head(l)] = NULL
  <2>1. (CHOOSE k \in List : head(l) = head(k)) = l
    BY Sentinels
  <2>2. (CHOOSE k \in List : tail(l) = tail(k)) = l
    BY Sentinels
  <2>3. ~ \E k \in List : tail(l) = head(k)
    BY Sentinels
  <2>4. ~ \E k \in List : head(l) = tail(k)
    BY Sentinels
  <2> QED
    BY <2>1, <2>2, <2>3, <2>4, Sentinels DEF Init, list_init
<1>2. LinkTypes
  <2>1. ASSUME NEW x \in Cell, \E l \in List : x = head(l)
        PROVE  tail(CHOOSE l \in List : x = head(l)) \in Cell
    BY <2>1, Sentinels
  <2>2. ASSUME NEW x \in Cell, \E l \in List : x = tail(l)
        PROVE  head(CHOOSE l \in List : x = tail(l)) \in Cell
    BY <2>2, Sentinels
  <2>3. next \in [Cell -> Cell \cup {NULL}]
    BY <2>1 DEF Init, list_init
  <2>4. prev \in [Cell -> Cell \cup {NULL}]
    BY <2>2 DEF Init, list_init
  <2> QED
    BY <2>3, <2>4 DEF LinkTypes, Init
<1>3. ASSUME NEW l \in List
      PROVE  Linked(l, << >>)
  <2>1. CellAt(l, << >>, 0) = head(l) /\ CellAt(l, << >>, 1) = tail(l)
    BY DEF CellAt
  <2>2. \A n \in Node : owner[n] # l
    BY LinkedListAssumption DEF Init
  <2> QED
    BY <1>1, <2>1, <2>2 DEF Linked, Ops!NoDuplicates, Ops!OnList
<1> QED
  BY <1>2, <1>3

-----------------------------------------------------------------------------
(* What each call does to the sequence it is given. *)

\* list_add_tail() appends.
LEMMA AddTailStep ==
  ASSUME LinkTypes, NEW l \in List, NEW q \in Seq(Node), Linked(l, q), NEW n \in Node,
         Adds(l, n), LinkBefore(n, tail(l)), UNCHANGED prio
  PROVE  Becomes(l, Append(q, n))
<1> DEFINE e == Ops!InsertAt(q, Len(q) + 1, n)
<1>1. Len(q) \in Nat /\ Len(q) + 1 \in 1 .. Len(q) + 1 /\ CellAt(l, q, Len(q) + 1) = tail(l)
  BY CellAtValues
<1>2. Becomes(l, e)
  BY <1>1, LinkInserts
<1>3. /\ e \in Seq(Node) /\ Len(e) = Len(q) + 1
      /\ \A j \in 1 .. (Len(q) + 1) - 1 : e[j] = q[j]
      /\ e[Len(q) + 1] = n
  BY <1>1, Ops!InsertAtElements
<1> HIDE DEF e
<1>4. /\ Append(q, n) \in Seq(Node) /\ Len(Append(q, n)) = Len(q) + 1
      /\ \A j \in 1 .. Len(q) : Append(q, n)[j] = q[j]
      /\ Append(q, n)[Len(q) + 1] = n
  BY <1>1, AppendProperties
<1>5. ASSUME NEW j \in 1 .. Len(e)
      PROVE  e[j] = Append(q, n)[j]
  BY <1>1, <1>3, <1>4
<1>6. e = Append(q, n)
  BY <1>3, <1>4, <1>5, SeqEqual
<1> QED
  BY <1>2, <1>6

\* list_insert() behind a node ...
LEMMA InsertStep ==
  ASSUME LinkTypes, NEW l \in List, NEW q \in Seq(Node), Linked(l, q), NEW n \in Node,
         NEW i \in 1 .. Len(q), list_insert(l, n, q[i])
  PROVE  Becomes(l, Ops!InsertAt(q, i + 1, n))
<1>1. /\ Len(q) \in Nat /\ i \in 0 .. Len(q) /\ i + 1 \in 1 .. Len(q) + 1
      /\ i + 1 \in 0 .. Len(q) + 1
  OBVIOUS
<1>2. q[i] = CellAt(l, q, i)
  BY CellAtValues
<1>3. next[q[i]] = CellAt(l, q, i + 1)
  BY <1>1, <1>2 DEF Linked
<1>4. next[q[i]] # NULL
  BY <1>1, <1>3, CellAtValues
<1>5. LinkBefore(n, CellAt(l, q, i + 1)) /\ Adds(l, n) /\ UNCHANGED prio
  BY <1>3, <1>4 DEF list_insert
<1> QED
  BY <1>1, <1>5, LinkInserts

\* ... at the front ...
LEMMA InsertFrontStep ==
  ASSUME LinkTypes, NEW l \in List, NEW q \in Seq(Node), Linked(l, q), NEW n \in Node,
         list_insert(l, n, head(l))
  PROVE  Becomes(l, <<n>> \o q)
<1> DEFINE e == Ops!InsertAt(q, 1, n)
           f == <<n>> \o q
<1>1. Len(q) \in Nat /\ 0 \in 0 .. Len(q) /\ 1 \in 1 .. Len(q) + 1 /\ 1 \in 0 .. Len(q) + 1
  OBVIOUS
<1>2. next[head(l)] = CellAt(l, q, 0 + 1)
  BY <1>1, CellAtValues DEF Linked
<1>3. next[head(l)] = CellAt(l, q, 1) /\ next[head(l)] # NULL
  BY <1>1, <1>2, CellAtValues
<1>4. LinkBefore(n, CellAt(l, q, 1)) /\ Adds(l, n) /\ UNCHANGED prio
  BY <1>3 DEF list_insert
<1>5. Becomes(l, e)
  BY <1>1, <1>4, LinkInserts
<1>6. /\ e \in Seq(Node) /\ Len(e) = Len(q) + 1
      /\ e[1] = n
      /\ \A j \in 1 + 1 .. Len(q) + 1 : e[j] = q[j - 1]
  BY <1>1, Ops!InsertAtElements
<1>7. /\ f \in Seq(Node) /\ Len(f) = Len(q) + 1
      /\ f[1] = n
      /\ \A j \in 1 + 1 .. Len(q) + 1 : f[j] = q[j - 1]
  BY <1>1
<1> HIDE DEF e, f
<1>8. ASSUME NEW j \in 1 .. Len(e)
      PROVE  e[j] = f[j]
  <2>1. j = 1 \/ j \in 1 + 1 .. Len(q) + 1
    BY <1>1, <1>6
  <2> QED
    BY <1>6, <1>7, <2>1
<1>9. e = f
  BY <1>6, <1>7, <1>8, SeqEqual
<1> QED
  BY <1>5, <1>9 DEF f

\* ... and at the back.
LEMMA InsertBackStep ==
  ASSUME LinkTypes, NEW l \in List, NEW q \in Seq(Node), Linked(l, q), NEW n \in Node,
         list_insert(l, n, tail(l))
  PROVE  Becomes(l, Append(q, n))
<1>1. LinkBefore(n, tail(l)) /\ Adds(l, n) /\ UNCHANGED prio
  BY DEF list_insert, Linked
<1> QED
  BY <1>1, AddTailStep

\* The walk of list_enqueue() stops where ListOps says.
LEMMA EnqueueStep ==
  ASSUME LinkTypes, NEW l \in List, NEW q \in Seq(Node), Linked(l, q), NEW n \in Node,
         list_enqueue(l, n)
  PROVE  \E e : e = Ops!list_enqueue(q, prio, n) /\ Becomes(l, e)
<1>1. PICK k \in 0 .. Cardinality(Node) :
        /\ \A j \in 0 .. k - 1 : ~ StopsAt(n, Walk(l)[j])
        /\ StopsAt(n, Walk(l)[k])
        /\ LinkBefore(n, Walk(l)[k])
  BY DEF list_enqueue
<1>2. /\ Cardinality(Cell) \in Nat /\ Cardinality(Node) \in Nat /\ Len(q) \in Nat
      /\ Len(q) <= Cardinality(Node) /\ Len(q) < Cardinality(Cell)
  BY ListBound DEF Linked
<1>3. ASSUME NEW j \in 0 .. Len(q)
      PROVE  Walk(l)[j] = CellAt(l, q, j + 1)
  BY <1>2, WalkIs
<1>4. ASSUME NEW j \in 1 .. Len(q)
      PROVE  StopsAt(n, CellAt(l, q, j)) <=> prio[q[j]] < prio[n]
  <2>1. CellAt(l, q, j) = q[j] /\ CellAt(l, q, j) # NULL
    BY <1>2, CellAtValues, Sentinels
  <2>2. next[CellAt(l, q, j)] = CellAt(l, q, j + 1) /\ CellAt(l, q, j + 1) # NULL
    BY <1>2, CellAtValues DEF Linked
  <2> QED
    BY <2>1, <2>2 DEF StopsAt
<1>5. StopsAt(n, Walk(l)[Len(q)])
  <2>1. Walk(l)[Len(q)] = tail(l)
    BY <1>2, <1>3, CellAtValues
  <2> QED
    BY <2>1, Sentinels DEF StopsAt, Linked
<1>6. k <= Len(q)
  <2> SUFFICES ASSUME k > Len(q) PROVE FALSE
    BY <1>2
  <2>1. Len(q) \in 0 .. k - 1
    BY <1>2
  <2> QED
    BY <1>1, <1>5, <2>1
<1>7. k \in 0 .. Len(q) /\ k + 1 \in 1 .. Len(q) + 1 /\ Walk(l)[k] = CellAt(l, q, k + 1)
  BY <1>2, <1>3, <1>6
<1>8. prio \in [Node -> Int]
  BY LinkedListAssumption DEF LinkTypes
<1>9. Ops!IsEnqueuePos(q, prio, prio[n], k + 1)
  <2>1. ASSUME NEW j \in 1 .. (k + 1) - 1
        PROVE  ~ (prio[n] > prio[q[j]])
    <3>1. j - 1 \in 0 .. k - 1 /\ j - 1 \in 0 .. Len(q) /\ (j - 1) + 1 = j /\ j \in 1 .. Len(q)
      BY <1>2, <1>7
    <3>2. ~ StopsAt(n, Walk(l)[j - 1])
      BY <1>1, <3>1
    <3>3. Walk(l)[j - 1] = CellAt(l, q, j)
      BY <1>3, <3>1
    <3>4. ~ (prio[q[j]] < prio[n])
      BY <1>4, <3>1, <3>2, <3>3
    <3>5. q[j] \in Node
      BY <3>1
    <3> QED
      BY <1>8, <3>4, <3>5
  <2>2. ASSUME k + 1 <= Len(q)
        PROVE  prio[n] > prio[q[k + 1]]
    <3>1. k + 1 \in 1 .. Len(q) /\ q[k + 1] \in Node
      BY <1>2, <1>7, <2>2
    <3>2. prio[q[k + 1]] < prio[n]
      BY <1>1, <1>4, <1>7, <3>1
    <3> QED
      BY <1>8, <3>1, <3>2
  <2> QED
    BY <1>7, <2>1, <2>2 DEF Ops!IsEnqueuePos, Ops!GoesBefore
<1>10. ASSUME NEW i \in 1 .. Len(q) + 1, Ops!IsEnqueuePos(q, prio, prio[n], i)
       PROVE  i = k + 1
  <2>1. ~ (i < k + 1)
    <3> SUFFICES ASSUME i < k + 1 PROVE FALSE
      OBVIOUS
    <3>1. i \in 1 .. (k + 1) - 1 /\ i <= Len(q)
      BY <1>2, <1>7
    <3> QED
      BY <1>9, <1>10, <3>1 DEF Ops!IsEnqueuePos
  <2>2. ~ (i > k + 1)
    <3> SUFFICES ASSUME i > k + 1 PROVE FALSE
      OBVIOUS
    <3>1. k + 1 \in 1 .. i - 1 /\ k + 1 <= Len(q)
      BY <1>2, <1>7
    <3> QED
      BY <1>9, <1>10, <3>1 DEF Ops!IsEnqueuePos
  <2> QED
    BY <1>7, <2>1, <2>2
<1>11. Ops!list_enqueue(q, prio, n) = Ops!InsertAt(q, k + 1, n)
  <2> DEFINE i == CHOOSE i \in 1 .. Len(q) + 1 : Ops!IsEnqueuePos(q, prio, prio[n], i)
  <2>1. i = k + 1
    BY <1>7, <1>9, <1>10
  <2>2. Ops!list_enqueue(q, prio, n) = Ops!InsertAt(q, i, n)
    BY DEF Ops!list_enqueue
  <2> HIDE DEF i
  <2> QED
    BY <2>1, <2>2
<1>12. LinkBefore(n, CellAt(l, q, k + 1)) /\ Adds(l, n) /\ UNCHANGED prio
  BY <1>1, <1>7 DEF list_enqueue
<1>13. Becomes(l, Ops!InsertAt(q, k + 1, n))
  BY <1>7, <1>12, LinkInserts
<1> QED
  BY <1>11, <1>13

\* list_rem_head() takes the first node.
LEMMA RemHeadStep ==
  ASSUME LinkTypes, NEW l \in List, NEW q \in Seq(Node), Linked(l, q), list_rem_head(l)
  PROVE  q # << >> /\ Becomes(l, Tail(q))
<1> DEFINE e == Ops!list_unlink(q, q[1])
<1>1. Len(q) \in Nat /\ 0 \in 0 .. Len(q)
  OBVIOUS
<1>2. prev[tail(l)] = CellAt(l, q, Len(q))
  BY <1>1, CellAtValues DEF Linked
<1>3. Len(q) # 0
  BY <1>2, CellAtValues DEF list_rem_head, list_is_empty
<1>4. q # << >> /\ 1 \in 1 .. Len(q)
  BY <1>1, <1>3
<1>5. next[head(l)] = CellAt(l, q, 0 + 1)
  BY <1>1, CellAtValues DEF Linked
<1>6. next[head(l)] = q[1]
  BY <1>4, <1>5, CellAtValues
<1>7. Becomes(l, e)
  BY <1>4, <1>6, UnlinkRemoves DEF list_rem_head
<1>8. /\ e \in Seq(Node) /\ Len(e) = Len(q) - 1
      /\ \A j \in 1 .. Len(q) - 1 : e[j] = q[j + 1]
  BY <1>4, UnlinkAt, Ops!RemoveAtElements DEF Linked
<1> HIDE DEF e
<1>9. /\ Tail(q) \in Seq(Node) /\ Len(Tail(q)) = Len(q) - 1
      /\ \A j \in 1 .. Len(q) - 1 : Tail(q)[j] = q[j + 1]
  BY <1>1, <1>4
<1>10. e = Tail(q)
  BY <1>8, <1>9, SeqEqual
<1> QED
  BY <1>4, <1>7, <1>10

\* list_unlink() takes a node off the list it is on.
LEMMA UnlinkStep ==
  ASSUME LinkInv, NEW n \in Node, owner[n] # NULL, list_unlink(n)
  PROVE  \E l \in List : \E q \in Seq(Node) :
           Linked(l, q) /\ Ops!OnList(q, n) /\ Becomes(l, Ops!list_unlink(q, n))
<1>1. PICK l \in List : owner[n] = l
  BY DEF LinkInv, LinkTypes
<1>2. PICK q \in Seq(Node) : Linked(l, q)
  BY DEF LinkInv
<1>3. Ops!OnList(q, n)
  BY <1>1, <1>2 DEF Linked
<1>4. PICK i \in 1 .. Len(q) : q[i] = n
  BY <1>3 DEF Ops!OnList
<1>5. Becomes(l, Ops!list_unlink(q, n))
  BY <1>2, <1>4, UnlinkRemoves DEF LinkInv
<1> QED
  BY <1>2, <1>3, <1>5

\* A place for list_insert() is a sentinel or a node of the list.
LEMMA Places ==
  ASSUME NEW l \in List, NEW q \in Seq(Node), Linked(l, q), NEW p \in Prevs(l)
  PROVE  p = head(l) \/ p = tail(l) \/ \E i \in 1 .. Len(q) : p = q[i]
BY DEF Prevs, Linked, Ops!OnList

\* A step that moves no pointer changes no list.
LEMMA QuietStep ==
  ASSUME UNCHANGED <<next, prev, owner>>
  PROVE  \A k \in List, r \in Seq(Node) : Linked(k, r) => Linked(k, r)'
BY DEF Linked

\* Whatever a step does to a list, the lists remain sequences.
LEMMA LinkNextInv ==
  ASSUME LinkInv, [Next]_vars
  PROVE  LinkInv'
<1>0. LinkTypes
  BY DEF LinkInv
<1>1. ASSUME NEW l \in List, list_rem_head(l)
      PROVE  LinkInv'
  <2>1. PICK q \in Seq(Node) : Linked(l, q)
    BY DEF LinkInv
  <2> QED
    BY <1>0, <1>1, <2>1, RemHeadStep, InvFromLists
<1>2. ASSUME NEW l \in List, NEW n \in Node, list_add_tail(l, n)
      PROVE  LinkInv'
  <2>1. PICK q \in Seq(Node) : Linked(l, q)
    BY DEF LinkInv
  <2>2. Becomes(l, Append(q, n))
    BY <1>0, <1>2, <2>1, AddTailStep DEF list_add_tail
  <2> QED
    BY <2>2, InvFromLists
<1>3. ASSUME NEW l \in List, NEW n \in Node, list_enqueue(l, n)
      PROVE  LinkInv'
  <2>1. PICK q \in Seq(Node) : Linked(l, q)
    BY DEF LinkInv
  <2>2. PICK e : Becomes(l, e)
    BY <1>0, <1>3, <2>1, EnqueueStep
  <2> QED
    BY <2>2, InvFromLists
<1>4. ASSUME NEW l \in List, NEW n \in Node, NEW p \in Prevs(l), list_insert(l, n, p)
      PROVE  LinkInv'
  <2>1. PICK q \in Seq(Node) : Linked(l, q)
    BY DEF LinkInv
  <2>2. CASE p = head(l)
    BY <1>0, <1>4, <2>1, <2>2, InsertFrontStep, InvFromLists
  <2>3. CASE p = tail(l)
    BY <1>0, <1>4, <2>1, <2>3, InsertBackStep, InvFromLists
  <2>4. CASE \E i \in 1 .. Len(q) : p = q[i]
    BY <1>0, <1>4, <2>1, <2>4, InsertStep, InvFromLists
  <2> QED
    BY <2>1, <2>2, <2>3, <2>4, Places
<1>5. ASSUME NEW n \in Node, owner[n] # NULL, list_unlink(n)
      PROVE  LinkInv'
  BY <1>5, UnlinkStep, InvFromLists
<1>6. ASSUME NEW n \in Node, NEW p \in Prio, SetPrio(n, p)
      PROVE  LinkInv'
  <2>1. UNCHANGED <<next, prev, owner>> /\ LinkTypes'
    BY <1>0, <1>6 DEF SetPrio, LinkTypes
  <2> QED
    BY <2>1, QuietStep DEF LinkInv
<1>7. CASE UNCHANGED vars
  <2>1. UNCHANGED <<next, prev, owner>> /\ LinkTypes'
    BY <1>0, <1>7 DEF vars, LinkTypes
  <2> QED
    BY <2>1, QuietStep DEF LinkInv
<1> QED
  BY <1>1, <1>2, <1>3, <1>4, <1>5, <1>6, <1>7 DEF Next

-----------------------------------------------------------------------------
(* The theorems. *)

\* The invariant holds in every behaviour.
THEOREM LinkInvCorrect == Spec => []LinkInv
<1>1. Init => LinkInv
  <2>1. << >> \in Seq(Node)
    OBVIOUS
  <2> QED
    BY <2>1, InitEmpty DEF LinkInv
<1> QED
  BY <1>1, LinkNextInv, PTL DEF Spec

\* Pointers point to cells, and a node that is on a list has both of its own.
THEOREM LinkTypeCorrect == Spec => []LinkTypeOK
BY LinkInvCorrect, InvImpliesTypes, PTL

\* Both walks along a list, forward and backward, visit the same nodes and end
\* at the list's own sentinels, whatever stale pointers its nodes had.
THEOREM BothWaysCorrect == Spec => []BothWays
BY LinkInvCorrect, InvImpliesBothWays, PTL

\* A node is on the list its caller has put it on, and on no other.
THEOREM OnOwnersListCorrect == Spec => []OnOwnersList
BY LinkInvCorrect, InvImpliesOwner, PTL

\* list_find() returns the first node with the name, or NULL.
THEOREM FindsFirstCorrect == Spec => []FindsFirst
BY LinkInvCorrect, InvImpliesFinds, PTL

-----------------------------------------------------------------------------
(* The pointer lists implement ListSpec. *)

\* The refinement mapping reads the sequence off the pointers.
ContentsMatch == \A l \in List, q \in Seq(Node) : Linked(l, q) => Contents(l) = q

\* What a step makes of the lists is what it makes of their contents.
LEMMA ContentsBecome ==
  ASSUME LinkInv, ContentsMatch, ContentsMatch',
         NEW l \in List, NEW q \in Seq(Node), Linked(l, q), NEW e, Becomes(l, e)
  PROVE  /\ Contents(l) = q
         /\ [k \in List |-> Contents(k)']
              = [[k \in List |-> Contents(k)] EXCEPT ![l] = e]
<1>1. Contents(l) = q
  BY DEF ContentsMatch
<1>2. Contents(l)' = e
  BY DEF ContentsMatch, Becomes
<1>3. ASSUME NEW k \in List, k # l
      PROVE  Contents(k)' = Contents(k)
  <2>1. PICK r \in Seq(Node) : Linked(k, r)
    BY DEF LinkInv
  <2>2. Linked(k, r)'
    BY <1>3, <2>1 DEF Becomes
  <2> QED
    BY <2>1, <2>2 DEF ContentsMatch
<1> QED
  BY <1>1, <1>2, <1>3

\* A node without an owner is free for ListSpec.
LEMMA FreeNode ==
  ASSUME LinkInv, ContentsMatch, NEW n \in Node, owner[n] = NULL
  PROVE  Lists!Free(n)
<1> DEFINE c == [k \in List |-> Contents(k)]
<1>1. ASSUME NEW l \in List
      PROVE  ~ Lists!OnList(c[l], n)
  <2>1. PICK q \in Seq(Node) : Linked(l, q)
    BY DEF LinkInv
  <2>2. c[l] = q
    BY <2>1 DEF ContentsMatch
  <2>3. ~ Ops!OnList(q, n)
    BY <2>1, LinkedListAssumption DEF Linked
  <2> QED
    BY <2>2, <2>3 DEF Lists!OnList, Ops!OnList
<1> QED
  BY <1>1 DEF Lists!Free

\* Each call is a step of ListSpec.
LEMMA StepImplements ==
  ASSUME LinkInv, ContentsMatch, ContentsMatch', Next
  PROVE  Lists!SpecNext
<1> DEFINE c == [k \in List |-> Contents(k)]
           d == [k \in List |-> Contents(k)']
<1>0. LinkTypes
  BY DEF LinkInv
<1>1. ASSUME NEW l \in List, list_rem_head(l), call' = <<"list_rem_head", l>>
      PROVE  Lists!SpecNext
  <2>1. PICK q \in Seq(Node) : Linked(l, q)
    BY DEF LinkInv
  <2>2. q # << >> /\ Becomes(l, Tail(q))
    BY <1>0, <1>1, <2>1, RemHeadStep
  <2>3. Contents(l) = q /\ d = [c EXCEPT ![l] = Tail(q)]
    BY <2>1, <2>2, ContentsBecome
  <2>4. q[1] \in Node
    BY <2>2
  <2>5. UNCHANGED prio
    BY <1>1 DEF list_rem_head, list_unlink
  <2>6. Lists!SpecRemHead(l)
    BY <1>1, <2>2, <2>3 DEF Lists!SpecRemHead
  <2> QED
    BY <2>4, <2>5, <2>6 DEF Lists!SpecNext
<1>2. ASSUME NEW l \in List, NEW n \in Node, list_add_tail(l, n),
             call' = <<"list_add_tail", l, n>>
      PROVE  Lists!SpecNext
  <2>1. PICK q \in Seq(Node) : Linked(l, q)
    BY DEF LinkInv
  <2>2. Becomes(l, Append(q, n)) /\ owner[n] = NULL /\ UNCHANGED prio
    BY <1>0, <1>2, <2>1, AddTailStep DEF list_add_tail, Adds
  <2>3. Contents(l) = q /\ d = [c EXCEPT ![l] = Append(q, n)]
    BY <2>1, <2>2, ContentsBecome
  <2>4. Lists!Free(n)
    BY <2>2, FreeNode
  <2>5. Lists!SpecAddTail(l, n)
    BY <1>2, <2>3, <2>4 DEF Lists!SpecAddTail
  <2> QED
    BY <2>2, <2>5 DEF Lists!SpecNext
<1>3. ASSUME NEW l \in List, NEW n \in Node, list_enqueue(l, n),
             call' = <<"list_enqueue", l, n>>
      PROVE  Lists!SpecNext
  <2>1. PICK q \in Seq(Node) : Linked(l, q)
    BY DEF LinkInv
  <2>2. PICK e : e = Ops!list_enqueue(q, prio, n) /\ Becomes(l, e)
    BY <1>0, <1>3, <2>1, EnqueueStep
  <2>3. Contents(l) = q /\ d = [c EXCEPT ![l] = e]
    BY <2>1, <2>2, ContentsBecome
  <2>4. Lists!Free(n) /\ UNCHANGED prio
    BY <1>3, FreeNode DEF list_enqueue, Adds
  <2>5. Lists!list_enqueue(q, prio, n) = e
    BY <2>2 DEF Lists!list_enqueue, Ops!list_enqueue, Lists!IsEnqueuePos,
                Ops!IsEnqueuePos, Lists!GoesBefore, Ops!GoesBefore, Lists!InsertAt,
                Ops!InsertAt
  <2>6. Lists!SpecEnqueue(l, n)
    BY <1>3, <2>3, <2>4, <2>5 DEF Lists!SpecEnqueue
  <2> QED
    BY <2>4, <2>6 DEF Lists!SpecNext
<1>4. ASSUME NEW l \in List, NEW n \in Node, NEW p \in Prevs(l), list_insert(l, n, p),
             call' = <<"list_insert", l, n, Place(l, p)>>
      PROVE  Lists!SpecNext
  <2>1. PICK q \in Seq(Node) : Linked(l, q)
    BY DEF LinkInv
  <2>2. Lists!Free(n) /\ UNCHANGED prio
    BY <1>4, FreeNode DEF list_insert, Adds
  <2>3. CASE p = head(l)
    <3>1. Becomes(l, <<n>> \o q)
      BY <1>0, <1>4, <2>1, <2>3, InsertFrontStep
    <3>2. Contents(l) = q /\ d = [c EXCEPT ![l] = <<n>> \o q]
      BY <2>1, <3>1, ContentsBecome
    <3>3. Place(l, p) = "front"
      BY <2>3, Sentinels DEF Place
    <3>4. Lists!SpecInsertAtEnd(l, n)
      BY <1>4, <2>2, <3>2, <3>3 DEF Lists!SpecInsertAtEnd
    <3> QED
      BY <2>2, <3>4 DEF Lists!SpecNext
  <2>4. CASE p = tail(l)
    <3>1. Becomes(l, Append(q, n))
      BY <1>0, <1>4, <2>1, <2>4, InsertBackStep
    <3>2. Contents(l) = q /\ d = [c EXCEPT ![l] = Append(q, n)]
      BY <2>1, <3>1, ContentsBecome
    <3>3. Place(l, p) = "back"
      BY <2>4, Sentinels DEF Place
    <3>4. Lists!SpecInsertAtEnd(l, n)
      BY <1>4, <2>2, <3>2, <3>3 DEF Lists!SpecInsertAtEnd
    <3> QED
      BY <2>2, <3>4 DEF Lists!SpecNext
  <2>5. ASSUME NEW i \in 1 .. Len(q), p = q[i]
        PROVE  Lists!SpecNext
    <3>1. Becomes(l, Ops!InsertAt(q, i + 1, n))
      BY <1>0, <1>4, <2>1, <2>5, InsertStep
    <3>2. Contents(l) = q /\ d = [c EXCEPT ![l] = Ops!InsertAt(q, i + 1, n)]
      BY <2>1, <3>1, ContentsBecome
    <3>3. Ops!InsertAt(q, i + 1, n) = Lists!InsertAt(q, i + 1, n)
      BY DEF Ops!InsertAt, Lists!InsertAt
    <3>4. q[i] \in Node
      OBVIOUS
    <3>5. Place(l, p) = q[i]
      BY <2>5, <3>4, Sentinels DEF Place
    <3>6. c[l] = q
      BY <3>2
    <3>7. Lists!SpecInsert(l, n, i)
      BY <1>4, <2>2, <3>2, <3>3, <3>5, <3>6 DEF Lists!SpecInsert
    <3> QED
      BY <2>2, <3>6, <3>7 DEF Lists!SpecNext
  <2> QED
    BY <2>1, <2>3, <2>4, <2>5, Places
<1>5. ASSUME NEW n \in Node, owner[n] # NULL, list_unlink(n), call' = <<"list_unlink", n>>
      PROVE  Lists!SpecNext
  <2>1. PICK l \in List, q \in Seq(Node) :
          Linked(l, q) /\ Ops!OnList(q, n) /\ Becomes(l, Ops!list_unlink(q, n))
    BY <1>5, UnlinkStep
  <2>2. Contents(l) = q /\ d = [c EXCEPT ![l] = Ops!list_unlink(q, n)]
    BY <2>1, ContentsBecome
  <2>3. Ops!list_unlink(q, n) = Lists!list_unlink(q, n)
    BY DEF Ops!list_unlink, Lists!list_unlink, Ops!RemoveAt, Lists!RemoveAt
  <2>4. Lists!OnList(q, n) /\ c[l] = q
    BY <2>1, <2>2 DEF Ops!OnList, Lists!OnList
  <2>5. Lists!SpecUnlink(l, n)
    BY <1>5, <2>2, <2>3, <2>4 DEF Lists!SpecUnlink
  <2>6. UNCHANGED prio
    BY <1>5 DEF list_unlink
  <2> QED
    BY <2>5, <2>6 DEF Lists!SpecNext
<1>6. ASSUME NEW n \in Node, NEW p \in Prio, SetPrio(n, p), call' = <<"prio", n>>
      PROVE  Lists!SpecNext
  <2>1. UNCHANGED <<next, prev, owner>> /\ \A m \in Node \ {n} : prio'[m] = prio[m]
    BY <1>0, <1>6 DEF SetPrio, LinkTypes
  <2>2. ASSUME NEW k \in List
        PROVE  Contents(k)' = Contents(k)
    <3>1. PICK r \in Seq(Node) : Linked(k, r)
      BY DEF LinkInv
    <3>2. Linked(k, r)'
      BY <2>1, <3>1, QuietStep
    <3> QED
      BY <3>1, <3>2 DEF ContentsMatch
  <2>3. d = c
    BY <2>2
  <2>4. Lists!Free(n)
    BY <1>6, FreeNode DEF SetPrio
  <2>5. Lists!SpecSetPrio(n)
    BY <1>6, <2>1, <2>3, <2>4 DEF Lists!SpecSetPrio
  <2>6. PICK l \in List : TRUE
    BY LinkedListAssumption
  <2> QED
    BY <2>5, <2>6 DEF Lists!SpecNext
<1> QED
  BY <1>1, <1>2, <1>3, <1>4, <1>5, <1>6 DEF Next

\* list.c implements ListSpec: every call does to the sequence of nodes what the
\* operator of ListOps says of it, and nothing to the other lists.
THEOREM ListsImplemented == Spec => ImplementsLists
<1>1. ContentsMatch
  BY ContentsIs DEF ContentsMatch
<1>2. Init => Lists!SpecInit
  <2> SUFFICES ASSUME Init PROVE Lists!SpecInit
    OBVIOUS
  <2>1. << >> \in Seq(Node)
    OBVIOUS
  <2>2. \A l \in List : Contents(l) = << >>
    BY <1>1, <2>1, InitEmpty DEF ContentsMatch
  <2>3. prio \in [Node -> Int] /\ call = << >>
    BY LinkedListAssumption DEF Init
  <2> QED
    BY <2>2, <2>3 DEF Lists!SpecInit
<1>3. ASSUME LinkInv, ContentsMatch, ContentsMatch', [Next]_vars
      PROVE  [Lists!SpecNext]_Lists!listVars
  <2>1. CASE Next
    BY <1>3, <2>1, StepImplements
  <2>2. CASE UNCHANGED vars
    <3>1. UNCHANGED <<next, prev, owner, prio, call>>
      BY <2>2 DEF vars
    <3>2. ASSUME NEW k \in List
          PROVE  Contents(k)' = Contents(k)
      <4>1. PICK r \in Seq(Node) : Linked(k, r)
        BY <1>3 DEF LinkInv
      <4>2. Linked(k, r)'
        BY <3>1, <4>1, QuietStep
      <4> QED
        BY <1>3, <4>1, <4>2 DEF ContentsMatch
    <3> QED
      BY <3>1, <3>2 DEF Lists!listVars
  <2> QED
    BY <1>3, <2>1, <2>2
<1> QED
  BY <1>1, <1>2, <1>3, LinkInvCorrect, PTL DEF Spec, ImplementsLists, Lists!ListsSpec
=============================================================================
